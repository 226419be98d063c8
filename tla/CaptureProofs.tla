--------------------------- MODULE CaptureProofs ---------------------------
(***************************************************************************)
(* Proofs about Capture, for any number of processes, identities and       *)
(* contents: the type invariant, the inductive invariant behind the safety *)
(* properties, and the refinement of CanonicalLog.  Then about Hermes, the *)
(* boundary that captures what its host does: its authority, and what its  *)
(* injections make of the evidence they read.                              *)
(***************************************************************************)
EXTENDS Capture, Hermes, FiniteSetTheorems, WellFoundedInduction, TLAPS

-----------------------------------------------------------------------------
(***************************************************************************)
(* What the helpers return.                                                *)
(***************************************************************************)

\* _next_sequence after indexing records numbered first..last-1, from first.
LEMMA SequenceAfterRun ==
    ASSUME NEW first \in Nat, NEW last \in Nat, first <= last,
           NEW R \in SUBSET Record,
           {r.sequence : r \in R} = first .. (last - 1)
    PROVE  SequenceAfter(first, R) = last
<1> DEFINE C == {first} \cup {r.sequence + 1 : r \in R}
           Ok(n) == n >= first /\ \A r \in R : n >= r.sequence + 1
<1>1. \A r \in R : r.sequence \in Nat /\ r.sequence <= last - 1
    BY DEF Record
<1>2. last \in C
    <2>1. CASE first = last
        BY <2>1
    <2>2. CASE first < last
        <3>1. last - 1 \in first .. (last - 1)
            BY <2>2
        <3>2. PICK r \in R : r.sequence = last - 1
            BY <3>1
        <3> QED BY <3>2
    <2> QED BY <2>1, <2>2
<1>3. Ok(last)
    BY <1>1
<1>4. \A n \in C : Ok(n) => n = last
    <2> SUFFICES ASSUME NEW n \in C, Ok(n) PROVE n = last
        OBVIOUS
    <2>1. n \in Nat /\ n <= last
        BY <1>1
    <2>2. n >= last
        <3>1. CASE first = last
            BY <3>1
        <3>2. CASE first < last
            <4>1. last - 1 \in first .. (last - 1)
                BY <3>2
            <4>2. PICK r \in R : r.sequence = last - 1
                BY <4>1
            <4> QED BY <4>2
        <3> QED BY <3>1, <3>2
    <2> QED BY <2>1, <2>2
<1>5. SequenceAfter(first, R) = CHOOSE n \in C : Ok(n)
    BY DEF SequenceAfter
<1> HIDE DEF C, Ok
<1> QED BY <1>2, <1>3, <1>4, <1>5

\* A file of envelopes is indexed up to its last complete line, or not at all.
LEMMA ParsedLines ==
    ASSUME file \in Seq(Record), NEW from \in Nat
    PROVE  /\ ~torn => Parsed(from) = Lines(from, Len(file))
           /\ torn => Parsed(from) = {}
           /\ Readable(from) <=> ~torn
<1>1. \A i \in DOMAIN file : file[i] # Malformed
    BY CaptureAssumption
<1>2. \A j \in (from + 1) .. Len(file) : Malformed \notin Lines(from, j)
    BY <1>1 DEF Lines
<1>3. Malformed \notin Lines(from, Len(file))
    BY <1>1 DEF Lines
<1> QED BY <1>2, <1>3 DEF Parsed, Readable, Lines

-----------------------------------------------------------------------------
(***************************************************************************)
(* Type correctness and the inductive invariant.  A step past the lock     *)
(* reasons about the file through an index, so what an append may do       *)
(* depends on the index being a prefix of the file (IndexIsPrefix), on     *)
(* that prefix being all of it (StepEstablished), and on the file being    *)
(* well formed (LogWellFormed): none of the three is inductive alone.      *)
(***************************************************************************)

\* What each step of append may rely on, having been reached: exactly the steps
\* past the lock hold it; past the refresh the index covers the whole file,
\* which ends in no partial line; past admission the event is new; and past the
\* write the file is one line, that event's record, ahead of the index.
StepEstablished ==
    \A p \in Procs :
        /\ lock = p <=> pc[p] \in Locked
        /\ pc[p] \in Steps => request[p] \in Event
        /\ pc[p] \in {"admit", "write"} => ~torn /\ loaded[p] = Len(file)
        /\ pc[p] = "write" => SameId(p) = {} /\ SameHash(p) = {}
        /\ pc[p] = "fsync" => /\ Len(file) = loaded[p] + 1
                              /\ file[Len(file)] = NewRecord(p)

IInv == TypeOK /\ LogWellFormed /\ IndexIsPrefix /\ StepEstablished /\ AcknowledgedIsDurable

LEMMA InitIInv == Init => IInv
<1> SUFFICES ASSUME Init PROVE IInv
    OBVIOUS
<1> USE CaptureAssumption DEF Init
<1>1. TypeOK
    <2>1. file \in Seq(Record \cup {Malformed})
        OBVIOUS
    <2>2. pc \in [Procs -> Steps \cup {"closed", "idle"}]
        OBVIOUS
    <2>3. request \in [Procs -> Event \cup {NoEvent}] /\ known \in [Procs -> SUBSET Record]
        OBVIOUS
    <2>4. loaded \in [Procs -> Nat] /\ nextSeq \in [Procs -> Nat]
        OBVIOUS
    <2> QED BY <2>1, <2>2, <2>3, <2>4 DEF TypeOK
<1>2. LogWellFormed
    BY DEF LogWellFormed
<1>3. IndexIsPrefix
    BY DEF IndexIsPrefix, Lines
<1>4. StepEstablished
    BY DEF StepEstablished, Locked, Steps
<1>5. AcknowledgedIsDurable
    BY DEF AcknowledgedIsDurable
<1> QED BY <1>1, <1>2, <1>3, <1>4, <1>5 DEF IInv

\* The file of a reachable state holds records only.
LEMMA FileOfRecords == IInv => file \in Seq(Record)
BY DEF IInv, TypeOK, LogWellFormed

\* The index of a store after it has read on from its offset.
LEMMA IndexAfterReading ==
    ASSUME IInv, NEW from \in Nat, from <= Len(file), ~torn
    PROVE  /\ Parsed(from) = Lines(from, Len(file))
           /\ Lines(0, from) \cup Parsed(from) = Lines(0, Len(file))
           /\ SequenceAfter(from, Parsed(from)) = Len(file)
<1>0. file \in Seq(Record)
    BY FileOfRecords
<1>1. Parsed(from) = Lines(from, Len(file))
    BY <1>0, ParsedLines
<1>2. Lines(0, from) \cup Lines(from, Len(file)) = Lines(0, Len(file))
    BY <1>0 DEF Lines
<1>3. {r.sequence : r \in Lines(from, Len(file))} = from .. (Len(file) - 1)
    <2>1. \A i \in (from + 1) .. Len(file) : file[i].sequence = i - 1
        BY <1>0 DEF IInv, LogWellFormed
    <2>2. \A n \in from .. (Len(file) - 1) :
              n + 1 \in (from + 1) .. Len(file) /\ file[n + 1].sequence = n
        BY <1>0, <2>1
    <2> QED BY <2>1, <2>2, <1>0 DEF Lines
<1>4. Lines(from, Len(file)) \in SUBSET Record
    BY <1>0 DEF Lines
<1>5. SequenceAfter(from, Lines(from, Len(file))) = Len(file)
    BY <1>0, <1>3, <1>4, SequenceAfterRun
<1> QED BY <1>1, <1>2, <1>5

\* Nothing but the file, the number of synced lines and acked decides the
\* invariants about the file.
LEMMA FileUnchanged ==
    ASSUME IInv, UNCHANGED <<file, synced, acked>>
    PROVE  LogWellFormed' /\ AcknowledgedIsDurable'
BY DEF IInv, LogWellFormed, AcknowledgedIsDurable

\* Steps that leave the file and every index alone, except that they may make
\* the last line partial, which only a step past the lock can do.
LEMMA StoresUnchanged ==
    ASSUME IInv, UNCHANGED <<file, storeVars>>
    PROVE  IndexIsPrefix'
BY DEF IInv, IndexIsPrefix, Lines, storeVars

LEMMA StepPreservesIInv ==
    ASSUME IInv, NEW p \in Procs, ProcessStep(p) PROVE IInv'
<1> USE DEF Steps, Locked
<1>0. TypeOK /\ LogWellFormed /\ IndexIsPrefix /\ StepEstablished /\ AcknowledgedIsDurable
    BY DEF IInv
<1>1. CASE Acquire(p)
    <2> USE <1>1 DEF Acquire, fileVars, storeVars
    <2>1. TypeOK'
        BY <1>0 DEF TypeOK
    <2>2. StepEstablished'
        BY <1>0, CaptureAssumption DEF TypeOK, StepEstablished, SameId, SameHash, NewRecord
    <2> QED BY <2>1, <2>2, FileUnchanged, StoresUnchanged DEF IInv
<1>2. CASE LockTimeout(p)
    <2> USE <1>2 DEF LockTimeout, Leave, fileVars, storeVars, history
    <2>1. TypeOK'
        BY <1>0 DEF TypeOK
    <2>2. StepEstablished'
        BY <1>0, CaptureAssumption DEF TypeOK, StepEstablished, SameId, SameHash, NewRecord
    <2> QED BY <2>1, <2>2, FileUnchanged, StoresUnchanged DEF IInv
<1>3. CASE Refresh(p)
    <2> USE <1>3 DEF fileVars, history
    <2>1. loaded[p] \in Nat /\ ~(Len(file) < loaded[p])
        BY <1>0 DEF TypeOK, IndexIsPrefix
    <2>2. file \in Seq(Record) /\ known[p] = Lines(0, loaded[p]) /\ nextSeq[p] = loaded[p]
        BY <1>0, FileOfRecords DEF IInv, IndexIsPrefix
    <2>3. lock = p /\ pc[p] = "refresh"
        BY <1>0 DEF Refresh, StepEstablished
    <2>4. CASE torn
        <3>1. Parsed(loaded[p]) = {} /\ ~Readable(loaded[p])
            BY <2>1, <2>2, <2>4, ParsedLines
        <3>2. SequenceAfter(nextSeq[p], {}) = nextSeq[p]
            BY <2>1, <2>2 DEF SequenceAfter
        <3>3. UNCHANGED <<file, torn, synced, storeVars, answer, acked>> /\ Leave(p)
            BY <1>0, <2>1, <3>1, <3>2 DEF Refresh, TypeOK, storeVars
        <3>4. TypeOK'
            BY <1>0, <3>3 DEF TypeOK, Leave, storeVars
        <3>5. StepEstablished'
            BY <1>0, <3>3, CaptureAssumption
            DEF TypeOK, StepEstablished, Leave, storeVars, SameId, SameHash, NewRecord
        <3> QED BY <3>3, <3>4, <3>5, FileUnchanged, StoresUnchanged DEF IInv
    <2>5. CASE ~torn
        <3>1. /\ Readable(loaded[p])
              /\ known[p] \cup Parsed(loaded[p]) = Lines(0, Len(file))
              /\ SequenceAfter(nextSeq[p], Parsed(loaded[p])) = Len(file)
            BY <1>0, <2>1, <2>2, <2>5, IndexAfterReading, ParsedLines
        <3>2. /\ known' = [known EXCEPT ![p] = Lines(0, Len(file))]
              /\ nextSeq' = [nextSeq EXCEPT ![p] = Len(file)]
              /\ loaded' = [loaded EXCEPT ![p] = Len(file)]
              /\ pc' = [pc EXCEPT ![p] = "admit"]
              /\ UNCHANGED <<file, torn, synced, lock, request, answer, acked>>
            BY <1>0, <2>1, <3>1 DEF Refresh, TypeOK
        <3>3. Lines(0, Len(file)) \in SUBSET Record /\ Len(file) \in Nat
            BY <2>2 DEF Lines
        <3>4. TypeOK'
            BY <1>0, <3>2, <3>3 DEF TypeOK
        <3>5. IndexIsPrefix'
            BY <1>0, <3>2, <3>3 DEF TypeOK, IndexIsPrefix, Lines
        <3>6. StepEstablished'
            BY <1>0, <2>3, <2>5, <3>2 DEF TypeOK, StepEstablished, SameId, SameHash, NewRecord
        <3> QED BY <3>2, <3>4, <3>5, <3>6, FileUnchanged DEF IInv
    <2> QED BY <2>4, <2>5
<1>4. CASE RejectByPolicy(p)
    <2> USE <1>4 DEF RejectByPolicy, Leave, fileVars, storeVars, history
    <2>1. TypeOK'
        BY <1>0 DEF TypeOK
    <2>2. StepEstablished'
        BY <1>0, CaptureAssumption DEF TypeOK, StepEstablished, SameId, SameHash, NewRecord
    <2> QED BY <2>1, <2>2, FileUnchanged, StoresUnchanged DEF IInv
<1>5. CASE DuplicateEvent(p) \/ DuplicateContent(p)
    <2>1. /\ pc[p] = "admit" /\ Leave(p) /\ UNCHANGED <<fileVars, storeVars, acked>>
          /\ \E r \in known[p] : \/ Answer(p, "duplicate", "event_id", r.sequence)
                                 \/ Answer(p, "duplicate", "content_hash", r.sequence)
        BY <1>5 DEF DuplicateEvent, DuplicateContent, SameId, SameHash
    <2> USE <2>1 DEF Leave, fileVars, storeVars
    <2>2. answer' \in AppendResult
        <3>1. request[p] \in Event /\ known[p] \in SUBSET Record
            BY <1>0 DEF StepEstablished, TypeOK
        <3> QED BY <2>1, <3>1 DEF Answer, AppendResult, Event, Record
    <2>3. TypeOK'
        BY <1>0, <2>2 DEF TypeOK
    <2>4. StepEstablished'
        BY <1>0, CaptureAssumption DEF TypeOK, StepEstablished, SameId, SameHash, NewRecord
    <2> QED BY <2>3, <2>4, FileUnchanged, StoresUnchanged DEF IInv
<1>6. CASE Admit(p)
    <2> USE <1>6 DEF Admit, fileVars, storeVars, history
    <2>1. TypeOK'
        BY <1>0 DEF TypeOK
    <2>2. StepEstablished'
        BY <1>0 DEF TypeOK, StepEstablished, SameId, SameHash, NewRecord
    <2> QED BY <2>1, <2>2, FileUnchanged, StoresUnchanged DEF IInv
<1>7. CASE Write(p)
    <2> USE <1>7 DEF storeVars, history
    <2>1. /\ lock = p /\ ~torn /\ loaded[p] = Len(file) /\ nextSeq[p] = Len(file)
          /\ known[p] = Lines(0, Len(file)) /\ request[p] \in Event
          /\ SameId(p) = {} /\ SameHash(p) = {}
        BY <1>0 DEF Write, StepEstablished, IndexIsPrefix
    <2>2. file \in Seq(Record) /\ NewRecord(p) \in Record /\ NewRecord(p).sequence = Len(file)
        BY <2>1, <1>0, FileOfRecords DEF IInv, NewRecord, Record, Event
    <2>3. file' = Append(file, NewRecord(p)) /\ torn' = FALSE
        BY <2>1 DEF Write, AppendLine
    <2>4. /\ Len(file') = Len(file) + 1
          /\ \A i \in 1 .. Len(file) : file'[i] = file[i]
          /\ file'[Len(file) + 1] = NewRecord(p)
        BY <2>2, <2>3
    <2>5. TypeOK'
        <3>1. file' \in Seq(Record \cup {Malformed})
            BY <1>0, <2>2, <2>3 DEF TypeOK
        <3> QED BY <1>0, <2>3, <3>1 DEF Write, TypeOK
    <2>6. LogWellFormed'
        <3>1. \A i \in 1 .. Len(file) : /\ file[i].event_id # NewRecord(p).event_id
                                        /\ file[i].content_hash # NewRecord(p).content_hash
            BY <2>1 DEF SameId, SameHash, Lines, NewRecord
        <3>2. \A i \in 1 .. Len(file) + 1 : file'[i] # Malformed /\ file'[i].sequence = i - 1
            BY <1>0, <2>2, <2>4, CaptureAssumption DEF LogWellFormed
        <3> QED BY <1>0, <2>2, <2>3, <2>4, <3>1, <3>2 DEF LogWellFormed
    <2>7. IndexIsPrefix'
        <3> SUFFICES ASSUME NEW q \in Procs
                     PROVE  /\ loaded[q] <= Len(file')
                            /\ known[q] = Lines(0, loaded[q])'
                            /\ nextSeq[q] = loaded[q]
            BY DEF Write, IndexIsPrefix
        <3>1. loaded[q] \in 0 .. Len(file) /\ known[q] = Lines(0, loaded[q])
            BY <1>0, <2>2 DEF TypeOK, IndexIsPrefix
        <3>2. Lines(0, loaded[q])' = Lines(0, loaded[q])
            BY <2>2, <2>4, <3>1 DEF Write, Lines
        <3> QED BY <1>0, <2>2, <2>4, <3>1, <3>2 DEF IndexIsPrefix
    <2>8. StepEstablished'
        BY <1>0, <2>1, <2>2, <2>4
        DEF Write, TypeOK, StepEstablished, SameId, SameHash, NewRecord
    <2>9. AcknowledgedIsDurable'
        <3>1. synced \in Nat /\ synced <= Len(file) /\ Len(file) \in Nat
            BY <1>0, <2>2 DEF TypeOK, AcknowledgedIsDurable
        <3>2. \A r \in acked : r.sequence + 1 \in 1 .. Len(file)
            BY <1>0, <3>1 DEF TypeOK, AcknowledgedIsDurable, Record
        <3> QED BY <1>0, <2>4, <3>1, <3>2 DEF Write, AcknowledgedIsDurable
    <2> QED BY <2>5, <2>6, <2>7, <2>8, <2>9 DEF IInv
<1>8. CASE WriteFails(p)
    <2> USE <1>8 DEF WriteFails, Leave, storeVars, history
    <2>1. TypeOK'
        BY <1>0 DEF TypeOK
    <2>2. StepEstablished'
        BY <1>0, CaptureAssumption DEF TypeOK, StepEstablished, SameId, SameHash, NewRecord
    <2> QED BY <2>1, <2>2, FileUnchanged, StoresUnchanged DEF IInv
<1>9. CASE Fsync(p)
    <2> USE <1>9 DEF Leave
    <2>1. /\ lock = p /\ Len(file) = loaded[p] + 1 /\ nextSeq[p] = loaded[p]
          /\ known[p] = Lines(0, loaded[p]) /\ request[p] \in Event
          /\ file[Len(file)] = NewRecord(p)
        BY <1>0 DEF Fsync, StepEstablished, IndexIsPrefix
    <2>2. file \in Seq(Record) /\ loaded[p] \in Nat
        BY <1>0, FileOfRecords DEF IInv, TypeOK
    <2>3. /\ UNCHANGED <<file, torn>> /\ synced' = Len(file)
          /\ known' = [known EXCEPT ![p] = Lines(0, Len(file))]
          /\ nextSeq' = [nextSeq EXCEPT ![p] = Len(file)]
          /\ loaded' = [loaded EXCEPT ![p] = Len(file)]
          /\ acked' = acked \cup {file[Len(file)]}
        <3>1. known[p] \cup {NewRecord(p)} = Lines(0, Len(file))
            BY <2>1, <2>2 DEF Lines
        <3> QED BY <1>0, <2>1, <2>2, <3>1 DEF Fsync, TypeOK
    <2>4. file[Len(file)] \in Record /\ Lines(0, Len(file)) \in SUBSET Record
        BY <2>1, <2>2 DEF Lines
    <2>5. answer' \in AppendResult
        BY <1>0, <2>1, <2>2 DEF Fsync, Answer, AppendResult, Event
    <2>6. TypeOK'
        BY <1>0, <2>2, <2>3, <2>4, <2>5 DEF Fsync, TypeOK
    <2>7. LogWellFormed'
        BY <1>0, <2>3 DEF LogWellFormed
    <2>8. IndexIsPrefix'
        BY <1>0, <2>2, <2>3 DEF TypeOK, IndexIsPrefix, Lines
    <2>9. StepEstablished'
        BY <1>0, <2>1, <2>3, CaptureAssumption
        DEF Fsync, TypeOK, StepEstablished, SameId, SameHash, NewRecord
    <2>10. AcknowledgedIsDurable'
        <3>1. file[Len(file)].sequence = Len(file) - 1 /\ synced \in Nat /\ Len(file) \in Nat
            BY <1>0, <2>1, <2>2 DEF LogWellFormed, TypeOK
        <3>2. \A r \in acked : r.sequence \in Nat
            BY <1>0 DEF TypeOK, Record
        <3> QED BY <1>0, <2>3, <3>1, <3>2 DEF AcknowledgedIsDurable
    <2> QED BY <2>6, <2>7, <2>8, <2>9, <2>10 DEF IInv
<1>10. CASE FsyncFails(p)
    <2> USE <1>10 DEF FsyncFails, Leave, fileVars, storeVars, history
    <2>1. TypeOK'
        BY <1>0 DEF TypeOK
    <2>2. StepEstablished'
        BY <1>0, CaptureAssumption DEF TypeOK, StepEstablished, SameId, SameHash, NewRecord
    <2> QED BY <2>1, <2>2, FileUnchanged, StoresUnchanged DEF IInv
<1> QED
    BY <1>1, <1>2, <1>3, <1>4, <1>5, <1>6, <1>7, <1>8, <1>9, <1>10 DEF ProcessStep

\* A file cut back to its first n lines keeps those lines.
LEMMA CutFile ==
    ASSUME IInv, NEW n \in synced .. Len(file), file' = SubSeq(file, 1, n)
    PROVE  /\ n \in Nat /\ n <= Len(file) /\ Len(file') = n
           /\ \A i \in 1 .. n : file'[i] = file[i]
           /\ file' \in Seq(Record)
<1>1. file \in Seq(Record) /\ synced \in Nat /\ n \in 0 .. Len(file)
    BY FileOfRecords DEF IInv, TypeOK
<1>2. Len(file') = n /\ \A i \in 1 .. n : file'[i] = file[i]
    BY <1>1
<1>3. file' \in Seq(Record)
    BY <1>1
<1> QED BY <1>1, <1>2, <1>3

LEMMA PowerLossPreservesIInv == ASSUME IInv, PowerLoss PROVE IInv'
<1>0. TypeOK /\ LogWellFormed /\ AcknowledgedIsDurable
    BY DEF IInv
<1>1. PICK n \in synced .. Len(file) : file' = SubSeq(file, 1, n) /\ torn' \in BOOLEAN
    BY <1>0 DEF PowerLoss, TypeOK
<1>2. /\ n \in Nat /\ n <= Len(file) /\ Len(file') = n /\ synced <= n /\ synced \in Nat
      /\ \A i \in 1 .. n : file'[i] = file[i]
      /\ file' \in Seq(Record)
    BY <1>0, <1>1, CutFile DEF TypeOK
<1>3. TypeOK'
    <2>1. file' \in Seq(Record \cup {Malformed})
        BY <1>2
    <2>2. loaded' \in [Procs -> Nat] /\ nextSeq' \in [Procs -> Nat]
        BY DEF PowerLoss
    <2>3. known' \in [Procs -> SUBSET Record]
        BY DEF PowerLoss
    <2>4. pc' \in [Procs -> Steps \cup {"closed", "idle"}]
        BY DEF PowerLoss
    <2>5. request' \in [Procs -> Event \cup {NoEvent}]
        BY DEF PowerLoss
    <2> QED BY <1>0, <1>1, <2>1, <2>2, <2>3, <2>4, <2>5 DEF PowerLoss, TypeOK, history
<1>4. LogWellFormed'
    BY <1>0, <1>2 DEF LogWellFormed
<1>5. IndexIsPrefix'
    BY <1>2 DEF PowerLoss, IndexIsPrefix, Lines
<1>6. StepEstablished'
    BY CaptureAssumption DEF PowerLoss, StepEstablished, Steps, Locked
<1>7. AcknowledgedIsDurable'
    <2>1. \A r \in acked : r.sequence + 1 \in 1 .. n
        BY <1>0, <1>2 DEF TypeOK, AcknowledgedIsDurable, Record
    <2> QED BY <1>0, <1>2, <2>1 DEF PowerLoss, AcknowledgedIsDurable, history
<1> QED BY <1>3, <1>4, <1>5, <1>6, <1>7 DEF IInv

LEMMA NextPreservesIInv == IInv /\ [Next]_vars => IInv'
<1> SUFFICES ASSUME IInv, [Next]_vars PROVE IInv'
    OBVIOUS
<1> USE DEF Steps, Locked
<1>0. TypeOK /\ LogWellFormed /\ IndexIsPrefix /\ StepEstablished /\ AcknowledgedIsDurable
    BY DEF IInv
<1>1. ASSUME NEW p \in Procs, Open(p) PROVE IInv'
    <2> USE <1>1 DEF Open, fileVars, history
    <2>1. file \in Seq(Record) /\ ~torn /\ Len(file) \in Nat
        BY FileOfRecords DEF Readable
    <2>2. Lines(0, 0) = {}
        BY DEF Lines
    <2>3. Parsed(0) = Lines(0, Len(file)) /\ SequenceAfter(0, Parsed(0)) = Len(file)
        BY <2>1, IndexAfterReading
    <2>4. Lines(0, Len(file)) \in SUBSET Record
        BY <2>1 DEF Lines
    <2>5. TypeOK'
        BY <1>0, <2>1, <2>3, <2>4 DEF TypeOK
    <2>6. IndexIsPrefix'
        BY <1>0, <2>1, <2>3 DEF TypeOK, IndexIsPrefix, Lines
    <2>7. StepEstablished'
        BY <1>0 DEF TypeOK, StepEstablished, SameId, SameHash, NewRecord
    <2> QED BY <2>5, <2>6, <2>7, FileUnchanged DEF IInv
<1>2. ASSUME NEW p \in Procs, NEW e \in Event, Call(p, e) PROVE IInv'
    <2> USE <1>2 DEF Call, fileVars, storeVars, history
    <2>1. TypeOK'
        BY <1>0 DEF TypeOK
    <2>2. StepEstablished'
        BY <1>0 DEF TypeOK, StepEstablished, SameId, SameHash, NewRecord
    <2> QED BY <2>1, <2>2, FileUnchanged, StoresUnchanged DEF IInv
<1>3. ASSUME NEW p \in Procs, Exit(p) PROVE IInv'
    <2> USE <1>3 DEF Exit, history
    <2>1. TypeOK'
        BY <1>0 DEF TypeOK
    <2>2. IndexIsPrefix'
        <3>1. Lines(0, 0) = {} /\ 0 <= Len(file)
            BY FileOfRecords DEF Lines
        <3>2. \A from, to : Lines(from, to)' = Lines(from, to)
            BY DEF Lines
        <3> QED BY <1>0, <3>1, <3>2 DEF TypeOK, IndexIsPrefix
    <2>3. StepEstablished'
        <3>1. CASE lock = p
            <4>1. \A q \in Procs : pc'[q] \notin Locked
                BY <1>0, <3>1 DEF TypeOK, StepEstablished
            <4> QED BY <1>0, <3>1, <4>1, CaptureAssumption DEF TypeOK, StepEstablished
        <3>2. CASE lock # p
            <4>1. UNCHANGED <<lock, torn>> /\ pc[p] \notin Locked
                BY <1>0, <3>2 DEF StepEstablished
            <4> QED BY <1>0, <3>2, <4>1 DEF TypeOK, StepEstablished, SameId, SameHash, NewRecord
        <3> QED BY <3>1, <3>2
    <2> QED BY <2>1, <2>2, <2>3, FileUnchanged DEF IInv
<1>4. CASE UNCHANGED vars
    BY <1>0, <1>4 DEF vars, IInv, TypeOK, LogWellFormed, IndexIsPrefix, StepEstablished,
                      AcknowledgedIsDurable, Lines, SameId, SameHash, NewRecord
<1> QED
    BY <1>1, <1>2, <1>3, <1>4, StepPreservesIInv, PowerLossPreservesIInv DEF Next

\* Every reachable state satisfies the inductive invariant.
THEOREM Invariance == Spec => []IInv
BY InitIInv, NextPreservesIInv, PTL DEF Spec

-----------------------------------------------------------------------------
(***************************************************************************)
(* The safety properties of Capture.                                       *)
(***************************************************************************)

\* The types of the capture store's state, for any instance.
THEOREM TypeCorrect == Spec => []TypeOK
BY Invariance, PTL DEF IInv

\* The canonical file is a gapless log without duplicates, for any number of
\* writing processes and any interleaving of failures.
THEOREM LogStaysWellFormed == Spec => []LogWellFormed
BY Invariance, PTL DEF IInv

\* No store's index ever disagrees with the file it indexes.
THEOREM IndexStaysPrefix == Spec => []IndexIsPrefix
BY Invariance, PTL DEF IInv

\* No acknowledged record is ever lost.
THEOREM AcknowledgedStaysDurable == Spec => []AcknowledgedIsDurable
BY Invariance, PTL DEF IInv

\* File, indexes and acknowledgements agree, for any instance.
THEOREM LogStaysSound == Spec => []LogIsSound
BY Invariance, PTL DEF IInv, LogIsSound

\* A receipt names a record of the file with the identity it is about.
THEOREM ReceiptsNameRecords == Spec => ReceiptNamesItsRecord
<1> DEFINE Named ==
        answer' \notin {answer, NoAnswer} =>
           /\ answer'.sequence < Len(file)
           /\ LET line == file[answer'.sequence + 1]
              IN  /\ line.sequence = answer'.sequence
                  /\ answer'.reason # "content_hash" => line.event_id = answer'.event_id
                  /\ answer'.reason # "event_id" => line.content_hash = answer'.content_hash
<1>1. ASSUME IInv, Next PROVE Named
    <2> SUFFICES ASSUME answer' \notin {answer, NoAnswer} PROVE Named
        OBVIOUS
    <2>0. TypeOK /\ LogWellFormed /\ IndexIsPrefix /\ StepEstablished
        BY <1>1 DEF IInv
    <2>1. PICK p \in Procs : DuplicateEvent(p) \/ DuplicateContent(p) \/ Fsync(p)
        BY <1>1 DEF Next, ProcessStep, Open, Call, Exit, PowerLoss, Acquire, LockTimeout, Refresh,
                    RejectByPolicy, Admit, Write, WriteFails, FsyncFails, history
    <2>2. file \in Seq(Record) /\ Len(file) \in Nat
        BY <1>1, FileOfRecords
    <2>3. \A r \in known[p] : /\ r.sequence \in Nat /\ r.sequence < Len(file)
                              /\ file[r.sequence + 1] = r
        <3>1. \A r \in known[p] : \E i \in 1 .. Len(file) : r = file[i]
            BY <2>0, <2>2 DEF TypeOK, IndexIsPrefix, Lines
        <3>2. \A i \in 1 .. Len(file) : file[i].sequence = i - 1
            BY <2>0, <2>2 DEF LogWellFormed
        <3> QED BY <2>2, <3>1, <3>2
    <2>4. CASE DuplicateEvent(p)
        <3>1. PICK r \in known[p] : /\ r.event_id = request[p].event_id
                                   /\ Answer(p, "duplicate", "event_id", r.sequence)
            BY <2>4 DEF DuplicateEvent, SameId
        <3> QED BY <2>3, <3>1 DEF Answer
    <2>5. CASE DuplicateContent(p)
        <3>1. PICK r \in known[p] : /\ r.content_hash = request[p].content_hash
                                   /\ Answer(p, "duplicate", "content_hash", r.sequence)
            BY <2>5 DEF DuplicateContent, SameHash
        <3> QED BY <2>3, <3>1 DEF Answer
    <2>6. CASE Fsync(p)
        <3>1. /\ nextSeq[p] + 1 = Len(file) /\ nextSeq[p] \in Nat
              /\ file[Len(file)] = NewRecord(p)
            BY <2>0, <2>6 DEF Fsync, TypeOK, StepEstablished, IndexIsPrefix
        <3>2. Answer(p, "appended", "none", nextSeq[p])
            BY <2>6 DEF Fsync
        <3> QED BY <2>2, <3>1, <3>2 DEF Answer, NewRecord
    <2> QED BY <2>1, <2>4, <2>5, <2>6
<1>2. IInv /\ [Next]_vars => [Named]_vars
    BY <1>1
<1>3. [][Named]_vars <=> ReceiptNamesItsRecord
    BY PTL DEF ReceiptNamesItsRecord
<1> HIDE DEF Named
<1> QED BY <1>2, <1>3, Invariance, PTL DEF Spec

-----------------------------------------------------------------------------
(***************************************************************************)
(* Refinement.  A write commits a record, a returning fsync acknowledges   *)
(* it, a power loss loses a suffix, and everything else stutters.          *)
(***************************************************************************)

LEMMA StepRefines == IInv /\ [Next]_vars => [Abstract!Next]_(Abstract!vars)
<1> SUFFICES ASSUME IInv, [Next]_vars
             PROVE  Abstract!Next \/ UNCHANGED <<file, acked>>
    BY DEF Abstract!vars
<1>0. /\ TypeOK /\ LogWellFormed /\ IndexIsPrefix /\ StepEstablished /\ AcknowledgedIsDurable
      /\ file \in Seq(Record)
    BY FileOfRecords DEF IInv
<1>1. ASSUME NEW p \in Procs, Write(p) PROVE Abstract!Next
    <2>1. /\ ~torn /\ nextSeq[p] = Len(file) /\ known[p] = Lines(0, Len(file))
          /\ request[p] \in Event /\ SameId(p) = {} /\ SameHash(p) = {}
        BY <1>0, <1>1 DEF Write, StepEstablished, IndexIsPrefix, Steps
    <2>2. Abstract!Fresh(request[p].event_id, request[p].content_hash)
        BY <1>0, <2>1 DEF Abstract!Fresh, SameId, SameHash, Lines
    <2>3. Abstract!Commit(request[p].event_id, request[p].content_hash)
        BY <1>1, <2>1, <2>2 DEF Write, AppendLine, NewRecord, Abstract!Commit, history
    <2> QED BY <2>1, <2>3 DEF Abstract!Next, Event
<1>2. ASSUME NEW p \in Procs, Fsync(p) PROVE Abstract!Next
    <2>1. Len(file) \in DOMAIN file /\ file[Len(file)] = NewRecord(p)
        BY <1>0, <1>2 DEF Fsync, StepEstablished, TypeOK
    <2>2. Abstract!Acknowledge(file[Len(file)])
        BY <1>2, <2>1 DEF Fsync, Abstract!Acknowledge
    <2> QED BY <2>1, <2>2 DEF Abstract!Next
<1>3. ASSUME PowerLoss PROVE Abstract!Next
    <2>1. PICK n \in synced .. Len(file) : file' = SubSeq(file, 1, n)
        BY <1>3 DEF PowerLoss
    <2>2. \A i \in DOMAIN file : file[i] \in acked => i <= n
        BY <1>0 DEF TypeOK, LogWellFormed, AcknowledgedIsDurable
    <2>3. Abstract!Lose(n) /\ n \in 0 .. Len(file)
        BY <1>0, <1>3, <2>1, <2>2 DEF PowerLoss, TypeOK, Abstract!Lose, history
    <2> QED BY <2>3 DEF Abstract!Next
<1>4. ASSUME NEW p \in Procs, ProcessStep(p), ~Write(p), ~Fsync(p) PROVE UNCHANGED <<file, acked>>
    BY <1>4 DEF ProcessStep, Acquire, LockTimeout, Refresh, RejectByPolicy, DuplicateEvent,
                DuplicateContent, Admit, WriteFails, FsyncFails, fileVars, history
<1>5. ASSUME NEW p \in Procs, Open(p) \/ Exit(p) \/ \E e \in Event : Call(p, e)
      PROVE  UNCHANGED <<file, acked>>
    BY <1>5 DEF Open, Exit, Call, fileVars, history
<1>6. CASE UNCHANGED vars
    BY <1>6 DEF vars
<1> QED BY <1>1, <1>2, <1>3, <1>4, <1>5, <1>6 DEF Next

\* The capture store implements the canonical log, for any instance.
THEOREM CaptureImplementsCanonicalLog == Spec => ImplementsCanonicalLog
<1>1. Init => Abstract!Init
    BY DEF Init, Abstract!Init
<1> QED BY <1>1, StepRefines, Invariance, PTL DEF Spec, ImplementsCanonicalLog, Abstract!Spec

-----------------------------------------------------------------------------
(***************************************************************************)
(* The Hermes boundary: what a program of steps has still to do is what    *)
(* keeps the adapters it has not closed yet from being forgotten.          *)
(***************************************************************************)
Closers == {"closeReader", "closeCapture", "closeInjector"}
DropSteps == Closers \cup {"forget", "disable", "hold"}
RestartProgram == {"closeReader", "closeCapture", "look", "reopenCapture", "restartReader", "wakeInjector"}
OpenedSteps == {"look", "hook", "newReader", "newInjector", "noInjector", "finish"}
ComposeProgram == Closers \cup {"openCapture"} \cup OpenedSteps
AllSteps == DropSteps \cup RestartProgram \cup ComposeProgram \cup {"gate"}

Composition ==
  [ctx : Contexts, enabled : BOOLEAN, open : BOOLEAN, runs : Modes, hooked : BOOLEAN, readOn : BOOLEAN, readGate : BOOLEAN,
   started : BOOLEAN, tooled : BOOLEAN, active : BOOLEAN, injHooked : BOOLEAN]
Adapters == [cap : Nat, read : Nat, inj : Nat, ctx : Contexts \cup {None}, mode : Modes]
BoundaryCall == [todo : Seq(AllSteps), mode : Modes, ctx : Contexts \cup {None}, may : BOOLEAN, quiet : BOOLEAN]

AdaptersTyped ==
  /\ gate \in [enabled : BOOLEAN, source : {"none", "boundary", "adapter", "explicit"}, mine : BOOLEAN]
  /\ DOMAIN canon = Boundaries /\ DOMAIN answers = Boundaries
  /\ gens \in [Boundaries -> Seq(Composition)] /\ cur \in [Boundaries -> Adapters]
  /\ reg \in [Boundaries -> BoundaryCall] /\ revoked \in [Boundaries -> BOOLEAN]
  /\ \A b \in Boundaries : {cur[b].cap, cur[b].read, cur[b].inj} \subseteq 0..Len(gens[b])

(* What the compositions G of a boundary still have open. *)
Writing(G) == \E g \in DOMAIN G : G[g].open
Serving(G) == \E g \in DOMAIN G : G[g].started
Injecting(G) == \E g \in DOMAIN G : G[g].active
Silent(G) == ~Writing(G) /\ ~Serving(G) /\ ~Injecting(G)

Tracked(G, c) ==
  \A g \in DOMAIN G : /\ G[g].open => g = c.cap
                      /\ G[g].started => g = c.read
                      /\ G[g].active => g = c.inj
Permitted(G, c) ==
  /\ Writing(G) => c.mode # "off"
  /\ Injecting(G) => c.mode = "inject"
  /\ c.inj # 0 => c.mode = "inject"

Planned(t, step) == \E i \in 1..Len(t) : t[i] = step
Precedes(t, first, then) == \A i \in 1..Len(t) : t[i] = then => \E j \in 1..Len(t) : j < i /\ t[j] = first

(* What is still open is closed before the program does what loses it. *)
ClosedBefore(G, t, then) ==
  /\ Writing(G) => Precedes(t, "closeCapture", then)
  /\ Serving(G) => Precedes(t, "closeReader", then)
  /\ Injecting(G) => Precedes(t, "closeInjector", then)
WillClose(G, t) ==
  /\ Writing(G) => Planned(t, "closeCapture")
  /\ Serving(G) => Planned(t, "closeReader")
  /\ Injecting(G) => Planned(t, "closeInjector")

(* The order of a composition's steps. *)
MayFollow(x, y) ==
  /\ x = "openCapture" => y \in OpenedSteps
  /\ y = "openCapture" => x \in Closers \cup {"look"}
  /\ x = "newReader" => y \in {"newInjector", "noInjector", "finish"}
  /\ x \in {"newInjector", "noInjector"} => y = "finish"
  /\ x # "finish"
InOrder(t) == \A i, j \in 1..Len(t) : i < j => MayFollow(t[i], t[j])

(* The phases of a boundary call with compositions G, adapters c, call r. *)
Dropping(G, c, r) ==
  /\ r.todo \in Seq(DropSteps) /\ (r.todo = <<>> \/ r.quiet)
  /\ Permitted(G, c) /\ (c.ctx = None => Silent(G))
  /\ ClosedBefore(G, r.todo, "forget") /\ (r.quiet => WillClose(G, r.todo))
Restarting(G, c, r) ==
  /\ r.todo \in Seq(RestartProgram) /\ r.todo # <<>> /\ ~r.quiet
  /\ Permitted(G, c) /\ c.ctx # None /\ c.mode # "off"
  /\ Planned(r.todo, "wakeInjector") => c.mode = "inject"
Gating(G, c, r) ==
  /\ r.todo = <<"gate">> /\ ~r.quiet /\ r.mode # "off" /\ r.ctx # None
  /\ Permitted(G, c) /\ (c.ctx = None => Silent(G))
Composes(r) ==
  /\ r.todo # <<>> /\ r.todo[Len(r.todo)] = "finish" /\ InOrder(r.todo)
  /\ ~r.quiet /\ r.mode # "off" /\ r.ctx # None
  /\ Planned(r.todo, "newInjector") => r.mode = "inject"
  /\ Planned(r.todo, "noInjector") => r.mode # "inject"
Clearing(G, c, r) ==
  /\ Composes(r) /\ r.todo \in Seq(ComposeProgram) /\ Planned(r.todo, "openCapture")
  /\ Planned(r.todo, "newInjector") \/ Planned(r.todo, "noInjector")
  /\ Permitted(G, c) /\ ClosedBefore(G, r.todo, "openCapture")
Opening(G, c, r) ==
  /\ Composes(r) /\ r.todo \in Seq(OpenedSteps) /\ c.cap # 0
  /\ Planned(r.todo, "newReader") => ~Serving(G)
  /\ IF Planned(r.todo, "newInjector") \/ Planned(r.todo, "noInjector") THEN ~Injecting(G)
     ELSE r.mode # "inject" => c.inj = 0

Sound(G, c, r, rev) ==
  /\ Tracked(G, c)
  /\ Dropping(G, c, r) \/ Restarting(G, c, r) \/ Gating(G, c, r) \/ Clearing(G, c, r) \/ Opening(G, c, r)
  /\ rev => Silent(G) /\ (r.todo = <<>> \/ r.quiet)

(* The host's calls under way are of compositions that exist; the injector *)
(* whose pipeline runs is active.                                          *)
CallsAreKnown ==
  /\ hooking # None => hooking.boundary \in Boundaries /\ hooking.gen \in DOMAIN gens[hooking.boundary]
  /\ asking # None => asking.boundary \in Boundaries /\ asking.gen \in DOMAIN gens[asking.boundary]
  /\ pipe # None => /\ {"boundary", "gen"} \subseteq DOMAIN pipe
                    /\ pipe.boundary \in Boundaries /\ pipe.gen \in DOMAIN gens[pipe.boundary]
                    /\ gens[pipe.boundary][pipe.gen].active

BoundaryInv ==
  /\ AdaptersTyped /\ CallsAreKnown
  /\ \A b \in Boundaries : Sound(gens[b], cur[b], reg[b], revoked[b])

-----------------------------------------------------------------------------
LEMMA RestOf ==
  ASSUME NEW S, NEW t \in Seq(S), t # <<>>
  PROVE  /\ Tail(t) \in Seq(S) /\ Len(Tail(t)) = Len(t) - 1 /\ Len(t) \in Nat \ {0} /\ Head(t) = t[1]
         /\ \A i \in 1..(Len(t) - 1) : Tail(t)[i] = t[i + 1]
         /\ Tail(t) = <<>> <=> Len(t) = 1
<1>1. /\ Tail(t) \in Seq(S) /\ Len(Tail(t)) = Len(t) - 1 /\ Len(t) \in Nat \ {0} /\ Head(t) = t[1]
      /\ \A i \in 1..(Len(t) - 1) : Tail(t)[i] = t[i + 1]
  OBVIOUS
<1>2. \A u \in Seq(S) : u = <<>> <=> Len(u) = 0
  OBVIOUS
<1>3. Tail(t) = <<>> <=> Len(Tail(t)) = 0
  BY <1>1, <1>2
<1> QED BY <1>1, <1>3

LEMMA TailPlans ==
  ASSUME NEW S, NEW t \in Seq(S), t # <<>>
  PROVE  /\ \A s : Planned(Tail(t), s) => Planned(t, s)
         /\ \A s : Planned(t, s) => s = Head(t) \/ Planned(Tail(t), s)
         /\ \A f, s : Precedes(t, f, s) => Head(t) # s /\ (Head(t) = f \/ Precedes(Tail(t), f, s))
         /\ InOrder(t) => InOrder(Tail(t))
         /\ \A s : t[Len(t)] = s => Tail(t) = <<>> \/ Tail(t)[Len(Tail(t))] = s
<1> DEFINE n == Len(t)
           u == Tail(t)
<1>1. n \in Nat \ {0} /\ u \in Seq(S) /\ Len(u) = n - 1 /\ Head(t) = t[1] /\ \A i \in 1..(n - 1) : u[i] = t[i + 1]
  BY RestOf
<1>2. \A i \in 1..(n - 1) : i + 1 \in 1..n
  BY <1>1
<1>3. \A i \in 1..n : i = 1 \/ (i - 1 \in 1..(n - 1) /\ u[i - 1] = t[i])
  <2> SUFFICES ASSUME NEW i \in 1..n, i # 1 PROVE i - 1 \in 1..(n - 1) /\ u[i - 1] = t[i]
    OBVIOUS
  <2>1. i - 1 \in 1..(n - 1) /\ (i - 1) + 1 = i
    BY <1>1
  <2> QED BY <1>1, <2>1
<1>4. 1 \in 1..n
  BY <1>1
<1> HIDE DEF n, u
<1>5. \A s : Planned(u, s) => Planned(t, s)
  BY <1>1, <1>2 DEF Planned, n
<1>6. \A s : Planned(t, s) => s = Head(t) \/ Planned(u, s)
  BY <1>1, <1>3 DEF Planned, n
<1>7. ASSUME NEW f, NEW s, Precedes(t, f, s) PROVE Head(t) # s /\ (Head(t) = f \/ Precedes(u, f, s))
  <2>1. Head(t) # s
    <3> SUFFICES ASSUME t[1] = s PROVE FALSE
      BY <1>1
    <3>1. PICK j \in 1..n : j < 1
      BY <1>4, <1>7 DEF Precedes, n
    <3> QED BY <1>1, <3>1
  <2>2. ASSUME Head(t) # f, NEW i \in 1..(n - 1), u[i] = s PROVE \E j \in 1..(n - 1) : j < i /\ u[j] = f
    <3>1. i + 1 \in 1..n /\ t[i + 1] = s
      BY <1>1, <1>2, <2>2
    <3>2. PICK j \in 1..n : j < i + 1 /\ t[j] = f
      BY <1>7, <3>1 DEF Precedes, n
    <3>3. j # 1
      BY <1>1, <2>2, <3>2
    <3>4. j - 1 \in 1..(n - 1) /\ u[j - 1] = f /\ j - 1 < i
      BY <1>1, <1>3, <3>2, <3>3
    <3> QED BY <3>4
  <2> QED BY <1>1, <2>1, <2>2 DEF Precedes
<1>8. InOrder(t) => InOrder(u)
  <2> SUFFICES ASSUME InOrder(t), NEW i \in 1..(n - 1), NEW j \in 1..(n - 1), i < j
               PROVE  MayFollow(u[i], u[j])
    BY <1>1 DEF InOrder
  <2>1. i + 1 \in 1..n /\ j + 1 \in 1..n /\ i + 1 < j + 1 /\ u[i] = t[i + 1] /\ u[j] = t[j + 1]
    BY <1>1, <1>2
  <2> QED BY <2>1 DEF InOrder, n
<1>9. ASSUME NEW s, t[n] = s, u # <<>> PROVE u[n - 1] = s
  <2>1. n # 1
    BY <1>1, <1>9
  <2>2. n - 1 \in 1..(n - 1) /\ (n - 1) + 1 = n
    BY <1>1, <2>1
  <2> QED BY <1>1, <1>9, <2>2
<1> QED BY <1>1, <1>5, <1>6, <1>7, <1>8, <1>9 DEF u, n

LEMMA NothingPlanned ==
  /\ \A s : ~Planned(<<>>, s)
  /\ \A f, s : Precedes(<<>>, f, s)
BY DEF Planned, Precedes

(* A program joined of two does what either does, in their order. *)
LEMMA JoinedPlans ==
  ASSUME NEW S, NEW t \in Seq(S), NEW u \in Seq(S)
  PROVE  /\ t \o u \in Seq(S)
         /\ \A s : Planned(t \o u, s) <=> Planned(t, s) \/ Planned(u, s)
         /\ \A f, s : Planned(t, f) /\ ~Planned(t, s) => Precedes(t \o u, f, s)
         /\ \A f, s : Planned(t, f) /\ Precedes(t, f, s) => Precedes(t \o u, f, s)
<1> DEFINE m == Len(t)
           n == Len(u)
           v == t \o u
<1>1. /\ m \in Nat /\ n \in Nat /\ v \in Seq(S) /\ Len(v) = m + n
      /\ \A i \in 1..m : v[i] = t[i]
      /\ \A i \in 1..n : v[m + i] = u[i]
  OBVIOUS
<1> HIDE DEF v
<1>2. \A i \in 1..(m + n) : (i \in 1..m /\ v[i] = t[i]) \/ (i - m \in 1..n /\ v[i] = u[i - m] /\ i > m)
  <2> SUFFICES ASSUME NEW i \in 1..(m + n), i \notin 1..m PROVE i - m \in 1..n /\ v[i] = u[i - m] /\ i > m
    BY <1>1
  <2>1. i - m \in 1..n /\ m + (i - m) = i /\ i > m
    BY <1>1
  <2> QED BY <1>1, <2>1
<1>3. \A i \in 1..m : i \in 1..(m + n)
  BY <1>1
<1>4. \A i \in 1..n : m + i \in 1..(m + n)
  BY <1>1
<1> HIDE DEF m, n
<1>5. \A s : Planned(v, s) <=> Planned(t, s) \/ Planned(u, s)
  BY <1>1, <1>2, <1>3, <1>4 DEF Planned, m, n
<1>6. ASSUME NEW f, NEW s, Planned(t, f), ~Planned(t, s) \/ Precedes(t, f, s) PROVE Precedes(v, f, s)
  <2> SUFFICES ASSUME NEW i \in 1..(m + n), v[i] = s PROVE \E j \in 1..(m + n) : j < i /\ v[j] = f
    BY <1>1 DEF Precedes
  <2>1. CASE i \in 1..m
    <3>1. t[i] = s /\ Planned(t, s)
      BY <1>1, <2>1 DEF Planned, m
    <3>2. PICK j \in 1..m : j < i /\ t[j] = f
      BY <1>6, <2>1, <3>1 DEF Precedes, m
    <3> QED BY <1>1, <1>3, <3>2
  <2>2. CASE i \notin 1..m
    <3>1. PICK j \in 1..m : t[j] = f
      BY <1>6 DEF Planned, m
    <3>2. j < i /\ v[j] = f
      BY <1>1, <1>2, <2>2, <3>1
    <3> QED BY <1>3, <3>2
  <2> QED BY <2>1, <2>2
<1> QED BY <1>1, <1>5, <1>6 DEF v

-----------------------------------------------------------------------------
(* Compositions of which no more is open than before. *)
Fewer(H, G) ==
  /\ DOMAIN H = DOMAIN G
  /\ \A g \in DOMAIN G : (H[g].open => G[g].open) /\ (H[g].started => G[g].started) /\ (H[g].active => G[g].active)

LEMMA FewerIsSound ==
  ASSUME NEW G, NEW H, Fewer(H, G)
  PROVE  /\ Writing(H) => Writing(G)
         /\ Serving(H) => Serving(G)
         /\ Injecting(H) => Injecting(G)
         /\ Silent(G) => Silent(H)
         /\ \A c : Tracked(G, c) => Tracked(H, c)
         /\ \A c : Permitted(G, c) => Permitted(H, c)
<1>1. (Writing(H) => Writing(G)) /\ (Serving(H) => Serving(G)) /\ (Injecting(H) => Injecting(G))
  BY DEF Fewer, Writing, Serving, Injecting
<1>2. \A c : Tracked(G, c) => Tracked(H, c)
  BY DEF Fewer, Tracked
<1>3. \A c : Permitted(G, c) => Permitted(H, c)
  BY <1>1 DEF Permitted
<1> QED BY <1>1, <1>2, <1>3 DEF Silent

(* A boundary call that ends leaves what its last phase allowed. *)
LEMMA EndsSound ==
  ASSUME NEW G, NEW c, NEW r, r.todo = <<>>, ~r.quiet, Permitted(G, c), c.ctx = None => Silent(G)
  PROVE  Dropping(G, c, r)
<1>1. r.todo \in Seq(DropSteps)
  OBVIOUS
<1> QED BY <1>1, NothingPlanned DEF Dropping, ClosedBefore

(* A step that opens nothing, closes what its name says and loses nothing. *)
LEMMA StepsOn ==
  ASSUME NEW G, NEW H, NEW c, NEW r, NEW q, NEW rev, NEW now,
         Sound(G, c, r, rev), r.todo # <<>>, Fewer(H, G),
         q.todo = Tail(r.todo), q.mode = r.mode, q.ctx = r.ctx, q.quiet = r.quiet,
         Head(r.todo) \in Closers \cup {"look", "hook", "disable", "hold"},
         Head(r.todo) = "closeCapture" => ~Writing(H),
         Head(r.todo) = "closeReader" => ~Serving(H),
         Head(r.todo) = "closeInjector" => ~Injecting(H),
         now => rev \/ (q.todo = <<>> /\ q.quiet)
  PROVE  Sound(H, c, q, now)
<1> DEFINE t == r.todo
<1>1. /\ Writing(H) => Writing(G)
      /\ Serving(H) => Serving(G)
      /\ Injecting(H) => Injecting(G)
      /\ Silent(G) => Silent(H)
      /\ Tracked(H, c)
      /\ Permitted(G, c) => Permitted(H, c)
  BY FewerIsSound DEF Sound
<1>2. ASSUME NEW then, ClosedBefore(G, t, then), NEW S, t \in Seq(S) PROVE ClosedBefore(H, q.todo, then)
  <2>1. \A f, s : Precedes(t, f, s) => Head(t) = f \/ Precedes(Tail(t), f, s)
    BY <1>2, TailPlans
  <2> QED BY <1>1, <1>2, <2>1 DEF ClosedBefore
<1>3. ASSUME WillClose(G, t), NEW S, t \in Seq(S) PROVE WillClose(H, q.todo)
  <2>1. \A s : Planned(t, s) => s = Head(t) \/ Planned(Tail(t), s)
    BY <1>3, TailPlans
  <2> QED BY <1>1, <1>3, <2>1 DEF WillClose
<1>4. CASE Dropping(G, c, r)
  <2>1. t \in Seq(DropSteps) /\ q.todo \in Seq(DropSteps) /\ r.quiet
    BY <1>4, RestOf DEF Dropping
  <2>2. ClosedBefore(H, q.todo, "forget") /\ WillClose(H, q.todo)
    BY <1>2, <1>3, <1>4, <2>1 DEF Dropping
  <2>3. Dropping(H, c, q)
    BY <1>1, <1>4, <2>1, <2>2 DEF Dropping
  <2>4. now => Silent(H)
    <3>1. CASE rev
      BY <1>1, <3>1 DEF Sound
    <3>2. CASE q.todo = <<>>
      BY <2>2, <3>2, NothingPlanned DEF WillClose, Silent
    <3> QED BY <3>1, <3>2
  <2> QED BY <1>1, <2>1, <2>3, <2>4 DEF Sound
<1>5. ASSUME ~r.quiet PROVE ~now
  BY <1>5 DEF Sound
<1>6. CASE Restarting(G, c, r)
  <2>1. t \in Seq(RestartProgram) /\ q.todo \in Seq(RestartProgram) /\ ~r.quiet
    BY <1>6, RestOf DEF Restarting
  <2>2. Planned(q.todo, "wakeInjector") => c.mode = "inject"
    BY <1>6, <2>1, TailPlans DEF Restarting
  <2>3. q.todo = <<>> => Dropping(H, c, q)
    BY <1>1, <1>6, <2>1, EndsSound DEF Restarting
  <2>4. q.todo # <<>> => Restarting(H, c, q)
    BY <1>1, <1>6, <2>1, <2>2 DEF Restarting
  <2> QED BY <1>1, <1>5, <2>1, <2>3, <2>4 DEF Sound
<1>7. CASE Gating(G, c, r)
  <2>1. Head(r.todo) = "gate"
    BY <1>7 DEF Gating
  <2> QED BY <2>1 DEF Closers
<1>8. ASSUME Composes(r), NEW S, t \in Seq(S), q.todo # <<>> PROVE Composes(q)
  <2>1. /\ InOrder(q.todo) /\ q.todo[Len(q.todo)] = "finish"
        /\ \A s : Planned(q.todo, s) => Planned(t, s)
    BY <1>8, TailPlans DEF Composes
  <2> QED BY <1>8, <2>1 DEF Composes
<1>9. CASE Clearing(G, c, r)
  <2>1. t \in Seq(ComposeProgram) /\ q.todo \in Seq(ComposeProgram) /\ ~r.quiet
    BY <1>9, RestOf DEF Clearing, Composes
  <2>2. /\ Planned(q.todo, "openCapture")
        /\ Planned(q.todo, "newInjector") \/ Planned(q.todo, "noInjector")
    BY <1>9, <2>1, TailPlans DEF Clearing, Closers
  <2>3. q.todo # <<>>
    BY <2>2, NothingPlanned
  <2>4. Composes(q) /\ ClosedBefore(H, q.todo, "openCapture")
    BY <1>2, <1>8, <1>9, <2>1, <2>3 DEF Clearing
  <2>5. Clearing(H, c, q)
    BY <1>1, <1>9, <2>1, <2>2, <2>4 DEF Clearing
  <2> QED BY <1>1, <1>5, <2>1, <2>5 DEF Sound
<1>10. CASE Opening(G, c, r)
  <2>1. t \in Seq(OpenedSteps) /\ q.todo \in Seq(OpenedSteps) /\ ~r.quiet
    BY <1>10, RestOf DEF Opening, Composes
  <2>2. q.todo # <<>>
    <3> SUFFICES ASSUME q.todo = <<>> PROVE FALSE
      OBVIOUS
    <3>1. Len(t) = 1 /\ Head(t) = t[1]
      BY <2>1, RestOf
    <3>2. Head(t) = "finish"
      BY <1>10, <3>1 DEF Opening, Composes
    <3> QED BY <3>2 DEF Closers
  <2>3. Composes(q)
    BY <1>8, <1>10, <2>1, <2>2 DEF Opening
  <2>4. /\ Planned(q.todo, "newReader") <=> Planned(t, "newReader")
        /\ Planned(q.todo, "newInjector") <=> Planned(t, "newInjector")
        /\ Planned(q.todo, "noInjector") <=> Planned(t, "noInjector")
    BY <2>1, TailPlans DEF Closers
  <2>5. Opening(H, c, q)
    BY <1>1, <1>10, <2>1, <2>3, <2>4 DEF Opening
  <2> QED BY <1>1, <1>5, <2>1, <2>5 DEF Sound
<1> QED BY <1>4, <1>6, <1>7, <1>9, <1>10 DEF Sound
-----------------------------------------------------------------------------
(* The programs a boundary call may be given. *)
LEMMA JoinedInOrder ==
  ASSUME NEW S, NEW T, NEW t \in Seq(S), NEW u \in Seq(T), InOrder(t), InOrder(u), \A x \in S, y \in T : MayFollow(x, y)
  PROVE  InOrder(t \o u)
<1> DEFINE m == Len(t)
           n == Len(u)
           v == t \o u
<1>1. t \in Seq(S \cup T) /\ u \in Seq(S \cup T)
  OBVIOUS
<1>2. /\ m \in Nat /\ n \in Nat /\ Len(v) = m + n
      /\ \A i \in 1..m : v[i] = t[i] /\ t[i] \in S
      /\ \A i \in 1..n : v[m + i] = u[i] /\ u[i] \in T
  BY <1>1
<1> HIDE DEF v
<1>3. \A i \in 1..(m + n) : (i \in 1..m /\ v[i] = t[i]) \/ (i - m \in 1..n /\ v[i] = u[i - m] /\ i > m)
  <2> SUFFICES ASSUME NEW i \in 1..(m + n), i \notin 1..m PROVE i - m \in 1..n /\ v[i] = u[i - m] /\ i > m
    BY <1>2
  <2>1. i - m \in 1..n /\ m + (i - m) = i /\ i > m
    BY <1>2
  <2> QED BY <1>2, <2>1
<1> SUFFICES ASSUME NEW i \in 1..(m + n), NEW j \in 1..(m + n), i < j PROVE MayFollow(v[i], v[j])
  BY <1>2 DEF InOrder, v
<1>4. CASE i \in 1..m /\ j \in 1..m
  BY <1>2, <1>4 DEF InOrder
<1>5. CASE i \in 1..m /\ j \notin 1..m
  <2>1. j - m \in 1..n /\ v[j] = u[j - m]
    BY <1>3, <1>5
  <2> QED BY <1>2, <1>5, <2>1
<1>6. CASE i \notin 1..m
  <2>1. /\ i - m \in 1..n /\ v[i] = u[i - m]
        /\ j - m \in 1..n /\ v[j] = u[j - m] /\ i - m < j - m
    BY <1>2, <1>3, <1>6
  <2> QED BY <2>1 DEF InOrder
<1> QED BY <1>4, <1>5, <1>6

LEMMA JoinedEnds ==
  ASSUME NEW S, NEW t \in Seq(S), NEW u \in Seq(S), u # <<>>
  PROVE  t \o u # <<>> /\ (t \o u)[Len(t \o u)] = u[Len(u)]
<1>1. /\ Len(t) \in Nat /\ Len(u) \in Nat \ {0} /\ Len(t \o u) = Len(t) + Len(u)
      /\ \A i \in 1..Len(u) : (t \o u)[Len(t) + i] = u[i]
  OBVIOUS
<1>2. Len(u) \in 1..Len(u)
  BY <1>1
<1>3. Len(<<>>) = 0
  OBVIOUS
<1> QED BY <1>1, <1>2, <1>3

LEMMA ClosingClosesAll ==
  /\ Closing \in Seq(Closers) /\ InOrder(Closing)
  /\ \A s : Planned(Closing, s) <=> s \in Closers
<1>1. Closing \in Seq(Closers) /\ Len(Closing) = 3 /\ Closing[1] = "closeReader" /\ Closing[2] = "closeCapture" /\ Closing[3] = "closeInjector"
  BY DEF Closing, Closers
<1>2. \A s : Planned(Closing, s) <=> s \in Closers
  <2>1. 1 \in 1..3 /\ 2 \in 1..3 /\ 3 \in 1..3 /\ \A i \in 1..3 : i = 1 \/ i = 2 \/ i = 3
    OBVIOUS
  <2> QED BY <1>1, <2>1 DEF Planned, Closers
<1>3. InOrder(Closing)
  BY <1>1 DEF InOrder, MayFollow, OpenedSteps
<1> QED BY <1>1, <1>2, <1>3

(* Authority is dropped by a program that closes everything first. *)
DropProgram(t) ==
  /\ t \in Seq(DropSteps)
  /\ \A s \in Closers : Planned(t, s) /\ Precedes(t, s, "forget")

LEMMA OneStep ==
  ASSUME NEW s
  PROVE  <<s>> \in Seq({s}) /\ Len(<<s>>) = 1 /\ <<s>>[1] = s /\ InOrder(<<s>>) /\ \A x : Planned(<<s>>, x) <=> x = s
<1>1. <<s>> \in Seq({s}) /\ Len(<<s>>) = 1 /\ <<s>>[1] = s
  OBVIOUS
<1> QED BY <1>1 DEF InOrder, Planned

LEMMA ProgramsDrop ==
  /\ DropProgram(Closing)
  /\ DropProgram(DropAuthority) /\ DropProgram(DropAuthority \o <<"disable">>) /\ DropProgram(DropAuthority \o <<"hold">>)
<1>1. Closing \in Seq(DropSteps)
  BY ClosingClosesAll DEF DropSteps
<1>2. \A s \in Closers : Planned(Closing, s) /\ Precedes(Closing, s, "forget")
  BY ClosingClosesAll DEF Precedes, Planned, Closers
<1>3. ASSUME NEW t, DropProgram(t), NEW s \in DropSteps \ Closers PROVE DropProgram(t \o <<s>>)
  <2>1. t \in Seq(DropSteps) /\ <<s>> \in Seq(DropSteps)
    BY <1>3 DEF DropProgram
  <2> QED BY <1>3, <2>1, JoinedPlans DEF DropProgram
<1>4. "forget" \in DropSteps \ Closers /\ "disable" \in DropSteps \ Closers /\ "hold" \in DropSteps \ Closers
  BY DEF DropSteps, Closers
<1>5. DropProgram(DropAuthority)
  BY <1>1, <1>2, <1>3, <1>4 DEF DropAuthority, DropProgram
<1> QED BY <1>1, <1>2, <1>3, <1>4, <1>5 DEF DropProgram

LEMMA RestartsAgain ==
  ASSUME NEW b \in Boundaries
  PROVE  /\ RestartSteps(b) \in Seq(RestartProgram) /\ RestartSteps(b) # <<>>
         /\ Planned(RestartSteps(b), "wakeInjector") => cur[b].inj # 0
<1> DEFINE first == <<"closeCapture", "look", "reopenCapture">>
           reader == IF cur[b].read # 0 THEN <<"closeReader", "restartReader">> ELSE <<>>
           injector == IF cur[b].inj # 0 THEN <<"wakeInjector">> ELSE <<>>
<1>1. first \in Seq(RestartProgram) /\ reader \in Seq(RestartProgram) /\ injector \in Seq(RestartProgram)
  <2>1. /\ first \in Seq(RestartProgram) /\ <<"closeReader", "restartReader">> \in Seq(RestartProgram)
        /\ <<"wakeInjector">> \in Seq(RestartProgram) /\ <<>> \in Seq(RestartProgram)
    BY DEF RestartProgram
  <2> QED BY <2>1
<1>2. ~Planned(first, "wakeInjector") /\ ~Planned(reader, "wakeInjector") /\ (Planned(injector, "wakeInjector") => cur[b].inj # 0)
  BY DEF Planned
<1> DEFINE steps == (first \o reader) \o injector
<1>3. RestartSteps(b) = steps
  BY DEF RestartSteps
<1>4. Planned(first, "look")
  <2>1. first[2] = "look" /\ Len(first) = 3 /\ 2 \in 1..3
    OBVIOUS
  <2> QED BY <2>1 DEF Planned
<1> HIDE DEF first, reader, injector
<1>5. /\ first \o reader \in Seq(RestartProgram) /\ ~Planned(first \o reader, "wakeInjector")
      /\ Planned(first \o reader, "look")
  BY <1>1, <1>2, <1>4, JoinedPlans
<1>6. /\ steps \in Seq(RestartProgram) /\ (Planned(steps, "wakeInjector") => cur[b].inj # 0)
      /\ Planned(steps, "look")
  BY <1>1, <1>2, <1>5, JoinedPlans
<1> HIDE DEF steps
<1> QED BY <1>3, <1>6, NothingPlanned

LEMMA ComposesInOrder ==
  ASSUME NEW mode \in Modes, mode # "off", NEW t, t = Composing(mode) \/ t = Closing \o Composing(mode)
  PROVE  /\ t \in Seq(ComposeProgram) /\ t # <<>> /\ t[Len(t)] = "finish" /\ InOrder(t)
         /\ Planned(t, "newInjector") <=> mode = "inject"
         /\ Planned(t, "noInjector") <=> mode # "inject"
         /\ Planned(t, "openCapture")
         /\ t = Closing \o Composing(mode) => \A s \in Closers : Precedes(t, s, "openCapture")
<1> DEFINE first == <<"look", "openCapture", "hook">>
           reader == IF ModeReadEnabled(mode) THEN <<"look", "newReader">> ELSE <<>>
           injector == IF ModeInjectionEnabled(mode) THEN <<"newInjector">> ELSE <<"noInjector">>
           all == ((first \o reader) \o injector) \o <<"finish">>
           F == {"look", "openCapture", "hook"}
           R == {"look", "newReader"}
           I == {"newInjector", "noInjector"}
           FR == F \cup R
           FRI == FR \cup I
           E == {"finish"}
<1>1. Composing(mode) = all
  BY DEF Composing
<1>2. /\ first \in Seq(F) /\ InOrder(first) /\ Planned(first, "openCapture")
      /\ \A s : Planned(first, s) => s \in F
  <2>1. first \in Seq(F) /\ Len(first) = 3 /\ first[1] = "look" /\ first[2] = "openCapture" /\ first[3] = "hook" /\ 2 \in 1..3
    OBVIOUS
  <2> QED BY <2>1 DEF InOrder, MayFollow, OpenedSteps, Planned
<1>3. reader \in Seq(R) /\ InOrder(reader) /\ \A s : Planned(reader, s) => s \in R
  <2>1. CASE ModeReadEnabled(mode)
    <3>1. reader \in Seq(R) /\ Len(reader) = 2 /\ reader[1] = "look" /\ reader[2] = "newReader"
      BY <2>1
    <3> QED BY <3>1 DEF InOrder, MayFollow, Planned
  <2>2. CASE ~ModeReadEnabled(mode)
    BY <2>2, NothingPlanned DEF InOrder
  <2> QED BY <2>1, <2>2
<1>4. /\ injector \in Seq(I) /\ InOrder(injector) /\ \A s : Planned(injector, s) => s \in I
      /\ Planned(injector, "newInjector") <=> mode = "inject"
      /\ Planned(injector, "noInjector") <=> mode # "inject"
  <2>1. CASE mode = "inject"
    BY <2>1, OneStep DEF ModeInjectionEnabled
  <2>2. CASE mode # "inject"
    BY <2>2, OneStep DEF ModeInjectionEnabled
  <2> QED BY <2>1, <2>2
<1>5. /\ <<"finish">> \in Seq(E) /\ InOrder(<<"finish">>) /\ <<"finish">> # <<>>
      /\ <<"finish">>[Len(<<"finish">>)] = "finish" /\ \A s : Planned(<<"finish">>, s) => s = "finish"
  BY OneStep
<1> HIDE DEF first, reader, injector
<1>6. first \o reader \in Seq(FR) /\ InOrder(first \o reader)
  <2>1. \A x \in F, y \in R : MayFollow(x, y)
    BY DEF MayFollow, OpenedSteps, Closers
  <2>2. InOrder(first \o reader)
    BY <1>2, <1>3, <2>1, JoinedInOrder
  <2> QED BY <1>2, <1>3, <2>2
<1> DEFINE two == first \o reader
<1> HIDE DEF two
<1>7. (first \o reader) \o injector \in Seq(FRI) /\ InOrder((first \o reader) \o injector)
  <2>1. \A x \in FR, y \in I : MayFollow(x, y)
    BY DEF MayFollow, OpenedSteps, Closers
  <2>2. two \in Seq(FR) /\ InOrder(two) /\ two \o injector = (first \o reader) \o injector
    BY <1>6 DEF two
  <2> HIDE DEF FR, I
  <2>3. InOrder(two \o injector)
    BY <1>4, <2>1, <2>2, JoinedInOrder
  <2>4. two \o injector \in Seq(FR \cup I)
    <3>1. two \in Seq(FR \cup I) /\ injector \in Seq(FR \cup I)
      BY <1>4, <2>2
    <3> QED BY <3>1
  <2> QED BY <2>2, <2>3, <2>4
<1> DEFINE three == (first \o reader) \o injector
<1> HIDE DEF three
<1>8. all \in Seq(OpenedSteps \cup {"openCapture"}) /\ InOrder(all)
  <2>1. \A x \in FRI, y \in E : MayFollow(x, y)
    BY DEF MayFollow, OpenedSteps, Closers
  <2>2. three \in Seq(FRI) /\ InOrder(three) /\ three \o <<"finish">> = all
    BY <1>7 DEF three
  <2>3. FRI \cup E = OpenedSteps \cup {"openCapture"}
    BY DEF OpenedSteps
  <2> HIDE DEF FRI, E, all
  <2>4. InOrder(three \o <<"finish">>)
    BY <1>5, <2>1, <2>2, JoinedInOrder
  <2>5. three \o <<"finish">> \in Seq(FRI \cup E)
    BY <1>5, <2>2
  <2> QED BY <2>2, <2>3, <2>4, <2>5
<1>9. /\ first \in Seq(ComposeProgram) /\ reader \in Seq(ComposeProgram) /\ injector \in Seq(ComposeProgram)
      /\ <<"finish">> \in Seq(ComposeProgram) /\ Closing \in Seq(ComposeProgram)
  BY <1>2, <1>3, <1>4, ClosingClosesAll DEF ComposeProgram, OpenedSteps
<1>10. /\ first \o reader \in Seq(ComposeProgram)
       /\ \A s : Planned(first \o reader, s) <=> Planned(first, s) \/ Planned(reader, s)
  BY <1>9, JoinedPlans
<1>11. /\ (first \o reader) \o injector \in Seq(ComposeProgram)
       /\ \A s : Planned((first \o reader) \o injector, s) <=> Planned(first \o reader, s) \/ Planned(injector, s)
  BY <1>9, <1>10, JoinedPlans
<1>12. /\ all \in Seq(ComposeProgram) /\ all # <<>> /\ all[Len(all)] = "finish"
       /\ \A s : Planned(all, s) <=> Planned((first \o reader) \o injector, s) \/ Planned(<<"finish">>, s)
  <2>1. three \in Seq(ComposeProgram) /\ three \o <<"finish">> = all
    BY <1>11 DEF three
  <2> HIDE DEF all
  <2>2. all \in Seq(ComposeProgram) /\ \A s : Planned(all, s) <=> Planned(three, s) \/ Planned(<<"finish">>, s)
    BY <1>9, <2>1, JoinedPlans
  <2>3. all # <<>> /\ all[Len(all)] = "finish"
    BY <1>5, <1>9, <2>1, JoinedEnds
  <2> QED BY <2>2, <2>3 DEF three
<1>13. /\ Planned(all, "newInjector") <=> mode = "inject"
       /\ Planned(all, "noInjector") <=> mode # "inject"
       /\ Planned(all, "openCapture")
  BY <1>2, <1>3, <1>4, <1>5, <1>10, <1>11, <1>12
<1> HIDE DEF all
<1>14. CASE t = Closing \o all
  <2>1. /\ t \in Seq(ComposeProgram) /\ t # <<>> /\ t[Len(t)] = "finish"
        /\ \A s : Planned(t, s) <=> Planned(Closing, s) \/ Planned(all, s)
        /\ \A f, s : Planned(Closing, f) /\ ~Planned(Closing, s) => Precedes(t, f, s)
    BY <1>9, <1>12, <1>14, JoinedPlans, JoinedEnds
  <2>2. \A x \in Closers, y \in OpenedSteps \cup {"openCapture"} : MayFollow(x, y)
    BY DEF MayFollow, OpenedSteps, Closers
  <2>3. InOrder(t)
    BY <1>8, <1>14, <2>2, ClosingClosesAll, JoinedInOrder
  <2>4. /\ ~Planned(Closing, "newInjector") /\ ~Planned(Closing, "noInjector") /\ ~Planned(Closing, "openCapture")
        /\ \A s \in Closers : Planned(Closing, s)
    BY ClosingClosesAll DEF Closers
  <2> QED BY <1>13, <2>1, <2>3, <2>4
<1>15. CASE t = all
  <2>1. t # Closing \o all
    <3>1. Len(Closing \o all) = Len(Closing) + Len(all) /\ Len(Closing) = 3 /\ Len(all) \in Nat
      BY <1>9, <1>12 DEF Closing
    <3> QED BY <1>15, <3>1
  <2> QED BY <1>1, <1>8, <1>12, <1>13, <1>15, <2>1
<1> QED BY <1>1, <1>14, <1>15

-----------------------------------------------------------------------------
(* The steps. *)
Others(b) ==
  \A d \in Boundaries \ {b} : gens'[d] = gens[d] /\ cur'[d] = cur[d] /\ reg'[d] = reg[d] /\ revoked'[d] = revoked[d]

LEMMA OthersStay ==
  ASSUME BoundaryInv, NEW b \in Boundaries, Others(b), AdaptersTyped', CallsAreKnown',
         Sound(gens'[b], cur'[b], reg'[b], revoked'[b])
  PROVE  BoundaryInv'
<1>1. \A d \in Boundaries : Sound(gens'[d], cur'[d], reg'[d], revoked'[d])
  BY DEF BoundaryInv, Others
<1> QED BY <1>1 DEF BoundaryInv

LEMMA ChangedGen ==
  ASSUME AdaptersTyped, NEW b \in Boundaries, NEW g \in 0..Len(gens[b]), NEW new, g # 0 => new \in Composition,
         Change(b, g, new)
  PROVE  /\ gens' \in [Boundaries -> Seq(Composition)]
         /\ Len(gens'[b]) = Len(gens[b]) /\ DOMAIN gens'[b] = DOMAIN gens[b]
         /\ \A i \in DOMAIN gens[b] : gens'[b][i] = IF i = g THEN new ELSE gens[b][i]
         /\ \A d \in Boundaries \ {b} : gens'[d] = gens[d]
<1>1. CASE g = 0
  BY <1>1 DEF AdaptersTyped, Change
<1>2. CASE g # 0
  <2>1. gens[b] \in Seq(Composition) /\ g \in DOMAIN gens[b] /\ Len(gens[b]) \in Nat /\ DOMAIN gens[b] = 1..Len(gens[b])
    BY <1>2 DEF AdaptersTyped
  <2> DEFINE changed == [gens[b] EXCEPT ![g] = new]
  <2>2. changed \in Seq(Composition) /\ Len(changed) = Len(gens[b]) /\ DOMAIN changed = DOMAIN gens[b]
    BY <1>2, <2>1
  <2>3. gens' = [gens EXCEPT ![b] = changed]
    BY <1>2 DEF Change
  <2>4. \A i \in DOMAIN gens[b] : changed[i] = IF i = g THEN new ELSE gens[b][i]
    BY <2>1
  <2> HIDE DEF changed
  <2>5. gens'[b] = changed
    BY <2>3 DEF AdaptersTyped
  <2> QED BY <2>2, <2>3, <2>4, <2>5 DEF AdaptersTyped
<1> QED BY <1>1, <1>2

(* A boundary call goes on, or ends at once. *)
LEMMA Advanced ==
  ASSUME AdaptersTyped, NEW b \in Boundaries, ~Idle(b), NEW todo \in Seq(AllSteps), Goto(b, todo)
  PROVE  /\ reg' \in [Boundaries -> BoundaryCall] /\ revoked' \in [Boundaries -> BOOLEAN]
         /\ reg'[b].todo = todo /\ reg'[b].mode = reg[b].mode /\ reg'[b].ctx = reg[b].ctx /\ reg'[b].quiet = reg[b].quiet
         /\ revoked'[b] <=> revoked[b] \/ (todo = <<>> /\ reg[b].quiet)
         /\ \A d \in Boundaries \ {b} : reg'[d] = reg[d] /\ revoked'[d] = revoked[d]
BY DEF AdaptersTyped, Goto, BoundaryCall

LEMMA TailTyped ==
  ASSUME AdaptersTyped, NEW b \in Boundaries, ~Idle(b)
  PROVE  reg[b].todo \in Seq(AllSteps) /\ reg[b].todo # <<>> /\ Tail(reg[b].todo) \in Seq(AllSteps)
BY RestOf DEF AdaptersTyped, BoundaryCall, Idle

(* The phase of a boundary call tells by its next step. *)
LEMMA Heads ==
  ASSUME NEW G, NEW c, NEW r, r.todo # <<>>
  PROVE  /\ Dropping(G, c, r) => Head(r.todo) \in DropSteps
         /\ Restarting(G, c, r) => Head(r.todo) \in RestartProgram
         /\ Gating(G, c, r) => Head(r.todo) = "gate"
         /\ Clearing(G, c, r) => Head(r.todo) \in Closers \cup {"look", "openCapture"}
         /\ Opening(G, c, r) => Head(r.todo) \in OpenedSteps
<1>1. \A S : r.todo \in Seq(S) => Head(r.todo) \in S
  BY RestOf
<1>2. ASSUME Clearing(G, c, r), Head(r.todo) # "openCapture" PROVE Head(r.todo) \in Closers \cup {"look"}
  <2>1. r.todo \in Seq(ComposeProgram)
    BY <1>2 DEF Clearing
  <2>2. Head(r.todo) = r.todo[1] /\ Len(r.todo) \in Nat \ {0}
    BY <2>1, RestOf
  <2>3. PICK i \in 1..Len(r.todo) : r.todo[i] = "openCapture"
    BY <1>2 DEF Clearing, Planned
  <2>4. 1 \in 1..Len(r.todo) /\ 1 < i
    BY <1>2, <2>2, <2>3
  <2>5. MayFollow(r.todo[1], r.todo[i])
    BY <1>2, <2>4 DEF Clearing, Composes, InOrder
  <2> QED BY <2>2, <2>3, <2>5 DEF MayFollow
<1>3. Gating(G, c, r) => Head(r.todo) = "gate"
  BY DEF Gating
<1> QED BY <1>1, <1>2, <1>3 DEF Dropping, Restarting, Opening

LEMMA PhaseOf ==
  ASSUME BoundaryInv, NEW b \in Boundaries, NEW step, At(b, step)
  PROVE  /\ ~Idle(b) /\ reg[b].todo # <<>> /\ Head(reg[b].todo) = step /\ Sound(gens[b], cur[b], reg[b], revoked[b])
         /\ step \in {"forget", "disable", "hold"} => Dropping(gens[b], cur[b], reg[b])
         /\ step \in {"reopenCapture", "restartReader", "wakeInjector"} => Restarting(gens[b], cur[b], reg[b])
         /\ step = "gate" => Gating(gens[b], cur[b], reg[b])
         /\ step = "openCapture" => Clearing(gens[b], cur[b], reg[b])
         /\ step \in {"hook", "newReader", "newInjector", "noInjector", "finish"} => Opening(gens[b], cur[b], reg[b])
<1>1. ~Idle(b) /\ reg[b].todo # <<>> /\ Head(reg[b].todo) = step /\ Sound(gens[b], cur[b], reg[b], revoked[b])
  BY DEF At, Idle, BoundaryInv
<1>2. /\ Dropping(gens[b], cur[b], reg[b]) => step \in DropSteps
      /\ Restarting(gens[b], cur[b], reg[b]) => step \in RestartProgram
      /\ Gating(gens[b], cur[b], reg[b]) => step = "gate"
      /\ Clearing(gens[b], cur[b], reg[b]) => step \in Closers \cup {"look", "openCapture"}
      /\ Opening(gens[b], cur[b], reg[b]) => step \in OpenedSteps
  BY <1>1, Heads
<1> QED BY <1>1, <1>2 DEF Sound, DropSteps, RestartProgram, OpenedSteps, Closers

LEMMA IdlePhase ==
  ASSUME BoundaryInv, NEW b \in Boundaries, Idle(b)
  PROVE  Dropping(gens[b], cur[b], reg[b]) /\ Tracked(gens[b], cur[b]) /\ (revoked[b] => Silent(gens[b]))
<1>1. Sound(gens[b], cur[b], reg[b], revoked[b]) /\ reg[b].todo = <<>>
  BY DEF BoundaryInv, Idle
<1> QED BY <1>1 DEF Sound, Restarting, Gating, Clearing, Opening, Composes

Calls == <<canon, answers, hooking, asking, pipe>>

LEMMA CallsStay ==
  ASSUME CallsAreKnown, UNCHANGED <<hooking, asking, pipe>>,
         \A d \in Boundaries : DOMAIN gens[d] \subseteq DOMAIN gens'[d],
         pipe # None => gens'[pipe.boundary][pipe.gen].active
  PROVE  CallsAreKnown'
BY DEF CallsAreKnown

(* A step that changes one composition at most. *)
LEMMA ChangeStep ==
  ASSUME BoundaryInv, NEW b \in Boundaries, ~Idle(b), NEW g \in 0..Len(gens[b]), NEW new, g # 0 => new \in Composition,
         Change(b, g, new), g # 0 /\ Running(b, g) => new.active,
         NEW todo \in Seq(AllSteps), Goto(b, todo), UNCHANGED Calls,
         cur' \in [Boundaries -> Adapters], {cur'[b].cap, cur'[b].read, cur'[b].inj} \subseteq 0..Len(gens[b]),
         \A d \in Boundaries \ {b} : cur'[d] = cur[d],
         gate' \in [enabled : BOOLEAN, source : {"none", "boundary", "adapter", "explicit"}, mine : BOOLEAN],
         Sound(gens'[b], cur'[b], reg'[b], revoked'[b])
  PROVE  BoundaryInv'
<1>1. AdaptersTyped /\ CallsAreKnown
  BY DEF BoundaryInv
<1>2. /\ gens' \in [Boundaries -> Seq(Composition)]
      /\ Len(gens'[b]) = Len(gens[b]) /\ DOMAIN gens'[b] = DOMAIN gens[b]
      /\ \A i \in DOMAIN gens[b] : gens'[b][i] = IF i = g THEN new ELSE gens[b][i]
      /\ \A d \in Boundaries \ {b} : gens'[d] = gens[d]
  BY <1>1, ChangedGen
<1>3. /\ reg' \in [Boundaries -> BoundaryCall] /\ revoked' \in [Boundaries -> BOOLEAN]
      /\ \A d \in Boundaries \ {b} : reg'[d] = reg[d] /\ revoked'[d] = revoked[d]
  BY <1>1, Advanced
<1>4. AdaptersTyped'
  <2>1. \A d \in Boundaries : Len(gens'[d]) = Len(gens[d])
    BY <1>2
  <2>2. \A d \in Boundaries : {cur[d].cap, cur[d].read, cur[d].inj} \subseteq 0..Len(gens'[d])
    BY <1>1, <2>1 DEF AdaptersTyped
  <2>3. \A d \in Boundaries : {cur'[d].cap, cur'[d].read, cur'[d].inj} \subseteq 0..Len(gens'[d])
    BY <2>1, <2>2
  <2> QED BY <1>1, <1>2, <1>3, <2>3 DEF AdaptersTyped, Calls
<1>5. CallsAreKnown'
  <2>1. \A d \in Boundaries : DOMAIN gens[d] \subseteq DOMAIN gens'[d]
    BY <1>2
  <2>2. ASSUME pipe # None PROVE gens'[pipe.boundary][pipe.gen].active
    <3>1. pipe.boundary \in Boundaries /\ pipe.gen \in DOMAIN gens[pipe.boundary] /\ gens[pipe.boundary][pipe.gen].active
      BY <1>1, <2>2 DEF CallsAreKnown
    <3>2. CASE pipe.boundary = b /\ pipe.gen = g
      <4>1. g # 0
        BY <1>1, <3>1, <3>2 DEF AdaptersTyped
      <4> QED BY <1>2, <2>2, <3>1, <3>2, <4>1 DEF Running
    <3>3. CASE ~(pipe.boundary = b /\ pipe.gen = g)
      BY <1>2, <3>1, <3>3
    <3> QED BY <3>2, <3>3
  <2> QED BY <1>1, <2>1, <2>2, CallsStay DEF Calls
<1>6. Others(b)
  BY <1>2, <1>3 DEF Others
<1> QED BY <1>4, <1>5, <1>6, OthersStay

LEMMA Generation ==
  ASSUME AdaptersTyped, NEW b \in Boundaries
  PROVE  /\ DOMAIN gens[b] = 1..Len(gens[b]) /\ Len(gens[b]) \in Nat
         /\ \A g \in 0..Len(gens[b]) : g # 0 => g \in DOMAIN gens[b] /\ gens[b][g] \in Composition
         /\ cur[b].cap \in 0..Len(gens[b]) /\ cur[b].read \in 0..Len(gens[b]) /\ cur[b].inj \in 0..Len(gens[b])
         /\ 0 \notin DOMAIN gens[b]
BY DEF AdaptersTyped

LEMMA ClosingStep ==
  ASSUME BoundaryInv, NEW b \in Boundaries, NEW step \in Closers, At(b, step),
         NEW g \in 0..Len(gens[b]), NEW new, g # 0 => new \in Composition, Change(b, g, new),
         g # 0 => /\ new.open => gens[b][g].open
                  /\ new.started => gens[b][g].started
                  /\ new.active => gens[b][g].active,
         step = "closeCapture" => g = cur[b].cap /\ (g # 0 => ~new.open),
         step = "closeReader" => g = cur[b].read /\ (g # 0 => ~new.started),
         step = "closeInjector" => g = cur[b].inj /\ (g # 0 => ~new.active),
         g # 0 /\ Running(b, g) => new.active,
         Next1(b), UNCHANGED <<gate, cur>>, UNCHANGED Calls
  PROVE  BoundaryInv'
<1>1. AdaptersTyped
  BY DEF BoundaryInv
<1>2. /\ ~Idle(b) /\ reg[b].todo # <<>> /\ Head(reg[b].todo) = step /\ Sound(gens[b], cur[b], reg[b], revoked[b])
  BY PhaseOf
<1>3. Tail(reg[b].todo) \in Seq(AllSteps)
  BY <1>1, <1>2, TailTyped
<1>4. /\ DOMAIN gens'[b] = DOMAIN gens[b]
      /\ \A i \in DOMAIN gens[b] : gens'[b][i] = IF i = g THEN new ELSE gens[b][i]
  BY <1>1, ChangedGen
<1>5. /\ reg'[b].todo = Tail(reg[b].todo) /\ reg'[b].mode = reg[b].mode /\ reg'[b].ctx = reg[b].ctx /\ reg'[b].quiet = reg[b].quiet
      /\ revoked'[b] <=> revoked[b] \/ (Tail(reg[b].todo) = <<>> /\ reg[b].quiet)
  BY <1>1, <1>2, <1>3, Advanced DEF Next1
<1>6. 0 \notin DOMAIN gens[b]
  BY <1>1, Generation
<1>7. Fewer(gens'[b], gens[b])
  BY <1>4, <1>6 DEF Fewer
<1>8. Tracked(gens[b], cur[b])
  BY <1>2 DEF Sound
<1>9. /\ step = "closeCapture" => ~Writing(gens'[b])
      /\ step = "closeReader" => ~Serving(gens'[b])
      /\ step = "closeInjector" => ~Injecting(gens'[b])
  BY <1>4, <1>6, <1>8 DEF Tracked, Writing, Serving, Injecting
<1>10. Sound(gens'[b], cur[b], reg'[b], revoked'[b])
  BY <1>2, <1>5, <1>7, <1>9, StepsOn
<1> QED BY <1>1, <1>2, <1>3, <1>10, ChangeStep DEF Next1, AdaptersTyped

LEMMA CloseSteps ==
  ASSUME BoundaryInv, NEW b \in Boundaries, CloseReader(b) \/ CloseCapture(b) \/ CloseInjector(b)
  PROVE  BoundaryInv'
<1>1. AdaptersTyped
  BY DEF BoundaryInv
<1>2. /\ \A g \in 0..Len(gens[b]) : g # 0 => g \in DOMAIN gens[b] /\ gens[b][g] \in Composition
      /\ cur[b].cap \in 0..Len(gens[b]) /\ cur[b].read \in 0..Len(gens[b]) /\ cur[b].inj \in 0..Len(gens[b])
  BY <1>1, Generation
<1>3. CASE CloseReader(b)
  <2> DEFINE g == cur[b].read
             new == [gens[b][g] EXCEPT !.readOn = FALSE, !.started = FALSE]
  <2>1. g # 0 => /\ new \in Composition /\ ~new.started /\ new.open = gens[b][g].open /\ new.active = gens[b][g].active
    BY <1>2 DEF Composition
  <2>2. /\ At(b, "closeReader") /\ Change(b, g, new) /\ Next1(b) /\ UNCHANGED <<gate, cur>> /\ UNCHANGED Calls
    BY <1>3 DEF CloseReader, Rest, Calls, stores, host
  <2>3. Running(b, g) /\ g # 0 => new.active
    BY <2>1 DEF Running, BoundaryInv, CallsAreKnown
  <2>4. g \in 0..Len(gens[b]) /\ "closeReader" \in Closers
    BY <1>2 DEF Closers
  <2> HIDE DEF new
  <2> QED BY <2>1, <2>2, <2>3, <2>4, ClosingStep
<1>4. CASE CloseCapture(b)
  <2> DEFINE g == cur[b].cap
             new == [gens[b][g] EXCEPT !.enabled = FALSE, !.open = FALSE]
  <2>1. g # 0 => /\ new \in Composition /\ ~new.open /\ new.started = gens[b][g].started /\ new.active = gens[b][g].active
    BY <1>2 DEF Composition
  <2>2. /\ At(b, "closeCapture") /\ Change(b, g, new) /\ Next1(b) /\ UNCHANGED <<gate, cur>> /\ UNCHANGED Calls
    BY <1>4 DEF CloseCapture, Rest, Calls, stores, host
  <2>3. Running(b, g) /\ g # 0 => new.active
    BY <2>1 DEF Running, BoundaryInv, CallsAreKnown
  <2>4. g \in 0..Len(gens[b]) /\ "closeCapture" \in Closers
    BY <1>2 DEF Closers
  <2> HIDE DEF new
  <2> QED BY <2>1, <2>2, <2>3, <2>4, ClosingStep
<1>5. CASE CloseInjector(b)
  <2> DEFINE g == cur[b].inj
             new == [gens[b][g] EXCEPT !.active = FALSE]
  <2>1. g # 0 => /\ new \in Composition /\ ~new.active /\ new.started = gens[b][g].started /\ new.open = gens[b][g].open
    BY <1>2 DEF Composition
  <2>2. /\ At(b, "closeInjector") /\ Change(b, g, new) /\ Next1(b) /\ UNCHANGED <<gate, cur>> /\ UNCHANGED Calls /\ ~Running(b, g)
    BY <1>5 DEF CloseInjector, Rest, Calls, stores, host
  <2>4. g \in 0..Len(gens[b]) /\ "closeInjector" \in Closers
    BY <1>2 DEF Closers
  <2> HIDE DEF new
  <2> QED BY <2>1, <2>2, <2>4, ClosingStep
<1> QED BY <1>3, <1>4, <1>5

(* A step that changes no composition. *)
LEMMA PlainStep ==
  ASSUME BoundaryInv, NEW b \in Boundaries, gens' = gens, UNCHANGED Calls,
         cur' \in [Boundaries -> Adapters], {cur'[b].cap, cur'[b].read, cur'[b].inj} \subseteq 0..Len(gens[b]),
         reg' \in [Boundaries -> BoundaryCall], revoked' \in [Boundaries -> BOOLEAN],
         \A d \in Boundaries \ {b} : cur'[d] = cur[d] /\ reg'[d] = reg[d] /\ revoked'[d] = revoked[d],
         gate' \in [enabled : BOOLEAN, source : {"none", "boundary", "adapter", "explicit"}, mine : BOOLEAN],
         Sound(gens[b], cur'[b], reg'[b], revoked'[b])
  PROVE  BoundaryInv'
<1>1. AdaptersTyped'
  <2>1. \A d \in Boundaries : {cur'[d].cap, cur'[d].read, cur'[d].inj} \subseteq 0..Len(gens'[d])
    <3> SUFFICES ASSUME NEW d \in Boundaries PROVE {cur'[d].cap, cur'[d].read, cur'[d].inj} \subseteq 0..Len(gens'[d])
      OBVIOUS
    <3>1. CASE d = b
      BY <3>1
    <3>2. CASE d # b
      <4>1. {cur[d].cap, cur[d].read, cur[d].inj} \subseteq 0..Len(gens[d])
        BY DEF BoundaryInv, AdaptersTyped
      <4> QED BY <3>2, <4>1
    <3> QED BY <3>1, <3>2
  <2> QED BY <2>1 DEF BoundaryInv, AdaptersTyped, Calls
<1>2. CallsAreKnown'
  BY DEF BoundaryInv, CallsAreKnown, Calls
<1>3. Others(b)
  BY DEF Others
<1> QED BY <1>1, <1>2, <1>3, OthersStay

LEMMA PassingSteps ==
  ASSUME BoundaryInv, NEW b \in Boundaries, Look(b) \/ Disable(b) PROVE BoundaryInv'
<1>1. AdaptersTyped
  BY DEF BoundaryInv
<1>2. PICK step \in {"look", "disable", "hold"} : At(b, step)
  BY DEF Look, Disable
<1>3. /\ ~Idle(b) /\ reg[b].todo # <<>> /\ Head(reg[b].todo) = step /\ Sound(gens[b], cur[b], reg[b], revoked[b])
      /\ step \in {"disable", "hold"} => Dropping(gens[b], cur[b], reg[b])
  BY <1>2, PhaseOf
<1>4. Tail(reg[b].todo) \in Seq(AllSteps)
  BY <1>1, <1>3, TailTyped
<1>5. /\ reg' \in [Boundaries -> BoundaryCall] /\ revoked' \in [Boundaries -> BOOLEAN]
      /\ reg'[b].todo = Tail(reg[b].todo) /\ reg'[b].mode = reg[b].mode /\ reg'[b].ctx = reg[b].ctx /\ reg'[b].quiet = reg[b].quiet
      /\ revoked'[b] => revoked[b] \/ (Tail(reg[b].todo) = <<>> /\ reg[b].quiet)
      /\ \A d \in Boundaries \ {b} : reg'[d] = reg[d] /\ revoked'[d] = revoked[d]
  <2>1. CASE Disable(b)
    BY <1>1, <1>3, <1>4, <2>1, Advanced DEF Disable, Next1
  <2>2. CASE Look(b)
    <3> DEFINE may == gate.enabled \/ gate.source \in {"none", "adapter"}
    <3>1. may \in BOOLEAN
      OBVIOUS
    <3>2. reg' = [reg EXCEPT ![b].todo = Tail(@), ![b].may = may] /\ revoked' = revoked
      BY <2>2 DEF Look
    <3> HIDE DEF may
    <3> DEFINE call == [todo |-> Tail(reg[b].todo), mode |-> reg[b].mode, ctx |-> reg[b].ctx, may |-> may, quiet |-> reg[b].quiet]
    <3>3. reg[b] \in BoundaryCall /\ reg \in [Boundaries -> BoundaryCall]
      BY <1>1 DEF AdaptersTyped
    <3>4. call \in BoundaryCall
      BY <1>4, <3>1, <3>3 DEF BoundaryCall
    <3>5. DOMAIN reg' = Boundaries /\ reg'[b] = [[reg[b] EXCEPT !.todo = Tail(reg[b].todo)] EXCEPT !.may = may]
          /\ (\A d \in Boundaries \ {b} : reg'[d] = reg[d]) /\ reg' = [d \in DOMAIN reg' |-> reg'[d]]
      BY <3>2, <3>3
    <3>7. reg'[b] = call
      BY <3>3, <3>5 DEF BoundaryCall
    <3> HIDE DEF call
    <3>6. reg' \in [Boundaries -> BoundaryCall] /\ reg'[b] = call /\ \A d \in Boundaries \ {b} : reg'[d] = reg[d]
      <4>1. \A d \in Boundaries : reg'[d] \in BoundaryCall
        BY <3>3, <3>4, <3>5, <3>7
      <4> QED BY <3>5, <3>7, <4>1
    <3> QED BY <1>1, <3>2, <3>6 DEF AdaptersTyped, call
  <2> QED BY <2>1, <2>2
<1>6. Fewer(gens[b], gens[b])
  BY DEF Fewer
<1>7. Sound(gens[b], cur[b], reg'[b], revoked'[b])
  <2>1. Head(reg[b].todo) \in {"look", "disable", "hold"} /\ Head(reg[b].todo) \notin Closers
    BY <1>3 DEF Closers
  <2>2. revoked'[b] => revoked[b] \/ (reg'[b].todo = <<>> /\ reg'[b].quiet)
    BY <1>5
  <2> QED BY <1>3, <1>5, <1>6, <2>1, <2>2, StepsOn DEF Closers
<1>8. gens' = gens /\ cur' = cur /\ UNCHANGED Calls
  BY DEF Look, Disable, Rest, Calls, stores, host
<1>9. gate' \in [enabled : BOOLEAN, source : {"none", "boundary", "adapter", "explicit"}, mine : BOOLEAN]
  <2>1. CASE gate' = gate
    BY <1>1, <2>1 DEF AdaptersTyped
  <2>2. CASE \E source \in {"boundary", "explicit"} : gate' = [enabled |-> FALSE, source |-> source, mine |-> TRUE]
    BY <2>2
  <2> QED BY <2>1, <2>2 DEF Look, Disable
<1> QED BY <1>1, <1>5, <1>7, <1>8, <1>9, PlainStep DEF AdaptersTyped

LEMMA HookStep ==
  ASSUME BoundaryInv, NEW b \in Boundaries, Hook(b) PROVE BoundaryInv'
<1>1. AdaptersTyped
  BY DEF BoundaryInv
<1>2. At(b, "hook")
  BY DEF Hook
<1>3. /\ ~Idle(b) /\ reg[b].todo # <<>> /\ Head(reg[b].todo) = "hook" /\ Sound(gens[b], cur[b], reg[b], revoked[b])
      /\ Opening(gens[b], cur[b], reg[b])
  BY <1>2, PhaseOf
<1>4. Tail(reg[b].todo) \in Seq(AllSteps)
  BY <1>1, <1>3, TailTyped
<1> DEFINE g == cur[b].cap
           new == [gens[b][g] EXCEPT !.hooked = TRUE]
<1>5. g \in DOMAIN gens[b] /\ g # 0 /\ g \in 0..Len(gens[b]) /\ gens[b][g] \in Composition /\ gens[b] \in Seq(Composition)
  BY <1>1, <1>3, Generation DEF Opening, AdaptersTyped
<1>6. /\ new \in Composition /\ new.open = gens[b][g].open /\ new.started = gens[b][g].started /\ new.active = gens[b][g].active
  BY <1>5 DEF Composition
<1>7. Change(b, g, new)
  BY <1>5 DEF Hook, Change
<1>8. /\ DOMAIN gens'[b] = DOMAIN gens[b]
      /\ \A i \in DOMAIN gens[b] : gens'[b][i] = IF i = g THEN new ELSE gens[b][i]
  <2> HIDE DEF new
  <2> QED BY <1>1, <1>5, <1>6, <1>7, ChangedGen
<1>9. /\ reg'[b].todo = Tail(reg[b].todo) /\ reg'[b].mode = reg[b].mode /\ reg'[b].ctx = reg[b].ctx /\ reg'[b].quiet = reg[b].quiet
      /\ revoked'[b] <=> revoked[b] \/ (Tail(reg[b].todo) = <<>> /\ reg[b].quiet)
  BY <1>1, <1>3, <1>4, Advanced DEF Hook, Next1
<1>10. Fewer(gens'[b], gens[b])
  BY <1>6, <1>8 DEF Fewer
<1>11. Sound(gens'[b], cur[b], reg'[b], revoked'[b])
  BY <1>3, <1>9, <1>10, StepsOn DEF Closers
<1>12. cur' = cur /\ gate' = gate /\ UNCHANGED Calls /\ Goto(b, Tail(reg[b].todo))
  BY DEF Hook, Next1, Rest, Calls, stores, host
<1>13. Running(b, g) => new.active
  BY <1>6 DEF Running, BoundaryInv, CallsAreKnown
<1> HIDE DEF new
<1> QED BY <1>1, <1>3, <1>4, <1>5, <1>6, <1>7, <1>11, <1>12, <1>13, ChangeStep DEF AdaptersTyped

(* A program that closes everything first may be begun at any composition. *)
LEMMA DropStarts ==
  ASSUME NEW G, NEW c, NEW r, DropProgram(r.todo), r.quiet, Permitted(G, c), c.ctx = None => Silent(G)
  PROVE  Dropping(G, c, r)
BY DEF DropProgram, Dropping, ClosedBefore, WillClose, Closers

LEMMA CallStarts ==
  ASSUME BoundaryInv, NEW b \in Boundaries, (\E ctx \in Contexts : Register(b, ctx)) \/ Shutdown(b)
  PROVE  BoundaryInv'
<1>1. AdaptersTyped /\ Idle(b)
  BY DEF BoundaryInv, Register, Shutdown
<1>2. Dropping(gens[b], cur[b], reg[b]) /\ Tracked(gens[b], cur[b]) /\ (revoked[b] => Silent(gens[b]))
  BY <1>1, IdlePhase
<1>3. DropProgram(Closing) /\ DropProgram(DropAuthority \o <<"disable">>)
  BY ProgramsDrop
<1>4. DropSteps \subseteq AllSteps /\ "gate" \in AllSteps
  BY DEF AllSteps
<1>5. Closing \in Seq(AllSteps) /\ DropAuthority \o <<"disable">> \in Seq(AllSteps) /\ <<"gate">> \in Seq(AllSteps)
  BY <1>3, <1>4 DEF DropProgram
<1>6. RuntimeMode \in Modes
  BY DEF RuntimeMode, Modes
<1>7. ASSUME NEW ctx \in Contexts, Register(b, ctx)
      PROVE  /\ reg' \in [Boundaries -> BoundaryCall] /\ revoked' \in [Boundaries -> BOOLEAN]
             /\ \A d \in Boundaries \ {b} : reg'[d] = reg[d] /\ revoked'[d] = revoked[d]
             /\ Sound(gens[b], cur[b], reg'[b], revoked'[b])
  <2> DEFINE call == [todo |-> IF RuntimeMode = "off" THEN DropAuthority \o <<"disable">> ELSE <<"gate">>,
                      mode |-> RuntimeMode, ctx |-> ctx, may |-> FALSE, quiet |-> RuntimeMode = "off"]
  <2>1. call \in BoundaryCall
    BY <1>5, <1>6 DEF BoundaryCall
  <2>2. CASE RuntimeMode = "off"
    <3>1. Dropping(gens[b], cur[b], call)
      BY <1>2, <1>3, <2>2, DropStarts DEF Dropping
    <3> QED BY <1>1, <1>2, <1>7, <2>1, <2>2, <3>1 DEF Register, Sound, AdaptersTyped
  <2>3. CASE RuntimeMode # "off"
    <3>1. Gating(gens[b], cur[b], call)
      BY <1>2, <2>3, ContextAssumption DEF Dropping, Gating
    <3> QED BY <1>1, <1>2, <1>7, <2>1, <2>3, <3>1 DEF Register, Sound, AdaptersTyped
  <2> QED BY <2>2, <2>3
<1>8. ASSUME Shutdown(b)
      PROVE  /\ reg' \in [Boundaries -> BoundaryCall] /\ revoked' \in [Boundaries -> BOOLEAN]
             /\ \A d \in Boundaries \ {b} : reg'[d] = reg[d] /\ revoked'[d] = revoked[d]
             /\ Sound(gens[b], cur[b], reg'[b], revoked'[b])
  <2> DEFINE call == [NoCall EXCEPT !.todo = Closing, !.quiet = TRUE]
  <2>1. call \in BoundaryCall /\ call.todo = Closing /\ call.quiet
    BY <1>5 DEF BoundaryCall, NoCall, Modes
  <2>2. Dropping(gens[b], cur[b], call)
    BY <1>2, <1>3, <2>1, DropStarts DEF Dropping
  <2> QED BY <1>1, <1>2, <1>8, <2>1, <2>2 DEF Shutdown, Sound, AdaptersTyped
<1>9. gens' = gens /\ cur' = cur /\ gate' = gate /\ UNCHANGED Calls
  BY DEF Register, Shutdown, Calls, stores, host
<1> QED BY <1>1, <1>7, <1>8, <1>9, PlainStep DEF AdaptersTyped

LEMMA ForgetStep ==
  ASSUME BoundaryInv, NEW b \in Boundaries, Forget(b) PROVE BoundaryInv'
<1>1. AdaptersTyped /\ At(b, "forget") /\ cur' = [cur EXCEPT ![b] = NoAdapters]
  BY DEF BoundaryInv, Forget
<1>2. /\ ~Idle(b) /\ reg[b].todo # <<>> /\ Head(reg[b].todo) = "forget"
      /\ Sound(gens[b], cur[b], reg[b], revoked[b]) /\ Dropping(gens[b], cur[b], reg[b])
  BY <1>1, PhaseOf
<1>3. Tail(reg[b].todo) \in Seq(AllSteps) /\ Tail(reg[b].todo) \in Seq(DropSteps)
  BY <1>1, <1>2, TailTyped, RestOf DEF Dropping
<1>4. /\ reg' \in [Boundaries -> BoundaryCall] /\ revoked' \in [Boundaries -> BOOLEAN]
      /\ reg'[b].todo = Tail(reg[b].todo) /\ reg'[b].quiet = reg[b].quiet
      /\ revoked'[b] <=> revoked[b] \/ (Tail(reg[b].todo) = <<>> /\ reg[b].quiet)
      /\ \A d \in Boundaries \ {b} : reg'[d] = reg[d] /\ revoked'[d] = revoked[d]
  BY <1>1, <1>2, <1>3, Advanced DEF Forget, Next1
<1>5. Silent(gens[b])
  <2>1. reg[b].todo \in Seq(DropSteps)
    BY <1>2 DEF Dropping
  <2>2. \A f : ~Precedes(reg[b].todo, f, "forget")
    BY <1>2, <2>1, TailPlans
  <2> QED BY <1>2, <2>2 DEF Dropping, ClosedBefore, Silent
<1>6. cur'[b] = NoAdapters
  BY <1>1 DEF AdaptersTyped
<1>7. Sound(gens[b], cur'[b], reg'[b], revoked'[b])
  <2>1. Tracked(gens[b], NoAdapters)
    BY <1>5 DEF Tracked, Silent, Writing, Serving, Injecting
  <2>2. Dropping(gens[b], NoAdapters, reg'[b])
    BY <1>2, <1>3, <1>4, <1>5 DEF Dropping, Permitted, NoAdapters, Silent, ClosedBefore, WillClose
  <2> QED BY <1>2, <1>4, <1>5, <1>6, <2>1, <2>2 DEF Sound, Dropping
<1>8. gens' = gens /\ gate' = gate /\ UNCHANGED Calls
  BY DEF Forget, Rest, Calls, stores, host
<1>9. cur' \in [Boundaries -> Adapters] /\ \A d \in Boundaries \ {b} : cur'[d] = cur[d]
  BY <1>1 DEF AdaptersTyped, Adapters, NoAdapters, Modes
<1>10. {cur'[b].cap, cur'[b].read, cur'[b].inj} \subseteq 0..Len(gens[b])
  BY <1>1, <1>6, Generation DEF NoAdapters
<1> QED BY <1>1, <1>4, <1>7, <1>8, <1>9, <1>10, PlainStep DEF AdaptersTyped

(* A boundary call that is given another program. *)
LEMMA Redirected ==
  ASSUME AdaptersTyped, NEW b \in Boundaries, NEW todo \in Seq(AllSteps), NEW quiet \in BOOLEAN,
         reg' = [reg EXCEPT ![b].todo = todo, ![b].quiet = quiet]
  PROVE  /\ reg' \in [Boundaries -> BoundaryCall]
         /\ reg'[b].todo = todo /\ reg'[b].quiet = quiet /\ reg'[b].mode = reg[b].mode /\ reg'[b].ctx = reg[b].ctx
         /\ \A d \in Boundaries \ {b} : reg'[d] = reg[d]
<1> DEFINE call == [todo |-> todo, mode |-> reg[b].mode, ctx |-> reg[b].ctx, may |-> reg[b].may, quiet |-> quiet]
<1>1. reg[b] \in BoundaryCall /\ reg \in [Boundaries -> BoundaryCall]
  BY DEF AdaptersTyped
<1>2. call \in BoundaryCall
  BY <1>1 DEF BoundaryCall
<1>3. DOMAIN reg' = Boundaries /\ reg'[b] = [[reg[b] EXCEPT !.todo = todo] EXCEPT !.quiet = quiet]
      /\ (\A d \in Boundaries \ {b} : reg'[d] = reg[d]) /\ reg' = [d \in DOMAIN reg' |-> reg'[d]]
  BY <1>1
<1>4. reg'[b] = call
  BY <1>1, <1>3 DEF BoundaryCall
<1> HIDE DEF call
<1>5. \A d \in Boundaries : reg'[d] \in BoundaryCall
  BY <1>1, <1>2, <1>3, <1>4
<1> QED BY <1>3, <1>4, <1>5 DEF call

LEMMA GateStep ==
  ASSUME BoundaryInv, NEW b \in Boundaries, Gate(b) PROVE BoundaryInv'
<1> DEFINE G == gens[b]
           c == cur[b]
           r == reg[b]
           open == gate.enabled \/ gate.source = "none" \/ (gate.source = "boundary" /\ gate.mine)
           again == c.ctx = r.ctx /\ c.mode = r.mode
           todo == IF ~open THEN DropAuthority \o <<"hold">> ELSE IF again THEN RestartSteps(b) ELSE ComposeSteps(b, r.mode)
<1>1. AdaptersTyped /\ At(b, "gate")
  BY DEF BoundaryInv, Gate
<1>2. Sound(G, c, r, revoked[b]) /\ Gating(G, c, r)
  BY <1>1, PhaseOf
<1>3. r \in BoundaryCall
  BY <1>1 DEF AdaptersTyped
<1>4. DropSteps \subseteq AllSteps /\ RestartProgram \subseteq AllSteps /\ ComposeProgram \subseteq AllSteps
  BY DEF AllSteps
<1>5. ~revoked[b]
  BY <1>2 DEF Sound, Gating
<1> DEFINE Is(t, q) == t \in Seq(AllSteps) /\ (\A k : k.todo = t /\ k.quiet = q /\ k.mode = r.mode /\ k.ctx = r.ctx => Sound(G, c, k, FALSE))
<1>6. Is(DropAuthority \o <<"hold">>, TRUE)
  <2>1. DropProgram(DropAuthority \o <<"hold">>)
    BY ProgramsDrop
  <2>2. DropAuthority \o <<"hold">> \in Seq(AllSteps)
    BY <1>4, <2>1 DEF DropProgram
  <2>3. ASSUME NEW k, k.todo = DropAuthority \o <<"hold">>, k.quiet = TRUE PROVE Sound(G, c, k, FALSE)
    <3>1. Dropping(G, c, k)
      BY <1>2, <2>1, <2>3, DropStarts DEF Gating
    <3> QED BY <1>2, <3>1 DEF Sound
  <2> QED BY <2>2, <2>3
<1>7. again => Is(RestartSteps(b), FALSE)
  <2> SUFFICES ASSUME again PROVE Is(RestartSteps(b), FALSE)
    OBVIOUS
  <2>1. RestartSteps(b) \in Seq(RestartProgram) /\ RestartSteps(b) # <<>> /\ (Planned(RestartSteps(b), "wakeInjector") => c.inj # 0)
    BY RestartsAgain
  <2>2. RestartSteps(b) \in Seq(AllSteps)
    BY <1>4, <2>1
  <2>3. ASSUME NEW k, k.todo = RestartSteps(b), k.quiet = FALSE PROVE Sound(G, c, k, FALSE)
    <3>1. Restarting(G, c, k)
      BY <1>2, <2>1, <2>3 DEF Gating, Restarting, Permitted
    <3> QED BY <1>2, <3>1 DEF Sound
  <2> QED BY <2>2, <2>3
<1>8. Is(ComposeSteps(b, r.mode), FALSE)
  <2> DEFINE t == ComposeSteps(b, r.mode)
  <2>1. r.mode \in Modes /\ r.mode # "off"
    BY <1>2, <1>3 DEF Gating, BoundaryCall
  <2>2. (c.ctx # None => t = Closing \o Composing(r.mode)) /\ (c.ctx = None => t = Composing(r.mode))
    <3>1. <<>> \o Composing(r.mode) = Composing(r.mode)
      <4>1. Composing(r.mode) \in Seq(ComposeProgram)
        BY <2>1, ComposesInOrder
      <4> QED BY <4>1
    <3> QED BY <3>1 DEF ComposeSteps
  <2> HIDE DEF t
  <2>3. /\ t \in Seq(ComposeProgram) /\ t # <<>> /\ t[Len(t)] = "finish" /\ InOrder(t)
        /\ Planned(t, "newInjector") <=> r.mode = "inject"
        /\ Planned(t, "noInjector") <=> r.mode # "inject"
        /\ Planned(t, "openCapture")
        /\ t = Closing \o Composing(r.mode) => \A s \in Closers : Precedes(t, s, "openCapture")
    BY <2>1, <2>2, ComposesInOrder
  <2>4. ClosedBefore(G, t, "openCapture")
    BY <1>2, <2>2, <2>3 DEF Gating, ClosedBefore, Silent, Closers
  <2>5. t \in Seq(AllSteps)
    BY <1>4, <2>3
  <2>6. ASSUME NEW k, k.todo = t, k.quiet = FALSE, k.mode = r.mode, k.ctx = r.ctx PROVE Sound(G, c, k, FALSE)
    <3>1. Clearing(G, c, k)
      BY <1>2, <2>1, <2>3, <2>4, <2>6 DEF Gating, Clearing, Composes
    <3> QED BY <1>2, <3>1 DEF Sound
  <2> QED BY <2>5, <2>6 DEF t
<1> DEFINE quiet == ~open
<1>9. Is(todo, quiet)
  <2> HIDE DEF Is, open, again
  <2>1. CASE open
    BY <1>7, <1>8, <2>1
  <2>2. CASE ~open
    BY <1>6, <2>2
  <2> QED BY <2>1, <2>2
<1>10. reg' = [reg EXCEPT ![b].todo = todo, ![b].quiet = quiet] /\ revoked' = revoked /\ gens' = gens /\ cur' = cur
  BY DEF Gate
<1>11. UNCHANGED Calls
  BY DEF Gate, Rest, Calls, stores, host
<1>12. gate' \in [enabled : BOOLEAN, source : {"none", "boundary", "adapter", "explicit"}, mine : BOOLEAN]
  BY <1>1 DEF Gate, AdaptersTyped
<1>13. quiet \in BOOLEAN
  OBVIOUS
<1> HIDE DEF todo, quiet
<1>14. /\ reg' \in [Boundaries -> BoundaryCall]
       /\ reg'[b].todo = todo /\ reg'[b].quiet = quiet /\ reg'[b].mode = r.mode /\ reg'[b].ctx = r.ctx
       /\ \A d \in Boundaries \ {b} : reg'[d] = reg[d]
  BY <1>1, <1>9, <1>10, <1>13, Redirected
<1>15. Sound(gens[b], cur'[b], reg'[b], revoked'[b])
  <2>1. revoked'[b] = FALSE /\ cur'[b] = c
    BY <1>1, <1>5, <1>10 DEF AdaptersTyped
  <2> HIDE DEF c
  <2>2. Sound(G, c, reg'[b], FALSE)
    BY <1>9, <1>14
  <2> QED BY <2>1, <2>2
<1> QED BY <1>1, <1>10, <1>11, <1>12, <1>14, <1>15, PlainStep DEF AdaptersTyped

(* The rest of a composition, after a step that is not its last. *)
LEMMA ComposesOn ==
  ASSUME NEW S, NEW r, NEW q, r.todo \in Seq(S), Composes(r), Head(r.todo) # "finish",
         q.todo = Tail(r.todo), q.mode = r.mode, q.ctx = r.ctx, q.quiet = r.quiet
  PROVE  /\ Composes(q) /\ q.todo \in Seq(S) /\ Len(q.todo) \in Nat
         /\ \A s : Planned(q.todo, s) => Planned(r.todo, s) /\ MayFollow(Head(r.todo), s)
         /\ \A s : Planned(r.todo, s) => s = Head(r.todo) \/ Planned(q.todo, s)
         /\ \A i \in 1..Len(q.todo) : MayFollow(Head(r.todo), q.todo[i])
<1> DEFINE t == r.todo
           u == q.todo
<1>1. /\ t # <<>> /\ u \in Seq(S) /\ Len(u) = Len(t) - 1 /\ Len(t) \in Nat \ {0} /\ Head(t) = t[1]
      /\ \A i \in 1..(Len(t) - 1) : u[i] = t[i + 1]
      /\ (u = <<>> <=> Len(t) = 1)
  <2>1. t # <<>>
    BY DEF Composes
  <2> QED BY <2>1, RestOf
<1>2. u # <<>>
  BY <1>1 DEF Composes
<1>3. /\ InOrder(u) /\ u[Len(u)] = "finish"
      /\ \A s : Planned(u, s) => Planned(t, s)
      /\ \A s : Planned(t, s) => s = Head(t) \/ Planned(u, s)
  BY <1>1, <1>2, TailPlans DEF Composes
<1>4. ASSUME NEW i \in 1..Len(u) PROVE MayFollow(Head(t), u[i])
  <2>1. 1 \in 1..Len(t) /\ i + 1 \in 1..Len(t) /\ 1 < i + 1 /\ u[i] = t[i + 1]
    BY <1>1
  <2> QED BY <1>1, <2>1 DEF Composes, InOrder
<1>5. Composes(q)
  BY <1>2, <1>3 DEF Composes
<1> QED BY <1>1, <1>3, <1>4, <1>5 DEF Planned

LEMMA FinishStep ==
  ASSUME BoundaryInv, NEW b \in Boundaries, Finish(b) PROVE BoundaryInv'
<1> DEFINE r == reg[b]
           G == gens[b]
<1>1. AdaptersTyped /\ At(b, "finish")
  BY DEF BoundaryInv, Finish
<1>2. /\ ~Idle(b) /\ r.todo # <<>> /\ Head(r.todo) = "finish" /\ Sound(G, cur[b], r, revoked[b])
      /\ Opening(G, cur[b], r)
  BY <1>1, PhaseOf
<1>3. Tail(r.todo) = <<>> /\ Len(r.todo) = 1
  <2>1. /\ Len(r.todo) \in Nat \ {0} /\ Head(r.todo) = r.todo[1] /\ Len(Tail(r.todo)) = Len(r.todo) - 1
        /\ Tail(r.todo) = <<>> <=> Len(r.todo) = 1
    BY <1>2, RestOf DEF Opening
  <2>2. ASSUME Len(r.todo) # 1 PROVE FALSE
    <3>1. 1 \in 1..Len(r.todo) /\ 2 \in 1..Len(r.todo) /\ 1 < 2
      BY <2>1, <2>2
    <3>2. MayFollow(r.todo[1], r.todo[2])
      BY <1>2, <3>1 DEF Opening, Composes, InOrder
    <3> QED BY <1>2, <2>1, <3>2 DEF MayFollow
  <2> QED BY <2>1, <2>2
<1>4. Tail(r.todo) \in Seq(AllSteps)
  BY <1>1, <1>2, TailTyped
<1>5. /\ reg' \in [Boundaries -> BoundaryCall] /\ revoked' \in [Boundaries -> BOOLEAN]
      /\ reg'[b].todo = <<>> /\ reg'[b].quiet = r.quiet
      /\ revoked'[b] <=> revoked[b] \/ r.quiet
      /\ \A d \in Boundaries \ {b} : reg'[d] = reg[d] /\ revoked'[d] = revoked[d]
  BY <1>1, <1>2, <1>3, <1>4, Advanced DEF Finish, Next1
<1>6. ~r.quiet /\ r.ctx # None /\ r.mode # "off" /\ ~revoked[b]
  BY <1>2 DEF Opening, Composes, Sound
<1>7. ~Planned(r.todo, "newInjector") /\ ~Planned(r.todo, "noInjector")
  <2>1. r.todo[1] = "finish"
    BY <1>2, RestOf DEF Opening
  <2> QED BY <1>3, <2>1 DEF Planned
<1>8. cur' = [cur EXCEPT ![b].ctx = r.ctx, ![b].mode = r.mode]
  BY DEF Finish
<1> DEFINE c == [cap |-> cur[b].cap, read |-> cur[b].read, inj |-> cur[b].inj, ctx |-> r.ctx, mode |-> r.mode]
<1>9. r \in BoundaryCall /\ cur[b] \in Adapters /\ cur \in [Boundaries -> Adapters]
  BY <1>1 DEF AdaptersTyped
<1>10. c \in Adapters
  BY <1>9 DEF Adapters, BoundaryCall
<1>11. /\ DOMAIN cur' = Boundaries /\ cur'[b] = [[cur[b] EXCEPT !.ctx = r.ctx] EXCEPT !.mode = r.mode]
       /\ (\A d \in Boundaries \ {b} : cur'[d] = cur[d]) /\ cur' = [d \in DOMAIN cur' |-> cur'[d]]
  BY <1>8, <1>9
<1>12. cur'[b] = c
  BY <1>9, <1>11 DEF Adapters
<1>13. cur' \in [Boundaries -> Adapters]
  <2> HIDE DEF c
  <2>1. \A d \in Boundaries : cur'[d] \in Adapters
    BY <1>9, <1>10, <1>11, <1>12
  <2> QED BY <1>11, <2>1
<1>14. Tracked(G, c)
  BY <1>2 DEF Sound, Tracked
<1>15. Permitted(G, c)
  <2>1. 0 \notin DOMAIN G
    BY <1>1, Generation
  <2>2. cur[b].inj # 0 => r.mode = "inject"
    BY <1>2, <1>7 DEF Opening
  <2>3. Injecting(G) => cur[b].inj # 0
    BY <1>2, <2>1 DEF Sound, Tracked, Injecting
  <2> QED BY <1>6, <2>2, <2>3 DEF Permitted
<1>16. Sound(G, c, reg'[b], revoked'[b])
  <2>1. Dropping(G, c, reg'[b])
    BY <1>5, <1>6, <1>15, EndsSound
  <2> QED BY <1>5, <1>6, <1>14, <2>1 DEF Sound
<1>17. gens' = gens /\ gate' = gate /\ UNCHANGED Calls
  BY DEF Finish, Rest, Calls, stores, host
<1>18. {cur'[b].cap, cur'[b].read, cur'[b].inj} \subseteq 0..Len(gens[b])
  BY <1>1, <1>12, Generation
<1>19. gate \in [enabled : BOOLEAN, source : {"none", "boundary", "adapter", "explicit"}, mine : BOOLEAN]
  BY <1>1 DEF AdaptersTyped
<1> HIDE DEF c
<1>20. Sound(gens[b], cur'[b], reg'[b], revoked'[b])
  BY <1>12, <1>16
<1>21. gens' = gens /\ UNCHANGED Calls
       /\ gate' \in [enabled : BOOLEAN, source : {"none", "boundary", "adapter", "explicit"}, mine : BOOLEAN]
  BY <1>17, <1>19
<1>22. \A d \in Boundaries \ {b} : cur'[d] = cur[d] /\ reg'[d] = reg[d] /\ revoked'[d] = revoked[d]
  BY <1>5, <1>11
<1>23. reg' \in [Boundaries -> BoundaryCall] /\ revoked' \in [Boundaries -> BOOLEAN]
  BY <1>5
<1> QED BY <1>13, <1>18, <1>20, <1>21, <1>22, <1>23, PlainStep

GateTypes == [enabled : BOOLEAN, source : {"none", "boundary", "adapter", "explicit"}, mine : BOOLEAN]

LEMMA AdoptedGate ==
  ASSUME AdaptersTyped, NEW b \in Boundaries, gate' = Adopted(b) \/ gate' = gate
  PROVE  gate' \in GateTypes /\ gate'.enabled \in BOOLEAN
<1>1. gate' \in GateTypes
  <2>1. gate \in GateTypes /\ [enabled |-> TRUE, source |-> "adapter", mine |-> FALSE] \in GateTypes
    BY DEF AdaptersTyped, GateTypes
  <2> QED BY <2>1 DEF Adopted
<1> QED BY <1>1 DEF GateTypes

(* Recomposition is done with the old adapters before it opens new ones. *)
LEMMA OpenStep ==
  ASSUME BoundaryInv, NEW b \in Boundaries, OpenCapture(b) PROVE BoundaryInv'
<1> DEFINE G == gens[b]
           c == cur[b]
           r == reg[b]
           t == r.todo
<1>1. AdaptersTyped /\ CallsAreKnown /\ At(b, "openCapture") /\ gate' = Adopted(b)
  BY DEF BoundaryInv, OpenCapture
<1>2. /\ ~Idle(b) /\ t # <<>> /\ Head(t) = "openCapture" /\ Sound(G, c, r, revoked[b])
      /\ Clearing(G, c, r)
  BY <1>1, PhaseOf
<1>3. /\ r \in BoundaryCall /\ G \in Seq(Composition) /\ Tail(t) \in Seq(AllSteps)
      /\ gate' \in GateTypes /\ gate'.enabled \in BOOLEAN
  BY <1>1, <1>2, TailTyped, AdoptedGate DEF AdaptersTyped
<1>4. ~revoked[b] /\ t \in Seq(ComposeProgram) /\ ~r.quiet
  BY <1>2 DEF Sound, Clearing, Composes
<1>5. Silent(G)
  <2>1. \A f : ~Precedes(t, f, "openCapture")
    BY <1>2, <1>4, TailPlans
  <2> QED BY <1>2, <2>1 DEF Clearing, ClosedBefore, Silent
<1>6. CASE Fault /\ UNCHANGED <<gens, cur, revoked>>
           /\ reg' = [reg EXCEPT ![b].todo = DropAuthority, ![b].quiet = TRUE]
  <2>1. DropProgram(DropAuthority) /\ DropSteps \subseteq AllSteps
    BY ProgramsDrop DEF AllSteps
  <2>2. DropAuthority \in Seq(AllSteps)
    BY <2>1 DEF DropProgram
  <2>3. /\ reg' \in [Boundaries -> BoundaryCall]
        /\ reg'[b].todo = DropAuthority /\ reg'[b].quiet = TRUE
        /\ \A d \in Boundaries \ {b} : reg'[d] = reg[d]
    BY <1>1, <1>6, <2>2, Redirected
  <2>4. Dropping(G, c, reg'[b])
    BY <1>2, <1>5, <2>1, <2>3, DropStarts DEF Clearing
  <2>5. Sound(gens[b], cur'[b], reg'[b], revoked'[b])
    BY <1>2, <1>4, <1>6, <2>4 DEF Sound
  <2>6. UNCHANGED Calls
    BY <1>6 DEF Fault, Calls, stores, host
  <2> QED BY <1>1, <1>3, <1>6, <2>3, <2>5, <2>6, PlainStep DEF AdaptersTyped, GateTypes
<1>7. CASE /\ gens' = [gens EXCEPT ![b] = Append(@, Composed(b))]
           /\ cur' = [cur EXCEPT ![b].cap = Len(gens[b]) + 1]
           /\ Next1(b) /\ Rest
  <2> DEFINE n == Len(G) + 1
             new == Composed(b)
             H == Append(G, new)
             k == [cap |-> n, read |-> c.read, inj |-> c.inj, ctx |-> c.ctx, mode |-> c.mode]
  <2>1. r.ctx \in Contexts /\ r.mode \in Modes
    BY <1>2, <1>3 DEF Clearing, Composes, BoundaryCall
  <2>2. new \in Composition /\ ~new.started /\ ~new.active
    BY <1>3, <2>1 DEF Composed, Composition
  <2>3. /\ H \in Seq(Composition) /\ Len(H) = n /\ n \in Nat \ {0} /\ DOMAIN H = DOMAIN G \cup {n} /\ n \notin DOMAIN G
        /\ H[n] = new /\ \A i \in DOMAIN G : H[i] = G[i]
    <3> HIDE DEF new
    <3> QED BY <1>3, <2>2
  <2> HIDE DEF new, H
  <2>4. /\ gens'[b] = H /\ gens' \in [Boundaries -> Seq(Composition)]
        /\ \A d \in Boundaries \ {b} : gens'[d] = gens[d]
    BY <1>1, <1>7, <2>3 DEF AdaptersTyped, H, new
  <2>5. c \in Adapters /\ c.cap \in Nat /\ {c.cap, c.read, c.inj} \subseteq 0..Len(G)
    BY <1>1 DEF AdaptersTyped, Adapters
  <2>6. k \in Adapters
    BY <2>3, <2>5 DEF Adapters
  <2>7. cur' \in [Boundaries -> Adapters] /\ cur'[b] = k /\ \A d \in Boundaries \ {b} : cur'[d] = cur[d]
    BY <1>1, <1>7, <2>3, <2>5, <2>6 DEF AdaptersTyped, Adapters
  <2>8. /\ reg' \in [Boundaries -> BoundaryCall] /\ revoked' \in [Boundaries -> BOOLEAN]
        /\ reg'[b].todo = Tail(t) /\ reg'[b].mode = r.mode /\ reg'[b].ctx = r.ctx /\ reg'[b].quiet = r.quiet
        /\ revoked'[b] <=> revoked[b] \/ (Tail(t) = <<>> /\ r.quiet)
        /\ \A d \in Boundaries \ {b} : reg'[d] = reg[d] /\ revoked'[d] = revoked[d]
    BY <1>1, <1>2, <1>3, <1>7, Advanced DEF Next1
  <2> DEFINE q == reg'[b]
  <2>9. ~Serving(H) /\ ~Injecting(H) /\ Tracked(H, k)
    BY <1>5, <2>2, <2>3 DEF Silent, Serving, Injecting, Writing, Tracked
  <2>10. /\ Composes(q) /\ q.todo \in Seq(ComposeProgram) /\ Len(q.todo) \in Nat
         /\ \A s : Planned(r.todo, s) => s = "openCapture" \/ Planned(q.todo, s)
         /\ \A j \in 1..Len(q.todo) : MayFollow("openCapture", q.todo[j])
    <3>1. Composes(r) /\ Head(r.todo) # "finish" /\ Head(r.todo) = "openCapture"
      BY <1>2 DEF Clearing
    <3>2. q.todo = Tail(r.todo) /\ q.mode = r.mode /\ q.ctx = r.ctx /\ q.quiet = r.quiet
      BY <2>8
    <3> HIDE DEF q, r
    <3>3. /\ Composes(q) /\ q.todo \in Seq(ComposeProgram) /\ Len(q.todo) \in Nat
          /\ \A s : Planned(r.todo, s) => s = Head(r.todo) \/ Planned(q.todo, s)
          /\ \A j \in 1..Len(q.todo) : MayFollow(Head(r.todo), q.todo[j])
      BY <1>4, <3>1, <3>2, ComposesOn
    <3> QED BY <3>1, <3>3
  <2>11. q.todo \in Seq(OpenedSteps)
    <3>1. \A j \in 1..Len(q.todo) : q.todo[j] \in OpenedSteps
      BY <2>10 DEF MayFollow
    <3> QED BY <2>10, <3>1
  <2>12. Planned(q.todo, "newInjector") \/ Planned(q.todo, "noInjector")
    BY <1>2, <2>10 DEF Clearing
  <2>13. Opening(H, k, q)
    BY <2>3, <2>9, <2>10, <2>11, <2>12 DEF Opening
  <2>14. Sound(H, k, q, revoked'[b])
    BY <1>4, <2>8, <2>9, <2>13 DEF Sound
  <2>15. UNCHANGED Calls
    BY <1>7 DEF Rest, Calls, stores, host
  <2>16. AdaptersTyped'
    <3>1. \A d \in Boundaries : {cur'[d].cap, cur'[d].read, cur'[d].inj} \subseteq 0..Len(gens'[d])
      <4> SUFFICES ASSUME NEW d \in Boundaries PROVE {cur'[d].cap, cur'[d].read, cur'[d].inj} \subseteq 0..Len(gens'[d])
        OBVIOUS
      <4>1. CASE d = b
        <5>1. cur'[d].cap = n /\ cur'[d].read = c.read /\ cur'[d].inj = c.inj /\ Len(gens'[d]) = n
          BY <2>3, <2>4, <2>7, <4>1
        <5>2. Len(G) \in Nat
          BY <1>3
        <5> QED BY <2>5, <5>1, <5>2
      <4>2. CASE d # b
        <5>1. {cur[d].cap, cur[d].read, cur[d].inj} \subseteq 0..Len(gens[d])
          BY <1>1 DEF AdaptersTyped
        <5> QED BY <2>4, <2>7, <4>2, <5>1
      <4> QED BY <4>1, <4>2
    <3> QED BY <1>1, <1>3, <2>4, <2>7, <2>8, <2>15, <3>1 DEF AdaptersTyped, Calls, GateTypes
  <2>17. CallsAreKnown'
    <3>1. \A d \in Boundaries : DOMAIN gens[d] \subseteq DOMAIN gens'[d]
      BY <2>3, <2>4
    <3>2. pipe # None => gens'[pipe.boundary][pipe.gen].active
      BY <1>1, <2>3, <2>4 DEF CallsAreKnown
    <3> QED BY <1>1, <2>15, <3>1, <3>2, CallsStay DEF Calls
  <2>18. Others(b)
    BY <2>4, <2>7, <2>8 DEF Others
  <2>19. Sound(gens'[b], cur'[b], reg'[b], revoked'[b])
    <3> HIDE DEF k
    <3> QED BY <2>4, <2>7, <2>14
  <2> QED BY <2>16, <2>17, <2>18, <2>19, OthersStay
<1> QED BY <1>6, <1>7 DEF OpenCapture

(* A restart that goes on or has ended. *)
LEMMA RestartsOn ==
  ASSUME NEW G, NEW H, NEW c, NEW r, NEW q, NEW rev,
         Sound(G, c, r, rev), Restarting(G, c, r), q.todo = Tail(r.todo) \/ q.todo = <<>>, q.quiet = r.quiet,
         Tracked(H, c), Injecting(H) => c.mode = "inject"
  PROVE  Sound(H, c, q, FALSE)
<1>1. r.todo \in Seq(RestartProgram) /\ r.todo # <<>> /\ ~q.quiet
  BY DEF Restarting
<1>2. Tail(r.todo) \in Seq(RestartProgram) /\ \A s : Planned(Tail(r.todo), s) => Planned(r.todo, s)
  BY <1>1, RestOf, TailPlans
<1>3. Permitted(H, c)
  BY DEF Restarting, Permitted
<1>4. CASE q.todo = <<>>
  <2>1. Dropping(H, c, q)
    BY <1>1, <1>3, <1>4, EndsSound DEF Restarting
  <2> QED BY <2>1 DEF Sound
<1>5. CASE q.todo # <<>>
  <2>1. Restarting(H, c, q)
    BY <1>1, <1>2, <1>3, <1>5 DEF Restarting
  <2> QED BY <2>1 DEF Sound
<1> QED BY <1>4, <1>5

(* The adapters of a composition that is restarted are those in use. *)
LEMMA RestartStep ==
  ASSUME BoundaryInv, NEW b \in Boundaries, ~Idle(b), Restarting(gens[b], cur[b], reg[b]),
         NEW g \in 0..Len(gens[b]), NEW new, g # 0 => new \in Composition, Change(b, g, new),
         g # 0 => /\ new.open => gens[b][g].open \/ g = cur[b].cap
                  /\ new.started => gens[b][g].started \/ g = cur[b].read
                  /\ new.active /\ ~gens[b][g].active => At(b, "wakeInjector") /\ g = cur[b].inj
                  /\ gens[b][g].active => new.active,
         NEW todo \in {Tail(reg[b].todo), <<>>}, Goto(b, todo), cur' = cur, gate' \in GateTypes, UNCHANGED Calls
  PROVE  BoundaryInv'
<1>1. AdaptersTyped
  BY DEF BoundaryInv
<1>2. reg[b].todo # <<>> /\ Sound(gens[b], cur[b], reg[b], revoked[b])
  BY DEF Idle, BoundaryInv
<1>3. Tail(reg[b].todo) \in Seq(AllSteps) /\ <<>> \in Seq(AllSteps)
  BY <1>1, <1>2, TailTyped
<1>4. /\ DOMAIN gens'[b] = DOMAIN gens[b]
      /\ \A i \in DOMAIN gens[b] : gens'[b][i] = IF i = g THEN new ELSE gens[b][i]
  BY <1>1, ChangedGen
<1>5. 0 \notin DOMAIN gens[b] /\ Tracked(gens[b], cur[b]) /\ ~revoked[b] /\ ~reg[b].quiet
  BY <1>1, <1>2, Generation DEF Sound, Restarting
<1>6. Tracked(gens'[b], cur[b])
  <2> SUFFICES ASSUME NEW i \in DOMAIN gens[b]
               PROVE  /\ gens'[b][i].open => i = cur[b].cap
                      /\ gens'[b][i].started => i = cur[b].read
                      /\ gens'[b][i].active => i = cur[b].inj
    BY <1>4 DEF Tracked
  <2>1. CASE i # g
    BY <1>4, <1>5, <2>1 DEF Tracked
  <2>2. CASE i = g
    BY <1>4, <1>5, <2>2 DEF Tracked
  <2> QED BY <2>1, <2>2
<1>7. Injecting(gens'[b]) => cur[b].mode = "inject"
  <2> SUFFICES ASSUME NEW i \in DOMAIN gens[b], gens'[b][i].active PROVE cur[b].mode = "inject"
    BY <1>4 DEF Injecting
  <2>1. CASE gens[b][i].active
    BY <2>1 DEF Restarting, Permitted, Injecting
  <2>2. CASE ~gens[b][i].active
    <3>1. i = g /\ g # 0 /\ Head(reg[b].todo) = "wakeInjector"
      BY <1>4, <1>5, <2>2 DEF At
    <3>2. Planned(reg[b].todo, "wakeInjector")
      <4>1. Head(reg[b].todo) = reg[b].todo[1] /\ Len(reg[b].todo) \in Nat \ {0}
        BY <1>2, RestOf DEF Restarting
      <4>2. 1 \in 1..Len(reg[b].todo)
        BY <4>1
      <4> QED BY <1>2, <3>1, <4>1, <4>2 DEF Planned
    <3> QED BY <1>2, <3>2 DEF Restarting
  <2> QED BY <2>1, <2>2
<1>8. todo \in Seq(AllSteps)
  BY <1>3
<1>9. /\ reg'[b].todo = todo /\ reg'[b].quiet = reg[b].quiet
      /\ revoked'[b] <=> revoked[b] \/ (todo = <<>> /\ reg[b].quiet)
      /\ revoked' \in [Boundaries -> BOOLEAN]
  BY <1>1, <1>2, <1>8, Advanced
<1>10. revoked'[b] = FALSE
  BY <1>5, <1>9
<1>11. Sound(gens'[b], cur[b], reg'[b], FALSE)
  BY <1>2, <1>6, <1>7, <1>8, <1>9, RestartsOn
<1>12. Sound(gens'[b], cur'[b], reg'[b], revoked'[b])
  BY <1>10, <1>11
<1>13. g # 0 /\ Running(b, g) => new.active
  BY DEF Running, BoundaryInv, CallsAreKnown
<1>14. /\ cur' \in [Boundaries -> Adapters] /\ {cur'[b].cap, cur'[b].read, cur'[b].inj} \subseteq 0..Len(gens[b])
       /\ \A d \in Boundaries \ {b} : cur'[d] = cur[d]
  BY <1>1 DEF AdaptersTyped
<1> QED BY <1>2, <1>8, <1>12, <1>13, <1>14, ChangeStep DEF GateTypes

LEMMA RestartSteps3 ==
  ASSUME BoundaryInv, NEW b \in Boundaries,
         ReopenCapture(b) \/ RestartReader(b) \/ (Injector(b) /\ At(b, "wakeInjector"))
  PROVE  BoundaryInv'
<1>1. AdaptersTyped
  BY DEF BoundaryInv
<1>2. /\ \A g \in 0..Len(gens[b]) : g # 0 => g \in DOMAIN gens[b] /\ gens[b][g] \in Composition
      /\ cur[b].cap \in 0..Len(gens[b]) /\ cur[b].read \in 0..Len(gens[b]) /\ cur[b].inj \in 0..Len(gens[b])
  BY <1>1, Generation
<1>3. CASE ReopenCapture(b)
  <2> DEFINE g == cur[b].cap
             opened == [gens[b][g] EXCEPT !.enabled = TRUE, !.open = gate'.enabled, !.runs = "assist"]
             marked == [gens[b][g] EXCEPT !.enabled = TRUE]
  <2>1. gate' \in GateTypes /\ gate'.enabled \in BOOLEAN
    BY <1>1, <1>3, AdoptedGate DEF ReopenCapture
  <2>2. g # 0 => /\ opened \in Composition
                 /\ opened.started = gens[b][g].started /\ opened.active = gens[b][g].active
                 /\ marked \in Composition /\ marked.open = gens[b][g].open
                 /\ marked.started = gens[b][g].started /\ marked.active = gens[b][g].active
    BY <1>2, <2>1 DEF Composition, Modes
  <2>3. /\ At(b, "reopenCapture") /\ cur' = cur
        /\ \/ Change(b, g, opened) /\ Goto(b, Tail(reg[b].todo)) /\ Rest
           \/ Fault /\ Change(b, g, marked) /\ Goto(b, <<>>)
    BY <1>3 DEF ReopenCapture, Next1
  <2>4. UNCHANGED Calls
    BY <2>3 DEF Rest, Fault, Calls, stores, host
  <2> HIDE DEF opened, marked
  <2>5. CASE Change(b, g, opened) /\ Goto(b, Tail(reg[b].todo))
    <3>1. At(b, "reopenCapture") /\ cur' = cur /\ g \in 0..Len(gens[b])
      BY <1>2, <2>3
    <3>2. gate' \in GateTypes
      BY <2>1
    <3>5. ~Idle(b) /\ Restarting(gens[b], cur[b], reg[b])
      BY <3>1, PhaseOf
    <3>6. Change(b, g, opened) /\ cur' = cur /\ Goto(b, Tail(reg[b].todo)) /\ UNCHANGED Calls /\ gate' \in GateTypes
      BY <2>4, <2>5, <3>1, <3>2
    <3>3. g # 0 => opened \in Composition
      BY <2>2
    <3>7. g # 0 => /\ opened.open => gens[b][g].open \/ g = cur[b].cap
                   /\ opened.started => gens[b][g].started \/ g = cur[b].read
                   /\ opened.active => gens[b][g].active
                   /\ gens[b][g].active => opened.active
      BY <2>2
    <3>4. g # 0 => /\ opened.open => gens[b][g].open \/ g = cur[b].cap
                   /\ opened.started => gens[b][g].started \/ g = cur[b].read
                   /\ opened.active /\ ~gens[b][g].active => At(b, "wakeInjector") /\ g = cur[b].inj
                   /\ gens[b][g].active => opened.active
      BY <3>7
    <3> QED BY <3>1, <3>3, <3>4, <3>5, <3>6, RestartStep
  <2>6. CASE Change(b, g, marked) /\ Goto(b, <<>>)
    <3>1. At(b, "reopenCapture") /\ cur' = cur /\ g \in 0..Len(gens[b])
      BY <1>2, <2>3
    <3>2. gate' \in GateTypes
      BY <2>1
    <3>5. ~Idle(b) /\ Restarting(gens[b], cur[b], reg[b])
      BY <3>1, PhaseOf
    <3>6. Change(b, g, marked) /\ cur' = cur /\ Goto(b, <<>>) /\ UNCHANGED Calls /\ gate' \in GateTypes
      BY <2>4, <2>6, <3>1, <3>2
    <3>3. g # 0 => marked \in Composition
      BY <2>2
    <3>7. g # 0 => /\ marked.open => gens[b][g].open \/ g = cur[b].cap
                   /\ marked.started => gens[b][g].started \/ g = cur[b].read
                   /\ marked.active => gens[b][g].active
                   /\ gens[b][g].active => marked.active
      BY <2>2
    <3>4. g # 0 => /\ marked.open => gens[b][g].open \/ g = cur[b].cap
                   /\ marked.started => gens[b][g].started \/ g = cur[b].read
                   /\ marked.active /\ ~gens[b][g].active => At(b, "wakeInjector") /\ g = cur[b].inj
                   /\ gens[b][g].active => marked.active
      BY <3>7
    <3> QED BY <3>1, <3>3, <3>4, <3>5, <3>6, RestartStep
  <2> QED BY <2>3, <2>5, <2>6
<1>4. CASE RestartReader(b)
  <2> DEFINE g == cur[b].read
             old == gens[b][g]
             begun == Started(old)
             marked == [old EXCEPT !.readOn = TRUE]
  <2>1. gate' \in GateTypes /\ gate' = gate
    BY <1>1, <1>4 DEF RestartReader, AdaptersTyped, GateTypes
  <2>2. g # 0 => /\ begun \in Composition /\ begun.open = old.open /\ begun.active = old.active
                 /\ marked \in Composition /\ marked.open = old.open
                 /\ marked.started = old.started /\ marked.active = old.active
    BY <1>2 DEF Composition, Started
  <2>3. /\ At(b, "restartReader") /\ cur' = cur
        /\ \/ Change(b, g, begun) /\ Goto(b, Tail(reg[b].todo)) /\ Rest
           \/ Fault /\ Change(b, g, marked) /\ Goto(b, <<>>)
    BY <1>4 DEF RestartReader, Next1
  <2>4. UNCHANGED Calls
    BY <2>3 DEF Rest, Fault, Calls, stores, host
  <2> HIDE DEF begun, marked
  <2>5. CASE Change(b, g, begun) /\ Goto(b, Tail(reg[b].todo))
    <3>1. At(b, "restartReader") /\ cur' = cur /\ g \in 0..Len(gens[b])
      BY <1>2, <2>3
    <3>2. gate' \in GateTypes
      BY <2>1
    <3>5. ~Idle(b) /\ Restarting(gens[b], cur[b], reg[b])
      BY <3>1, PhaseOf
    <3>6. Change(b, g, begun) /\ cur' = cur /\ Goto(b, Tail(reg[b].todo)) /\ UNCHANGED Calls /\ gate' \in GateTypes
      BY <2>4, <2>5, <3>1, <3>2
    <3>3. g # 0 => begun \in Composition
      BY <2>2
    <3>7. g # 0 => /\ begun.open => gens[b][g].open \/ g = cur[b].cap
                   /\ begun.started => gens[b][g].started \/ g = cur[b].read
                   /\ begun.active => gens[b][g].active
                   /\ gens[b][g].active => begun.active
      BY <2>2
    <3>4. g # 0 => /\ begun.open => gens[b][g].open \/ g = cur[b].cap
                   /\ begun.started => gens[b][g].started \/ g = cur[b].read
                   /\ begun.active /\ ~gens[b][g].active => At(b, "wakeInjector") /\ g = cur[b].inj
                   /\ gens[b][g].active => begun.active
      BY <3>7
    <3> QED BY <3>1, <3>3, <3>4, <3>5, <3>6, RestartStep
  <2>6. CASE Change(b, g, marked) /\ Goto(b, <<>>)
    <3>1. At(b, "restartReader") /\ cur' = cur /\ g \in 0..Len(gens[b])
      BY <1>2, <2>3
    <3>2. gate' \in GateTypes
      BY <2>1
    <3>5. ~Idle(b) /\ Restarting(gens[b], cur[b], reg[b])
      BY <3>1, PhaseOf
    <3>6. Change(b, g, marked) /\ cur' = cur /\ Goto(b, <<>>) /\ UNCHANGED Calls /\ gate' \in GateTypes
      BY <2>4, <2>6, <3>1, <3>2
    <3>3. g # 0 => marked \in Composition
      BY <2>2
    <3>7. g # 0 => /\ marked.open => gens[b][g].open \/ g = cur[b].cap
                   /\ marked.started => gens[b][g].started \/ g = cur[b].read
                   /\ marked.active => gens[b][g].active
                   /\ gens[b][g].active => marked.active
      BY <2>2
    <3>4. g # 0 => /\ marked.open => gens[b][g].open \/ g = cur[b].cap
                   /\ marked.started => gens[b][g].started \/ g = cur[b].read
                   /\ marked.active /\ ~gens[b][g].active => At(b, "wakeInjector") /\ g = cur[b].inj
                   /\ gens[b][g].active => marked.active
      BY <3>7
    <3> QED BY <3>1, <3>3, <3>4, <3>5, <3>6, RestartStep
  <2> QED BY <2>3, <2>5, <2>6
<1>5. CASE Injector(b) /\ At(b, "wakeInjector")
  <2> DEFINE g == cur[b].inj
             woken == [gens[b][g] EXCEPT !.active = @ \/ gens[b][g].injHooked]
  <2>1. gate' \in GateTypes
    BY <1>1, <1>5 DEF Injector, AdaptersTyped, GateTypes
  <2>2. g # 0 => /\ woken \in Composition /\ woken.open = gens[b][g].open
                 /\ woken.started = gens[b][g].started /\ (gens[b][g].active => woken.active)
    BY <1>2 DEF Composition
  <2>3. Change(b, g, woken) /\ cur' = cur /\ Goto(b, Tail(reg[b].todo)) /\ UNCHANGED Calls
    BY <1>5 DEF Injector, At, Next1, Rest, Calls, stores, host
  <2> HIDE DEF woken
  <2>4. ~Idle(b) /\ Restarting(gens[b], cur[b], reg[b])
    BY <1>5, PhaseOf
  <2> QED BY <1>2, <1>5, <2>1, <2>2, <2>3, <2>4, RestartStep
<1> QED BY <1>3, <1>4, <1>5

(* A step of a composition after its capture adapter: what is still to come *)
(* is there to come, and of one kind of adapter at most.                   *)
LEMMA OpensOn ==
  ASSUME NEW G, NEW H, NEW c, NEW k, NEW r, NEW q, NEW rev,
         Sound(G, c, r, rev), Opening(G, c, r), Head(r.todo) \in {"newReader", "newInjector", "noInjector"},
         q.todo = Tail(r.todo), q.mode = r.mode, q.ctx = r.ctx, q.quiet = r.quiet,
         Tracked(H, k), k.cap # 0,
         Head(r.todo) = "newReader" => (Injecting(H) => Injecting(G)) /\ k.inj = c.inj,
         Head(r.todo) # "newReader" => (Serving(H) => Serving(G)) /\ (r.mode # "inject" => k.inj = 0)
  PROVE  Sound(H, k, q, FALSE)
<1>1. r.todo \in Seq(OpenedSteps) /\ Composes(r) /\ Head(r.todo) # "finish"
  BY DEF Opening
<1>2. /\ Composes(q) /\ q.todo \in Seq(OpenedSteps)
      /\ \A s : Planned(q.todo, s) => Planned(r.todo, s) /\ MayFollow(Head(r.todo), s)
      /\ \A s : Planned(r.todo, s) => s = Head(r.todo) \/ Planned(q.todo, s)
  BY <1>1, ComposesOn
<1>3. Planned(q.todo, "newReader") => ~Serving(H)
  <2> SUFFICES ASSUME Planned(q.todo, "newReader") PROVE ~Serving(H)
    OBVIOUS
  <2>1. Planned(r.todo, "newReader") /\ MayFollow(Head(r.todo), "newReader")
    BY <1>2
  <2>2. Head(r.todo) # "newReader"
    BY <2>1 DEF MayFollow
  <2> QED BY <2>1, <2>2 DEF Opening
<1>4. IF Planned(q.todo, "newInjector") \/ Planned(q.todo, "noInjector") THEN ~Injecting(H)
      ELSE q.mode # "inject" => k.inj = 0
  <2>1. CASE Head(r.todo) = "newReader"
    <3>1. /\ Planned(q.todo, "newInjector") <=> Planned(r.todo, "newInjector")
          /\ Planned(q.todo, "noInjector") <=> Planned(r.todo, "noInjector")
      BY <1>2, <2>1
    <3> QED BY <2>1, <3>1 DEF Opening
  <2>2. CASE Head(r.todo) # "newReader"
    <3>1. ~Planned(q.todo, "newInjector") /\ ~Planned(q.todo, "noInjector")
      BY <1>2, <2>2 DEF MayFollow
    <3> QED BY <2>2, <3>1
  <2> QED BY <2>1, <2>2
<1>5. Opening(H, k, q)
  BY <1>2, <1>3, <1>4 DEF Opening
<1> QED BY <1>5 DEF Sound

LEMMA ReaderStep ==
  ASSUME BoundaryInv, NEW b \in Boundaries, NewReader(b) PROVE BoundaryInv'
<1> DEFINE G == gens[b]
           c == cur[b]
           r == reg[b]
           i == c.cap
<1>1. AdaptersTyped /\ At(b, "newReader") /\ gate' = Adopted(b)
  BY DEF BoundaryInv, NewReader
<1>2. /\ ~Idle(b) /\ r.todo # <<>> /\ Head(r.todo) = "newReader" /\ Sound(G, c, r, revoked[b]) /\ Opening(G, c, r)
  BY <1>1, PhaseOf
<1>3. Tail(r.todo) \in Seq(AllSteps) /\ gate' \in GateTypes /\ gate'.enabled \in BOOLEAN
  BY <1>1, <1>2, TailTyped, AdoptedGate
<1>4. i \in 0..Len(G) /\ i # 0 /\ i \in DOMAIN G /\ G[i] \in Composition /\ c.inj \in 0..Len(G)
  BY <1>1, <1>2, Generation DEF Opening
<1> DEFINE g == [G[i] EXCEPT !.readGate = gate'.enabled, !.readOn = TRUE]
           served == [Started(g) EXCEPT !.tooled = TRUE]
<1>5. /\ g \in Composition /\ g.open = G[i].open /\ g.active = G[i].active
      /\ served \in Composition /\ served.open = G[i].open /\ served.active = G[i].active
  BY <1>3, <1>4 DEF Composition, Started
<1>6. gens' = [gens EXCEPT ![b][i] = served] \/ gens' = [gens EXCEPT ![b][i] = g]
  BY DEF NewReader, Cap
<1>7. cur' = [cur EXCEPT ![b].read = i] /\ Goto(b, Tail(r.todo)) /\ UNCHANGED Calls
  BY DEF NewReader, Next1, Rest, Fault, Calls, stores, host
<1> HIDE DEF g, served
<1>8. PICK new \in {g, served} : Change(b, i, new)
  BY <1>4, <1>6 DEF Change
<1>9. new \in Composition /\ new.open = G[i].open /\ new.active = G[i].active
  BY <1>5
<1>10. /\ DOMAIN gens'[b] = DOMAIN G
       /\ \A j \in DOMAIN G : gens'[b][j] = IF j = i THEN new ELSE G[j]
  BY <1>1, <1>4, <1>8, <1>9, ChangedGen
<1> DEFINE k == [cap |-> c.cap, read |-> i, inj |-> c.inj, ctx |-> c.ctx, mode |-> c.mode]
<1>11. c \in Adapters /\ i \in Nat /\ cur \in [Boundaries -> Adapters]
  BY <1>1 DEF AdaptersTyped, Adapters
<1>12. k \in Adapters
  BY <1>11 DEF Adapters
<1>13. cur' \in [Boundaries -> Adapters] /\ cur'[b] = k /\ \A d \in Boundaries \ {b} : cur'[d] = cur[d]
  BY <1>7, <1>11, <1>12 DEF Adapters
<1>14. {cur'[b].cap, cur'[b].read, cur'[b].inj} \subseteq 0..Len(gens[b])
  BY <1>4, <1>13
<1>15. ~Serving(G) /\ Tracked(G, c) /\ ~revoked[b] /\ ~r.quiet
  <2>1. Planned(r.todo, "newReader")
    <3>1. Head(r.todo) = r.todo[1] /\ Len(r.todo) \in Nat \ {0}
      BY <1>2, RestOf DEF Opening
    <3>2. 1 \in 1..Len(r.todo)
      BY <3>1
    <3> QED BY <1>2, <3>1, <3>2 DEF Planned
  <2> QED BY <1>2, <2>1 DEF Sound, Opening, Composes
<1>16. Tracked(gens'[b], k)
  <2> SUFFICES ASSUME NEW j \in DOMAIN G
               PROVE  /\ gens'[b][j].open => j = c.cap
                      /\ gens'[b][j].started => j = i
                      /\ gens'[b][j].active => j = c.inj
    BY <1>10 DEF Tracked
  <2>1. CASE j # i
    BY <1>10, <1>15, <2>1 DEF Tracked, Serving
  <2>2. CASE j = i
    BY <1>9, <1>10, <1>15, <2>2 DEF Tracked
  <2> QED BY <2>1, <2>2
<1>17. Injecting(gens'[b]) => Injecting(G)
  BY <1>9, <1>10 DEF Injecting
<1>18. /\ reg'[b].todo = Tail(r.todo) /\ reg'[b].mode = r.mode /\ reg'[b].ctx = r.ctx /\ reg'[b].quiet = r.quiet
       /\ revoked'[b] <=> revoked[b] \/ (Tail(r.todo) = <<>> /\ r.quiet)
       /\ revoked' \in [Boundaries -> BOOLEAN]
  BY <1>1, <1>2, <1>3, <1>7, Advanced
<1>19. Sound(gens'[b], k, reg'[b], FALSE)
  <2>1. k.cap # 0 /\ k.inj = c.inj
    BY <1>4
  <2> HIDE DEF k
  <2> QED BY <1>2, <1>16, <1>17, <1>18, <2>1, OpensOn
<1>20. Sound(gens'[b], cur'[b], reg'[b], revoked'[b])
  <2>1. revoked'[b] = FALSE
    BY <1>15, <1>18
  <2> HIDE DEF k
  <2> QED BY <1>13, <1>19, <2>1
<1>21. i # 0 /\ Running(b, i) => new.active
  BY <1>9 DEF Running, BoundaryInv, CallsAreKnown
<1> HIDE DEF k
<1> QED BY <1>2, <1>3, <1>4, <1>7, <1>8, <1>9, <1>13, <1>14, <1>20, <1>21, ChangeStep DEF GateTypes

LEMMA InjectorStep ==
  ASSUME BoundaryInv, NEW b \in Boundaries, Injector(b), ~At(b, "wakeInjector") PROVE BoundaryInv'
<1> DEFINE G == gens[b]
           c == cur[b]
           r == reg[b]
           i == c.cap
<1>1. AdaptersTyped
  BY DEF BoundaryInv
<1>2. PICK step \in {"newInjector", "noInjector"} : At(b, step)
  BY DEF Injector
<1>3. /\ ~Idle(b) /\ r.todo # <<>> /\ Head(r.todo) = step /\ Sound(G, c, r, revoked[b]) /\ Opening(G, c, r)
  BY <1>2, PhaseOf
<1>4. Tail(r.todo) \in Seq(AllSteps) /\ gate' \in GateTypes /\ Goto(b, Tail(r.todo)) /\ UNCHANGED Calls
  BY <1>1, <1>3, TailTyped DEF Injector, Next1, Rest, Calls, stores, host, AdaptersTyped, GateTypes
<1>5. i \in 0..Len(G) /\ i # 0 /\ i \in DOMAIN G /\ G[i] \in Composition /\ 0 \in 0..Len(G) /\ G \in Seq(Composition)
      /\ c.read \in 0..Len(G)
  BY <1>1, <1>3, Generation DEF Opening, AdaptersTyped
<1>6. c \in Adapters /\ i \in Nat /\ cur \in [Boundaries -> Adapters]
  BY <1>1 DEF AdaptersTyped, Adapters
<1>7. ~Injecting(G) /\ Tracked(G, c) /\ revoked[b] = FALSE /\ ~r.quiet /\ (step = "newInjector" => r.mode = "inject")
  <2>1. Planned(r.todo, step)
    <3>1. Head(r.todo) = r.todo[1] /\ Len(r.todo) \in Nat \ {0}
      BY <1>3, RestOf DEF Opening
    <3>2. 1 \in 1..Len(r.todo)
      BY <3>1
    <3> QED BY <1>3, <3>1, <3>2 DEF Planned
  <2>2. ~r.quiet /\ (step = "newInjector" => r.mode = "inject")
    BY <1>3, <2>1 DEF Opening, Composes
  <2>3. revoked[b] = FALSE
    BY <1>1, <1>3, <2>2 DEF Sound, AdaptersTyped
  <2> QED BY <1>3, <2>1, <2>2, <2>3 DEF Sound, Opening
<1>8. /\ reg'[b].todo = Tail(r.todo) /\ reg'[b].mode = r.mode /\ reg'[b].ctx = r.ctx /\ reg'[b].quiet = r.quiet
      /\ revoked'[b] <=> revoked[b] \/ (Tail(r.todo) = <<>> /\ r.quiet)
      /\ revoked' \in [Boundaries -> BOOLEAN]
  BY <1>1, <1>3, <1>4, Advanced
<1> DEFINE with == [[G[i] EXCEPT !.active = TRUE] EXCEPT !.injHooked = TRUE]
<1>9. with \in Composition /\ with.open = G[i].open /\ with.started = G[i].started /\ with.active
  BY <1>5 DEF Composition
<1>10. PICK j \in {0, i}, inj \in {0, i} :
          /\ Change(b, j, with) /\ cur' = [cur EXCEPT ![b].inj = inj]
          /\ j # 0 => inj = i
          /\ r.mode # "inject" => inj = 0
  <2>1. CASE At(b, "newInjector")
    <3>1. /\ gens' = [gens EXCEPT ![b][i].active = TRUE, ![b][i].injHooked = TRUE]
          /\ cur' = [cur EXCEPT ![b].inj = i]
      BY <2>1 DEF Injector, At
    <3>2. gens' = [gens EXCEPT ![b][i] = with]
      <4>1. gens \in [Boundaries -> Seq(Composition)]
        BY <1>1 DEF AdaptersTyped
      <4> QED BY <1>5, <3>1, <4>1
    <3>3. r.mode = "inject"
      BY <1>2, <1>3, <1>7, <2>1 DEF At
    <3> QED BY <1>5, <3>1, <3>2, <3>3 DEF Change
  <2>2. CASE ~At(b, "newInjector")
    BY <2>2 DEF Injector, Change
  <2> QED BY <2>1, <2>2
<1> HIDE DEF with
<1>11. /\ DOMAIN gens'[b] = DOMAIN G
       /\ \A h \in DOMAIN G : gens'[b][h] = IF h = j THEN with ELSE G[h]
  BY <1>1, <1>5, <1>9, <1>10, ChangedGen
<1> DEFINE k == [cap |-> c.cap, read |-> c.read, inj |-> inj, ctx |-> c.ctx, mode |-> c.mode]
<1>12. k \in Adapters
  BY <1>6 DEF Adapters
<1>13. cur' \in [Boundaries -> Adapters] /\ cur'[b] = k /\ \A d \in Boundaries \ {b} : cur'[d] = cur[d]
  BY <1>6, <1>10, <1>12 DEF Adapters
<1>14. {cur'[b].cap, cur'[b].read, cur'[b].inj} \subseteq 0..Len(gens[b])
  BY <1>5, <1>13
<1>15. Tracked(gens'[b], k) /\ (Serving(gens'[b]) => Serving(G))
  <2>1. ASSUME NEW h \in DOMAIN G
        PROVE  /\ gens'[b][h].open => h = c.cap
               /\ gens'[b][h].started => h = c.read /\ G[h].started
               /\ gens'[b][h].active => h = inj
    <3>1. CASE h # j
      BY <1>7, <1>11, <3>1 DEF Tracked, Injecting
    <3>2. CASE h = j
      <4>1. h = i /\ inj = i
        BY <1>10, <3>2, <1>1, Generation
      <4> QED BY <1>7, <1>9, <1>11, <3>2, <4>1 DEF Tracked
    <3> QED BY <3>1, <3>2
  <2> QED BY <1>11, <2>1 DEF Tracked, Serving
<1>16. Sound(gens'[b], k, reg'[b], FALSE)
  <2>1. k.cap # 0 /\ (r.mode # "inject" => k.inj = 0)
    BY <1>5, <1>10
  <2>2. Head(r.todo) \in {"newReader", "newInjector", "noInjector"} /\ Head(r.todo) # "newReader"
    BY <1>2, <1>3
  <2> HIDE DEF k
  <2> QED BY <1>3, <1>8, <1>15, <2>1, <2>2, OpensOn
<1>17. Sound(gens'[b], cur'[b], reg'[b], revoked'[b])
  <2>1. revoked'[b] = FALSE
    BY <1>7, <1>8
  <2> HIDE DEF k
  <2> QED BY <1>13, <1>16, <2>1
<1>18. j # 0 /\ Running(b, j) => with.active
  BY <1>9
<1>19. j \in 0..Len(gens[b])
  BY <1>5
<1> HIDE DEF k
<1> QED BY <1>3, <1>4, <1>9, <1>10, <1>13, <1>14, <1>17, <1>18, <1>19, ChangeStep DEF GateTypes

LEMMA BoundarySteps ==
  ASSUME BoundaryInv, NEW b \in Boundaries, Step(b) PROVE BoundaryInv'
<1>1. CASE Injector(b)
  BY <1>1, InjectorStep, RestartSteps3
<1> QED BY <1>1, GateStep, PassingSteps, ForgetStep, CloseSteps, OpenStep, RestartSteps3, HookStep, ReaderStep, FinishStep
        DEF Step

LEMMA BoundaryInit == HermesInit => BoundaryInv
<1> SUFFICES ASSUME HermesInit PROVE BoundaryInv
  OBVIOUS
<1>1. <<>> \in Seq(Composition) /\ <<>> \in Seq(AllSteps) /\ Len(<<>>) = 0 /\ DOMAIN <<>> = {}
  OBVIOUS
<1>2. NoAdapters \in Adapters /\ NoCall \in BoundaryCall
  BY <1>1 DEF NoAdapters, NoCall, Adapters, BoundaryCall, Modes
<1>3. AdaptersTyped
  <2>1. \A b \in Boundaries : {cur[b].cap, cur[b].read, cur[b].inj} \subseteq 0..Len(gens[b])
    BY <1>1 DEF HermesInit, NoAdapters
  <2> QED BY <1>1, <1>2, <2>1 DEF AdaptersTyped, HermesInit
<1>4. CallsAreKnown
  BY DEF CallsAreKnown, HermesInit
<1>5. ASSUME NEW b \in Boundaries PROVE Sound(gens[b], cur[b], reg[b], revoked[b])
  <2>1. gens[b] = <<>> /\ cur[b] = NoAdapters /\ reg[b] = NoCall
    BY DEF HermesInit
  <2>2. Silent(<<>>) /\ Tracked(<<>>, NoAdapters)
    BY <1>1 DEF Silent, Writing, Serving, Injecting, Tracked
  <2>3. Dropping(<<>>, NoAdapters, NoCall)
    BY <2>2, EndsSound DEF NoCall, NoAdapters, Permitted, Silent
  <2> QED BY <2>1, <2>2, <2>3 DEF Sound, NoCall
<1> QED BY <1>3, <1>4, <1>5 DEF BoundaryInv

(* What the host and the rest of the process do leaves the boundaries be.  *)
LEMMA HostSteps ==
  ASSUME BoundaryInv, [HermesNext]_hermesVars,
         ~\E b \in Boundaries : Step(b) \/ Shutdown(b) \/ \E ctx \in Contexts : Register(b, ctx)
  PROVE  BoundaryInv' /\ UNCHANGED <<gens, cur, reg, revoked>>
<1>1. UNCHANGED <<gens, cur, reg, revoked>>
  BY DEF HermesNext, hermesVars, boundary, Host, HookCalled, ToolCalled, InjectionCalled, Project, Rewrite, Observe, ToolAnswered,
         RetrieveNext, Inject, Taken, SetGate, SetEnv
<1>2. gate' \in GateTypes /\ DOMAIN canon' = Boundaries /\ DOMAIN answers' = Boundaries
  <2>1. gate \in GateTypes /\ DOMAIN canon = Boundaries /\ DOMAIN answers = Boundaries
    BY DEF BoundaryInv, AdaptersTyped, GateTypes
  <2>2. CASE \E enabled \in BOOLEAN : SetGate(enabled)
    BY <2>1, <2>2 DEF SetGate, GateTypes, stores, host
  <2>3. CASE Observe \/ ToolAnswered
    BY <2>1, <2>3 DEF Observe, ToolAnswered, stores
  <2>4. CASE UNCHANGED <<gate, canon, answers>>
    BY <2>1, <2>4
  <2> QED BY <2>2, <2>3, <2>4
          DEF HermesNext, hermesVars, stores, host, Host, HookCalled, ToolCalled, InjectionCalled, Project, Rewrite,
              RetrieveNext, Inject, Taken, SetEnv
<1>3. AdaptersTyped'
  BY <1>1, <1>2 DEF BoundaryInv, AdaptersTyped, GateTypes
<1>4. CallsAreKnown'
  <2>1. CallsAreKnown
    BY DEF BoundaryInv
  <2>2. ASSUME NEW b \in Boundaries, NEW g \in DOMAIN gens[b], NEW e \in HostEvents, HookCalled(b, g, e)
        PROVE  CallsAreKnown'
    BY <1>1, <2>1, <2>2 DEF HookCalled, CallsAreKnown
  <2>3. ASSUME NEW b \in Boundaries, NEW g \in DOMAIN gens[b], NEW call \in ToolCalls, ToolCalled(b, g, call)
        PROVE  CallsAreKnown'
    BY <1>1, <2>1, <2>3 DEF ToolCalled, CallsAreKnown
  <2>4. ASSUME NEW b \in Boundaries, NEW g \in DOMAIN gens[b], NEW req \in Requests, InjectionCalled(b, g, req)
        PROVE  CallsAreKnown'
    <3>1. CASE pipe' = pipe
      BY <1>1, <2>1, <2>4, <3>1 DEF InjectionCalled, CallsAreKnown
    <3>2. CASE pipe' = [boundary |-> b, gen |-> g, req |-> req, todo |-> Reads(req), got |-> {}]
      <4>1. {"boundary", "gen"} \subseteq DOMAIN pipe' /\ pipe'.boundary = b /\ pipe'.gen = g
        BY <3>2
      <4> QED BY <1>1, <2>1, <2>4, <4>1 DEF InjectionCalled, CallsAreKnown
    <3> QED BY <2>4, <3>1, <3>2 DEF InjectionCalled
  <2>5. CASE Observe
    BY <1>1, <2>1, <2>5 DEF Observe, CallsAreKnown
  <2>6. CASE ToolAnswered
    BY <1>1, <2>1, <2>6 DEF ToolAnswered, CallsAreKnown
  <2>7. CASE RetrieveNext
    <3>1. pipe # None /\ \E todo, got : pipe' = [pipe EXCEPT !.todo = todo, !.got = got] \/ pipe' = [pipe EXCEPT !.todo = todo]
      BY <2>7 DEF RetrieveNext
    <3>2. {"boundary", "gen"} \subseteq DOMAIN pipe' /\ pipe'.boundary = pipe.boundary /\ pipe'.gen = pipe.gen
      BY <2>1, <3>1 DEF CallsAreKnown
    <3> QED BY <1>1, <2>1, <2>7, <3>1, <3>2 DEF RetrieveNext, CallsAreKnown
  <2>8. CASE Inject
    BY <1>1, <2>1, <2>8 DEF Inject, CallsAreKnown
  <2>9. CASE Taken \/ UNCHANGED <<hooking, asking, pipe>>
    BY <1>1, <2>1, <2>9 DEF Taken, CallsAreKnown
  <2> QED BY <2>2, <2>3, <2>4, <2>5, <2>6, <2>7, <2>8, <2>9 DEF HermesNext, hermesVars, host, Host, Project, Rewrite, SetGate, SetEnv
<1> QED BY <1>1, <1>3, <1>4 DEF BoundaryInv

LEMMA BoundaryNext == ASSUME BoundaryInv, [HermesNext]_hermesVars PROVE BoundaryInv'
BY BoundarySteps, CallStarts, HostSteps

(* Every boundary call is in one of the phases, with what it has open.     *)
THEOREM BoundaryInvariance == HermesSpec => []BoundaryInv
<1> QED BY BoundaryInit, BoundaryNext, PTL DEF HermesSpec

-----------------------------------------------------------------------------
(***************************************************************************)
(* The properties of Hermes.                                               *)
(***************************************************************************)

(* Whatever a registration was broken by: the host's callbacks reach the   *)
(* adapters the boundary refers to, within the mode of its registration.   *)
THEOREM AuthorityStaysCurrent == HermesSpec => []AuthorityIsCurrent
<1>1. BoundaryInv => AuthorityIsCurrent
  <2> SUFFICES ASSUME BoundaryInv PROVE AuthorityIsCurrent
    OBVIOUS
  <2>1. LiveIsCurrent
    BY DEF LiveIsCurrent, BoundaryInv, Sound, Tracked
  <2>2. ModeBoundsAuthority
    BY IdlePhase DEF ModeBoundsAuthority, Dropping, Permitted, Writing, Injecting
  <2> QED BY <2>1, <2>2 DEF AuthorityIsCurrent
<1> QED BY <1>1, BoundaryInvariance, PTL

(* A boundary without authority is silent, calls under way included. *)
THEOREM RevokedStaysSilent == HermesSpec => RevokedMeansSilent
<1> DEFINE Quiet == \A b \in Boundaries : revoked[b] =>
                      /\ canon'[b] = canon[b] /\ answers'[b] = answers[b]
                      /\ (out' # out /\ out' # None) => out'.boundary # b
<1>1. BoundaryInv /\ [HermesNext]_hermesVars => [Quiet]_hermesVars
  <2> SUFFICES ASSUME BoundaryInv, [HermesNext]_hermesVars, NEW b \in Boundaries, revoked[b]
               PROVE  /\ canon'[b] = canon[b] /\ answers'[b] = answers[b]
                      /\ (out' # out /\ out' # None) => out'.boundary # b
    OBVIOUS
  <2>1. /\ \A g \in DOMAIN gens[b] : ~gens[b][g].open /\ ~gens[b][g].started /\ ~gens[b][g].active
        /\ AdaptersTyped /\ CallsAreKnown
    BY DEF BoundaryInv, Sound, Silent, Writing, Serving, Injecting
  <2>2. CASE UNCHANGED <<canon, answers, out>>
    BY <2>2
  <2>3. CASE Observe
    BY <2>1, <2>3 DEF Observe, MayCapture, CallsAreKnown, AdaptersTyped
  <2>4. CASE ToolAnswered
    BY <2>1, <2>4 DEF ToolAnswered, stores, CallsAreKnown, AdaptersTyped
  <2>5. CASE Inject
    BY <2>1, <2>5 DEF Inject, Result, stores, CallsAreKnown
  <2>6. ASSUME NEW d \in Boundaries, NEW g \in DOMAIN gens[d], NEW req \in Requests, InjectionCalled(d, g, req)
        PROVE  /\ canon'[b] = canon[b] /\ answers'[b] = answers[b]
               /\ (out' # out /\ out' # None) => out'.boundary # b
    BY <2>1, <2>6 DEF InjectionCalled, Result, stores
  <2>7. CASE Taken
    BY <2>7 DEF Taken, stores
  <2>8. ASSUME NEW d \in Boundaries, Step(d) PROVE UNCHANGED <<canon, answers, out>>
    <3>1. Rest \/ Fault => UNCHANGED <<canon, answers, out>>
      BY DEF Rest, Fault, stores, host
    <3>2. Rest \/ Fault
      BY <2>8 DEF Step, Gate, Disable, Forget, CloseReader, CloseCapture, CloseInjector, Look,
              OpenCapture, ReopenCapture, Hook, NewReader, RestartReader, Injector, Finish
    <3> QED BY <3>1, <3>2
  <2>9. ASSUME NEW d \in Boundaries, (\E ctx \in Contexts : Register(d, ctx)) \/ Shutdown(d) \/ Project(d)
                                      \/ \E r \in Rewrites : Rewrite(d, r)
        PROVE  UNCHANGED <<canon, answers, out>>
    BY <2>9 DEF Register, Shutdown, Project, Rewrite, stores, host
  <2>10. ASSUME NEW d \in Boundaries, NEW g \in DOMAIN gens[d],
                (\E e \in HostEvents : HookCalled(d, g, e)) \/ \E call \in ToolCalls : ToolCalled(d, g, call)
         PROVE  UNCHANGED <<canon, answers, out>>
    BY <2>10 DEF HookCalled, ToolCalled, stores
  <2>11. RetrieveNext \/ (\E enabled \in BOOLEAN : SetGate(enabled)) \/ (\E e \in Envs : SetEnv(e)) \/ UNCHANGED hermesVars
         => UNCHANGED <<canon, answers, out>>
    BY DEF RetrieveNext, SetGate, SetEnv, hermesVars, stores, host
  <2> QED BY <2>2, <2>3, <2>4, <2>5, <2>6, <2>7, <2>8, <2>9, <2>10, <2>11 DEF HermesNext, Host
<1> QED BY <1>1, BoundaryInvariance, PTL DEF HermesSpec, RevokedMeansSilent

-----------------------------------------------------------------------------
(***************************************************************************)
(* Evidence: the context that an injection leaves tells of every eligible  *)
(* item that was read.  Rows have identities of their own, so that a sort is *)
(* exact and a prefix of it is counted by its length.                      *)
(***************************************************************************)

(***************************************************************************)
(* What the sort of the model is: all of a set, in the order of its keys.  *)
(***************************************************************************)

(* The first place where two keys differ decides between them. *)
LEMMA LexicalOrder ==
  ASSUME NEW m \in Nat, NEW a \in [1..m -> Int], NEW b \in [1..m -> Int], NEW c \in [1..m -> Int]
  PROVE  /\ ~Lexically(a, a)
         /\ Lexically(a, b) /\ Lexically(b, c) => Lexically(a, c)
         /\ Lexically(a, b) \/ Lexically(b, a) \/ a = b
<1>1. DOMAIN a = 1..m /\ DOMAIN b = 1..m
  OBVIOUS
<1>2. ~Lexically(a, a)
  BY DEF Lexically
<1>3. ASSUME Lexically(a, b), Lexically(b, c) PROVE Lexically(a, c)
  <2>1. PICK k \in 1..m : a[k] < b[k] /\ \A j \in 1..(k - 1) : a[j] = b[j]
    BY <1>1, <1>3 DEF Lexically
  <2>2. PICK l \in 1..m : b[l] < c[l] /\ \A j \in 1..(l - 1) : b[j] = c[j]
    BY <1>1, <1>3 DEF Lexically
  <2>3. \A i \in 1..m : a[i] \in Int /\ b[i] \in Int /\ c[i] \in Int
    OBVIOUS
  <2>4. CASE k <= l
    <3>1. b[k] = c[k] \/ b[k] < c[k]
      BY <2>2, <2>4
    <3>2. a[k] < b[k] /\ a[k] \in Int /\ b[k] \in Int /\ c[k] \in Int
      BY <2>1, <2>3
    <3>3. a[k] < c[k]
      BY <3>1, <3>2
    <3>4. \A j \in 1..(k - 1) : a[j] = c[j]
      BY <2>1, <2>2, <2>4
    <3> QED BY <1>1, <3>3, <3>4 DEF Lexically
  <2>5. CASE l < k
    <3>1. a[l] < c[l]
      BY <2>1, <2>2, <2>3, <2>5
    <3>2. \A j \in 1..(l - 1) : a[j] = c[j]
      BY <2>1, <2>2, <2>5
    <3> QED BY <1>1, <3>1, <3>2 DEF Lexically
  <2> QED BY <2>4, <2>5
<1>4. ASSUME a # b PROVE Lexically(a, b) \/ Lexically(b, a)
  <2> DEFINE D == {i \in 1..m : a[i] # b[i]}
  <2>1. D # {}
    <3>1. a = [i \in 1..m |-> a[i]] /\ b = [i \in 1..m |-> b[i]]
      OBVIOUS
    <3>2. CASE \A i \in 1..m : a[i] = b[i]
      <4>1. [i \in 1..m |-> a[i]] = [i \in 1..m |-> b[i]]
        BY <3>2
      <4> QED BY <1>4, <3>1, <4>1
    <3>3. CASE \E i \in 1..m : a[i] # b[i]
      BY <3>3
    <3> QED BY <3>2, <3>3
  <2> D \subseteq Nat
    OBVIOUS
  <2>2. PICK k \in D : \A j \in D : ~(<<j, k>> \in OpToRel(<, Nat))
    BY <2>1, NatLessThanWellFounded, WFMin
  <2>3. \A j \in D : k <= j
    <3> SUFFICES ASSUME NEW j \in D, ~(k <= j) PROVE FALSE
      OBVIOUS
    <3>1. j \in Nat /\ k \in Nat /\ j < k
      BY <2>1
    <3>2. <<j, k>> \in OpToRel(<, Nat)
      BY <3>1 DEF OpToRel
    <3> QED BY <2>2, <3>2
  <2>4. \A j \in 1..(k - 1) : a[j] = b[j]
    BY <2>3
  <2>5. a[k] \in Int /\ b[k] \in Int /\ a[k] # b[k] /\ k \in 1..m
    OBVIOUS
  <2>6. CASE a[k] < b[k]
    BY <1>1, <2>4, <2>5, <2>6 DEF Lexically
  <2>7. CASE b[k] < a[k]
    <3>1. \A j \in 1..(k - 1) : b[j] = a[j]
      BY <2>4
    <3> QED BY <1>1, <3>1, <2>5, <2>7 DEF Lexically
  <2> QED BY <2>5, <2>6, <2>7
<1> QED BY <1>2, <1>3, <1>4

(* What is sorted by keys of its own is all of the set, once, in order.    *)
LEMMA Sorting ==
  ASSUME NEW set, IsFiniteSet(set), NEW m \in Nat, NEW key \in [set -> [1..m -> Int]],
         \A x, y \in set : key[x] = key[y] => x = y
  PROVE  LET s == SortedBy(set, key)
         IN  /\ s \in [1..Cardinality(set) -> set] /\ Cardinality(set) \in Nat
             /\ \A x \in set : \E n \in 1..Cardinality(set) : s[n] = x
             /\ \A i, j \in 1..Cardinality(set) : i < j => s[i] # s[j] /\ Lexically(key[s[i]], key[s[j]])
<1> DEFINE c == Cardinality(set)
           Below(x) == {y \in set : Lexically(key[y], key[x])}
           place == [x \in set |-> Cardinality(Below(x)) + 1]
<1>1. c \in Nat
  BY FS_CardinalityType
<1>2. ASSUME NEW x \in set
      PROVE  IsFiniteSet(Below(x)) /\ Cardinality(Below(x)) \in 0..(c - 1)
  <2>1. x \notin Below(x)
    BY LexicalOrder
  <2>2. Below(x) \in SUBSET set /\ Below(x) # set
    BY <2>1
  <2>3. IsFiniteSet(Below(x)) /\ Cardinality(Below(x)) <= c /\ Cardinality(Below(x)) # c
    BY <2>2, FS_Subset
  <2>4. Cardinality(Below(x)) \in Nat
    BY <2>3, FS_CardinalityType
  <2> QED BY <1>1, <2>3, <2>4
<1>3. ASSUME NEW x \in set, NEW y \in set, Lexically(key[x], key[y])
      PROVE  place[x] < place[y]
  <2>1. ASSUME NEW z \in Below(x) PROVE z \in Below(y)
    <3>1. key[x] \in [1..m -> Int] /\ key[y] \in [1..m -> Int] /\ key[z] \in [1..m -> Int]
      OBVIOUS
    <3>2. Lexically(key[z], key[x])
      OBVIOUS
    <3>3. Lexically(key[z], key[y])
      BY <1>3, <3>1, <3>2, LexicalOrder
    <3> QED BY <3>3
  <2>2. x \in Below(y) /\ x \notin Below(x)
    BY <1>3, LexicalOrder
  <2>3. Cardinality(Below(x)) <= Cardinality(Below(y)) /\ Cardinality(Below(x)) # Cardinality(Below(y))
    <3> HIDE DEF Below
    <3> QED BY <1>2, <2>1, <2>2, FS_Subset
  <2>4. Cardinality(Below(x)) \in Int /\ Cardinality(Below(y)) \in Int
    <3> HIDE DEF Below
    <3> QED BY <1>2
  <2> QED BY <2>3, <2>4
<1>4. \A x, y \in set : x # y => Lexically(key[x], key[y]) \/ Lexically(key[y], key[x])
  BY LexicalOrder
<1>5. place \in [set -> 1..c]
  <2> HIDE DEF Below
  <2>1. \A n \in 0..(c - 1) : n + 1 \in 1..c
    BY <1>1
  <2> QED BY <1>2, <2>1
<1>6. \A x, y \in set : place[x] = place[y] => x = y
  <2>1. \A x \in set : place[x] \in Int
    BY <1>1, <1>5
  <2> HIDE DEF place
  <2> QED BY <1>3, <1>4, <2>1
<1>7. \A n \in 1..c : \E x \in set : place[x] = n
  <2> HIDE DEF place
  <2>1. place \in Injection(set, 1..c)
    BY <1>5, <1>6 DEF Injection, IsInjective
  <2>2. IsFiniteSet(1..c) /\ Cardinality(1..c) = c
    BY <1>1, FS_Interval
  <2>3. place \in Surjection(set, 1..c)
    BY <2>1, <2>2, FS_Injection
  <2> QED BY <2>3 DEF Surjection
<1> DEFINE s == SortedBy(set, key)
<1>8. ASSUME NEW n \in 1..c PROVE s[n] \in set /\ place[s[n]] = n
  <2>1. s[n] = CHOOSE x \in set : Cardinality(Below(x)) = n - 1
    BY DEF SortedBy
  <2>2. PICK x \in set : place[x] = n
    BY <1>7
  <2>3. Cardinality(Below(x)) \in Int /\ Cardinality(Below(x)) + 1 = n
    <3> HIDE DEF Below
    <3> QED BY <1>2, <2>2
  <2>4. Cardinality(Below(x)) = n - 1
    BY <2>3
  <2>5. s[n] \in set /\ Cardinality(Below(s[n])) = n - 1
    <3> HIDE DEF s, Below
    <3> QED BY <2>1, <2>4
  <2> QED BY <2>5
<1>9. s = [n \in 1..c |-> CHOOSE x \in set : Cardinality(Below(x)) = n - 1]
  BY DEF SortedBy
<1> HIDE DEF s, place, Below
<1>10. s \in [1..c -> set]
  BY <1>8, <1>9
<1>11. \A x \in set : \E n \in 1..c : s[n] = x
  BY <1>5, <1>6, <1>8
<1>12. ASSUME NEW i \in 1..c, NEW j \in 1..c, i < j
       PROVE  s[i] # s[j] /\ Lexically(key[s[i]], key[s[j]])
  <2>1. s[i] # s[j]
    BY <1>8, <1>12
  <2>2. ~Lexically(key[s[j]], key[s[i]])
    BY <1>3, <1>8, <1>12
  <2> QED BY <1>4, <1>8, <2>1, <2>2
<1> QED BY <1>1, <1>10, <1>11, <1>12 DEF s

(***************************************************************************)
(* Prefixes: what a selection takes of a sorted pool.                      *)
(***************************************************************************)

(* What the reads of a route may give: rows the order tells apart.         *)
ReadTypes == {"charter", "requirement", "decision", "state", "verification", "artifact", "event", "corpus_unit"}
Rows(rows) ==
  /\ IsFiniteSet(rows) /\ \A i \in rows : Ranked(i)
  /\ \A i, j \in rows : Resource(i) = Resource(j) => i = j

(* What is taken of a sequence is a prefix of it, of at most n elements.   *)
LEMMA PrefixTaken ==
  ASSUME NEW S, NEW s \in Seq(S), NEW n \in Nat
  PROVE  /\ Take(s, n) \in Seq(S) /\ Len(Take(s, n)) \in 0..Len(s) /\ Len(Take(s, n)) <= n
         /\ \A i \in 1..Len(Take(s, n)) : Take(s, n)[i] = s[i]
BY DEF Take

(* A bounded set of numbers has its greatest element, which Max returns.   *)
LEMMA GreatestIsThere ==
  ASSUME NEW S \in SUBSET Nat, S # {}, NEW m \in Nat, \A i \in S : i <= m
  PROVE  Max(S) \in S
<1> DEFINE D == {m - i : i \in S}
<1>1. D # {} /\ D \subseteq Nat
  <2>1. \A i \in S : i \in Nat /\ m - i \in Nat
    OBVIOUS
  <2>2. D # {}
    OBVIOUS
  <2> QED BY <2>1, <2>2
<1>2. PICK k \in D : \A j \in D : ~(<<j, k>> \in OpToRel(<, Nat))
  BY <1>1, NatLessThanWellFounded, WFMin
<1>3. PICK i \in S : k = m - i
  OBVIOUS
<1>4. ASSUME NEW j \in S, ~(i >= j) PROVE FALSE
  <2>1. m - j \in D /\ m - j < k /\ m - j \in Nat /\ k \in Nat
    BY <1>1, <1>3, <1>4
  <2>2. <<m - j, k>> \in OpToRel(<, Nat)
    BY <2>1 DEF OpToRel
  <2> QED BY <1>2, <2>1, <2>2
<1>5. \E x \in S : \A y \in S : x >= y
  BY <1>4
<1> QED BY <1>5 DEF Max

(* A set of numbers has its least element, which Min returns.              *)
LEMMA LeastIsThere ==
  ASSUME NEW S \in SUBSET Nat, S # {}
  PROVE  Min(S) \in S /\ \A j \in S : Min(S) <= j
<1>1. PICK k \in S : \A j \in S : ~(<<j, k>> \in OpToRel(<, Nat))
  BY NatLessThanWellFounded, WFMin
<1>2. ASSUME NEW j \in S, ~(k <= j) PROVE FALSE
  <2>1. j < k /\ j \in Nat /\ k \in Nat
    BY <1>2
  <2>2. <<j, k>> \in OpToRel(<, Nat)
    BY <2>1 DEF OpToRel
  <2> QED BY <1>1, <2>2
<1>3. \E x \in S : \A y \in S : x <= y
  BY <1>2
<1> QED BY <1>3 DEF Min

(* Fitting a pool to a token budget takes a prefix of it.                  *)
LEMMA FittedIsPrefix ==
  ASSUME NEW S, NEW s \in Seq(S), NEW budget
  PROVE  \E n \in Nat : FitTokens(s, budget) = Take(s, n)
<1> DEFINE C == {1} \cup {n \in 1..Len(s) : Tokens(Take(s, n)) <= budget}
<1>1. C \in SUBSET Nat /\ C # {} /\ \A i \in C : i <= Len(s) + 1
  OBVIOUS
<1>2. Max(C) \in Nat
  <2>1. Len(s) + 1 \in Nat
    OBVIOUS
  <2> HIDE DEF C
  <2>2. Max(C) \in C
    BY <1>1, <2>1, GreatestIsThere
  <2> QED BY <1>1, <2>2
<1>3. FitTokens(s, budget) = Take(s, Max(C))
  BY DEF FitTokens
<1> QED BY <1>2, <1>3

(* What comes once in a sequence is counted by its length.                 *)
LEMMA CountedOnce ==
  ASSUME NEW S, NEW s \in Seq(S), IsInjective(s)
  PROVE  IsFiniteSet(ToSet(s)) /\ Cardinality(ToSet(s)) = Len(s) /\ ToSet(s) \subseteq S
<1>1. DOMAIN s = 1..Len(s) /\ Len(s) \in Nat
  OBVIOUS
<1>2. s \in [1..Len(s) -> ToSet(s)]
  BY <1>1 DEF ToSet
<1>3. s \in Bijection(1..Len(s), ToSet(s))
  BY <1>1, <1>2 DEF Bijection, Injection, Surjection, ToSet
<1>4. ExistsBijection(1..Len(s), ToSet(s))
  BY <1>3 DEF ExistsBijection
<1>5. IsFiniteSet(ToSet(s)) /\ Cardinality(ToSet(s)) = Len(s)
  BY <1>1, <1>4, FS_CountingElements, FS_NatBijection
<1>6. \A i \in 1..Len(s) : s[i] \in S
  OBVIOUS
<1>7. ToSet(s) \subseteq S
  BY <1>1, <1>6 DEF ToSet
<1> QED BY <1>5, <1>7

(* A prefix of what comes once comes once. *)
LEMMA PrefixOnce ==
  ASSUME NEW S, NEW s \in Seq(S), IsInjective(s), NEW n \in 0..Len(s)
  PROVE  LET p == SubSeq(s, 1, n)
         IN  /\ p \in Seq(S) /\ Len(p) = n /\ IsInjective(p) /\ ToSet(p) \subseteq ToSet(s)
             /\ \A i \in 1..n : p[i] = s[i]
<1> DEFINE p == SubSeq(s, 1, n)
<1>1. p \in Seq(S) /\ Len(p) = n /\ \A i \in 1..n : p[i] = s[i]
  OBVIOUS
<1>2. DOMAIN p = 1..n /\ DOMAIN s = 1..Len(s) /\ 1..n \subseteq 1..Len(s)
  BY <1>1
<1> HIDE DEF p
<1>3. IsInjective(p) /\ ToSet(p) \subseteq ToSet(s)
  BY <1>1, <1>2 DEF IsInjective, ToSet
<1> QED BY <1>1, <1>3 DEF p

(* A part taken of what comes once comes once.                             *)
LEMMA TakenOnce ==
  ASSUME NEW S, NEW s \in Seq(S), IsInjective(s), NEW n \in Nat
  PROVE  /\ Take(s, n) \in Seq(S) /\ IsInjective(Take(s, n)) /\ ToSet(Take(s, n)) \subseteq ToSet(s)
BY PrefixOnce DEF Take

(* And so does the part that fits a token budget.                          *)
LEMMA FittedOnce ==
  ASSUME NEW S, NEW s \in Seq(S), IsInjective(s), NEW budget
  PROVE  /\ FitTokens(s, budget) \in Seq(S) /\ IsInjective(FitTokens(s, budget))
         /\ ToSet(FitTokens(s, budget)) \subseteq ToSet(s)
BY FittedIsPrefix, TakenOnce

(* A sort of rows by integer keys, as a sequence. *)
LEMMA SortedOnce ==
  ASSUME NEW set, IsFiniteSet(set), NEW m \in Nat, NEW key \in [set -> [1..m -> Int]],
         \A x, y \in set : key[x] = key[y] => x = y
  PROVE  LET s == SortedBy(set, key)
         IN  /\ s \in Seq(set) /\ IsInjective(s) /\ ToSet(s) = set /\ Len(s) = Cardinality(set)
             /\ \A i, j \in 1..Len(s) : i < j => Lexically(key[s[i]], key[s[j]])
<1> DEFINE s == SortedBy(set, key)  c == Cardinality(set)
<1>1. /\ s \in [1..c -> set] /\ c \in Nat
      /\ \A x \in set : \E n \in 1..c : s[n] = x
      /\ \A i, j \in 1..c : i < j => s[i] # s[j] /\ Lexically(key[s[i]], key[s[j]])
  BY Sorting
<1> HIDE DEF s, c
<1>2. s \in Seq(set) /\ Len(s) = c /\ DOMAIN s = 1..c
  BY <1>1
<1>3. IsInjective(s)
  <2> SUFFICES ASSUME NEW i \in 1..c, NEW j \in 1..c, s[i] = s[j] PROVE i = j
    BY <1>2 DEF IsInjective
  <2>1. i \in Int /\ j \in Int /\ ~(i < j) /\ ~(j < i)
    BY <1>1
  <2> QED BY <2>1
<1>4. ToSet(s) = set
  BY <1>1, <1>2 DEF ToSet
<1> QED BY <1>1, <1>2, <1>3, <1>4 DEF s, c

(***************************************************************************)
(* Scores.                                                                 *)
(***************************************************************************)

(* A score is a number, whatever the item says of itself. *)
LEMMA ScoreIsNumber ==
  ASSUME NEW pool, NEW item, NEW req, NEW k \in DOMAIN pool, DOMAIN pool \subseteq Nat,
         \A n \in DOMAIN pool : Ranked(pool[n]), pool[k] = item
  PROVE  ScoreOf(item, pool, req) \in Int
<1> DEFINE same == {n \in DOMAIN pool : pool[n].type = item.type /\ pool[n].id = item.id}
           x == pool[Min(same)]
           c == Candidate(View(x), MetadataRequest(req))
<1>1. Min(same) \in same
  <2>1. same \subseteq Nat /\ same # {}
    OBVIOUS
  <2> HIDE DEF same
  <2> QED BY <2>1, LeastIsThere
<1>2. Ranked(x)
  BY <1>1
<1>3. View(x).relevance \in Int \cup {None}
  BY <1>2 DEF View, Ranked
<1>4. c.relevance \in Int \cup {None} /\ c.distance = None
        /\ c.scope \in {"exact", "composed", "global_fallback", "unauthorized"}
  BY <1>3 DEF Candidate, MetadataRequest, ScopeMatch
<1> HIDE DEF c
<1>5. /\ VerificationStrength(c) \in Int /\ ProvenanceCompleteness(c) \in Int /\ TemporalFactor(c) \in Int
      /\ ConflictPenalty(c) \in Int /\ RetrievalMatch(c) \in Int /\ RelationRelevance(c) \in Int
  BY <1>4 DEF VerificationStrength, StatusStrength, ProvenanceCompleteness, TemporalFactor, ConflictPenalty, RetrievalMatch,
              RelationRelevance
<1>6. ASSUME c.scope # "unauthorized" PROVE Score(c) \in Int
  <2>1. ScopePriority(c) \in Int
    BY <1>4, <1>6 DEF ScopePriority
  <2>2. RetrievalMatch(c) * ScopePriority(c) \in Int
    BY <1>5, <2>1
  <2>3. RetrievalMatch(c) * ScopePriority(c) * VerificationStrength(c) \in Int
    BY <1>5, <2>2
  <2>4. RetrievalMatch(c) * ScopePriority(c) * VerificationStrength(c) * ProvenanceCompleteness(c) \in Int
    BY <1>5, <2>3
  <2>5. RetrievalMatch(c) * ScopePriority(c) * VerificationStrength(c) * ProvenanceCompleteness(c) * TemporalFactor(c) \in Int
    BY <1>5, <2>4
  <2>6. RetrievalMatch(c) * ScopePriority(c) * VerificationStrength(c) * ProvenanceCompleteness(c) * TemporalFactor(c)
          * ConflictPenalty(c) \in Int
    BY <1>5, <2>5
  <2> QED BY <1>5, <2>6 DEF Score
<1>7. Neutral \in Int
  BY DEF Neutral, Unit
<1>8. Decision(c).score \in Int
  <2>1. CASE ExclusionCode(c) = None
    <3>3. None # "unauthorized_scope"
      BY AbsentAssumption DEF ExclusionCodes
    <3>1. c.scope # "unauthorized"
      BY <2>1, <3>3 DEF ExclusionCode
    <3> QED BY <1>6, <2>1, <3>1 DEF Decision
  <2>2. CASE ExclusionCode(c) # None
    BY <1>7, <2>2 DEF Decision
  <2> QED BY <2>1, <2>2
<1> QED BY <1>7, <1>8 DEF ScoreOf, c

(***************************************************************************)
(* Pools and the selection of a role, by rows with identities of their own. *)
(***************************************************************************)

(* The time of a row orders it, whether it has one or not.                 *)
LEMMA RankIsNumber == \A i : Ranked(i) => Rank(i.at) \in Int
BY DEF Ranked, Rank

(* A pool is its items, each once. *)
LEMMA PoolOnce ==
  ASSUME NEW rows, Rows(rows), \A i \in rows : i.type \in ReadTypes, NEW route
  PROVE  LET s == Pool(rows, route)
         IN  s \in Seq(rows) /\ IsInjective(s) /\ ToSet(s) = rows /\ Len(s) = Cardinality(rows)
<1> DEFINE key == [i \in rows |-> OrderKey(i, route)]
<1>1. ASSUME NEW i \in rows
      PROVE  /\ OrderKey(i, route) \in [1..6 -> Int]
             /\ OrderKey(i, route)[5] = i.id /\ OrderKey(i, route)[6] = Arrival[i.type]
  <2>1. Rank(i.at) \in Int /\ i.id \in Int
    BY RankIsNumber DEF Rows, Ranked
  <2>2. Arrival[i.type] \in Int
    BY DEF Arrival, ReadTypes
  <2> QED BY <2>1, <2>2 DEF OrderKey
<1>2. \A t, u \in ReadTypes : Arrival[t] = Arrival[u] => t = u
  BY DEF Arrival, ReadTypes
<1>3. key \in [rows -> [1..6 -> Int]]
  BY <1>1
<1>4. \A i, j \in rows : key[i] = key[j] => i = j
  <2> SUFFICES ASSUME NEW i \in rows, NEW j \in rows, OrderKey(i, route) = OrderKey(j, route) PROVE i = j
    OBVIOUS
  <2>1. i.id = j.id /\ i.type = j.type
    BY <1>1, <1>2
  <2> QED BY <2>1 DEF Rows, Resource
<1> HIDE DEF key
<1>5. LET s == SortedBy(rows, key)
      IN  s \in Seq(rows) /\ IsInjective(s) /\ ToSet(s) = rows /\ Len(s) = Cardinality(rows)
  BY <1>3, <1>4, SortedOnce DEF Rows
<1> QED BY <1>5 DEF Pool, key

(* Some of the rows are rows.                                              *)
LEMMA SomeRows ==
  ASSUME NEW rows, Rows(rows), NEW T \in SUBSET rows
  PROVE  Rows(T) /\ Cardinality(T) \in Nat
BY FS_Subset, FS_CardinalityType DEF Rows

(* The selection: some of the items, each once, by role, the rest counted. *)
LEMMA Selected ==
  ASSUME NEW rows, Rows(rows), \A i \in rows : i.type \in ReadTypes, NEW route
  PROVE  LET c == Select(rows, route)
         IN  /\ c.primary \in Seq(rows) /\ IsInjective(c.primary) /\ \A i \in ToSet(c.primary) : IsPrimary(i, route)
             /\ c.supporting \in Seq(rows) /\ IsInjective(c.supporting)
             /\ \A i \in ToSet(c.supporting) : ~IsPrimary(i, route)
             /\ c.omitted = Cardinality(rows) - Len(c.primary) - Len(c.supporting)
<1> DEFINE first == {i \in rows : IsPrimary(i, route)}
           second == {i \in rows : ~IsPrimary(i, route)}
           primary == FitTokens(Take(Pool(first, route), MaxPrimary), TokenBudget)
           supporting == FitTokens(Take(Pool(second, route), MaxSupporting), TokenBudget - Tokens(primary))
<1>1. Rows(first) /\ Rows(second)
  BY SomeRows
<1>2. MaxPrimary \in Nat /\ MaxSupporting \in Nat
  BY BudgetAssumption
<1>3. ASSUME NEW S \in SUBSET rows, Rows(S), NEW n \in Nat, NEW budget
      PROVE  LET s == FitTokens(Take(Pool(S, route), n), budget)
             IN  s \in Seq(S) /\ IsInjective(s) /\ ToSet(s) \subseteq S
  <2>1. Pool(S, route) \in Seq(S) /\ IsInjective(Pool(S, route)) /\ ToSet(Pool(S, route)) = S
    BY <1>3, PoolOnce
  <2>2. LET t == Take(Pool(S, route), n) IN t \in Seq(S) /\ IsInjective(t) /\ ToSet(t) \subseteq S
    BY <2>1, TakenOnce
  <2> QED BY <2>2, FittedOnce
<1>4. primary \in Seq(first) /\ IsInjective(primary) /\ ToSet(primary) \subseteq first
  BY <1>1, <1>2, <1>3
<1>5. supporting \in Seq(second) /\ IsInjective(supporting) /\ ToSet(supporting) \subseteq second
  BY <1>1, <1>2, <1>3
<1>6. Select(rows, route) = [primary |-> primary, supporting |-> supporting,
                              omitted |-> Cardinality(rows) - Len(primary) - Len(supporting)]
  BY DEF Select
<1>7. Seq(first) \subseteq Seq(rows) /\ Seq(second) \subseteq Seq(rows)
  OBVIOUS
<1> QED BY <1>4, <1>5, <1>6, <1>7

(* Calibration reorders what was selected, the higher scores first.        *)
LEMMA Reordered ==
  ASSUME NEW rows, Rows(rows), \A i \in rows : i.type \in ReadTypes,
         NEW pool \in Seq(rows), IsInjective(pool), NEW req
  PROVE  LET s == Calibrated(pool, req)
         IN  /\ s \in Seq(rows) /\ IsInjective(s) /\ ToSet(s) = ToSet(pool) /\ Len(s) = Len(pool)
             /\ \A i \in ToSet(pool) : ScoreOf(i, pool, req) \in Int
             /\ \A i, j \in 1..Len(s) : i < j => ScoreOf(s[j], pool, req) <= ScoreOf(s[i], pool, req)
<1> DEFINE set == ToSet(pool)
           key == [i \in set |-> <<-ScoreOf(i, pool, req), TypeRank(i.type), i.id>>]
           s == Calibrated(pool, req)
<1>1. DOMAIN pool \subseteq Nat /\ \A n \in DOMAIN pool : pool[n] \in rows
  OBVIOUS
<1>2. \A n \in DOMAIN pool : Ranked(pool[n])
  BY <1>1 DEF Rows
<1>3. ASSUME NEW i \in set PROVE ScoreOf(i, pool, req) \in Int
  <2>1. PICK k \in DOMAIN pool : pool[k] = i
    BY DEF ToSet
  <2> QED BY <1>1, <1>2, <2>1, ScoreIsNumber
<1>4. set \subseteq rows /\ IsFiniteSet(set) /\ Cardinality(set) = Len(pool)
  BY CountedOnce
<1>5. ASSUME NEW i \in set
      PROVE  /\ key[i] \in [1..3 -> Int]
             /\ key[i][1] = -ScoreOf(i, pool, req) /\ key[i][2] = TypeRank(i.type) /\ key[i][3] = i.id
  <2>1. i.id \in Int /\ i.type \in ReadTypes
    BY <1>4 DEF Rows, Ranked
  <2>2. TypeRank(i.type) \in Int
    BY <2>1 DEF TypeRank, ReadTypes
  <2> QED BY <1>3, <2>1, <2>2
<1>6. \A t, u \in ReadTypes : TypeRank(t) = TypeRank(u) => t = u
  BY DEF TypeRank, ReadTypes
<1>7. \A i, j \in set : key[i] = key[j] => i = j
  <2> SUFFICES ASSUME NEW i \in set, NEW j \in set, key[i] = key[j] PROVE i = j
    OBVIOUS
  <2>1. i.id = j.id /\ TypeRank(i.type) = TypeRank(j.type)
    BY <1>5
  <2>2. i.type = j.type
    BY <1>4, <1>6, <2>1
  <2> QED BY <1>4, <2>1, <2>2 DEF Rows, Resource
<1>8. key \in [set -> [1..3 -> Int]]
  <2>1. key = [i \in set |-> key[i]]
    OBVIOUS
  <2> QED BY <1>5, <2>1
<1>9. s = SortedBy(set, key)
  BY DEF Calibrated
<1> HIDE DEF set, key, s
<1>10. /\ s \in Seq(set) /\ IsInjective(s) /\ ToSet(s) = set /\ Len(s) = Len(pool)
       /\ \A i, j \in 1..Len(s) : i < j => Lexically(key[s[i]], key[s[j]])
  BY <1>4, <1>7, <1>8, <1>9, SortedOnce
<1>11. ASSUME NEW i \in 1..Len(s), NEW j \in 1..Len(s), i < j
       PROVE  ScoreOf(s[j], pool, req) <= ScoreOf(s[i], pool, req)
  <2>1. s[i] \in set /\ s[j] \in set
    BY <1>10
  <2>2. DOMAIN key[s[i]] = 1..3
    BY <1>5, <2>1
  <2>3. PICK k \in 1..3 : key[s[i]][k] < key[s[j]][k] /\ \A l \in 1..(k - 1) : key[s[i]][l] = key[s[j]][l]
    BY <1>10, <1>11, <2>2 DEF Lexically
  <2>4. key[s[i]][1] <= key[s[j]][1]
    <3>1. key[s[i]][1] \in Int /\ key[s[j]][1] \in Int
      BY <1>3, <1>5, <2>1
    <3>2. CASE k = 1
      BY <2>3, <3>1, <3>2
    <3>3. CASE k # 1
      <4>1. 1 \in 1..(k - 1)
        BY <3>3
      <4>2. key[s[i]][1] = key[s[j]][1]
        BY <2>3, <4>1
      <4> QED BY <3>1, <4>2
    <3> QED BY <3>2, <3>3
  <2>5. -ScoreOf(s[i], pool, req) <= -ScoreOf(s[j], pool, req)
    BY <1>5, <2>1, <2>4
  <2>6. ScoreOf(s[i], pool, req) \in Int /\ ScoreOf(s[j], pool, req) \in Int
    BY <1>3, <2>1
  <2> QED BY <2>5, <2>6
<1>12. s \in Seq(rows)
  BY <1>4, <1>10
<1> QED BY <1>3, <1>10, <1>11, <1>12 DEF set, s

(***************************************************************************)
(* The rendering, which drops from the end of the weakest role.            *)
(***************************************************************************)

(* Rendering keeps a prefix of each role and counts the rest; the primary  *)
(* items are not touched while a supporting one is left.                   *)
LEMMA Rendered ==
  ASSUME NEW S, NEW es, {"primary", "supporting", "reason"} \subseteq DOMAIN es,
         es.primary \in Seq(S), es.supporting \in Seq(S), Render(es).status = "READY"
  PROVE  \E m \in 0..Len(es.primary), n \in 0..Len(es.supporting) :
           /\ Render(es).set.primary = SubSeq(es.primary, 1, m)
           /\ Render(es).set.supporting = SubSeq(es.supporting, 1, n)
           /\ Render(es).set.reason = es.reason
           /\ Render(es).omitted = es.omitted + (Len(es.primary) + Len(es.supporting) - m - n)
           /\ m # Len(es.primary) => n = 0
<1> DEFINE supporting == Len(es.supporting)
           most == IF es.primary = <<>> THEN supporting ELSE supporting + Len(es.primary) - 1
           left(k) == IF k <= supporting THEN [es EXCEPT !.supporting = SubSeq(@, 1, supporting - k)]
                      ELSE [es EXCEPT !.supporting = <<>>, !.primary = SubSeq(@, 1, supporting + Len(@) - k)]
           fitting == {k \in 0..most : Envelope(left(k)) <= MaxContext}
           gone == Min(fitting)
<1>1. Render(es) = IF fitting = {} THEN [status |-> "BUDGET_EXCEEDED", set |-> EmptySet("BUDGET_EXCEEDED"), omitted |-> es.omitted + most]
                   ELSE [status |-> "READY", set |-> left(Min(fitting)), omitted |-> es.omitted + Min(fitting)]
  BY DEF Render
<1>2. supporting \in Nat /\ Len(es.primary) \in Nat /\ (es.primary # <<>> => Len(es.primary) > 0)
  OBVIOUS
<1>3. fitting \subseteq 0..most /\ 0..most \subseteq Nat
  <2>1. most \in Int
    BY <1>2
  <2>2. 0..most \subseteq Nat
    BY <2>1
  <2> HIDE DEF left
  <2> QED BY <2>2
<1> HIDE DEF fitting
<1>4. fitting # {}
  <2> HIDE DEF left, most
  <2> QED BY <1>1
<1>5. gone \in 0..most
  <2> HIDE DEF most
  <2> QED BY <1>3, <1>4, LeastIsThere
<1>6. Render(es).set = left(gone) /\ Render(es).omitted = es.omitted + gone
  <2> HIDE DEF left, most
  <2> QED BY <1>1, <1>4
<1> HIDE DEF gone
<1>7. CASE gone <= supporting
  <2>1. left(gone) = [es EXCEPT !.supporting = SubSeq(@, 1, supporting - gone)]
    BY <1>7
  <2> HIDE DEF left
  <2>2. /\ left(gone).supporting = SubSeq(es.supporting, 1, supporting - gone)
        /\ left(gone).primary = es.primary /\ left(gone).reason = es.reason
    BY <2>1
  <2>3. es.primary = SubSeq(es.primary, 1, Len(es.primary))
    OBVIOUS
  <2>4. supporting - gone \in 0..supporting /\ Len(es.primary) \in 0..Len(es.primary)
    BY <1>2, <1>5, <1>7
  <2>5. gone = Len(es.primary) + Len(es.supporting) - Len(es.primary) - (supporting - gone)
    BY <1>2, <1>5
  <2> QED BY <1>6, <2>2, <2>3, <2>4, <2>5
<1>8. CASE ~(gone <= supporting)
  <2> DEFINE m == supporting + Len(es.primary) - gone
  <2>1. es.primary # <<>> /\ gone \in Int /\ gone > supporting /\ gone <= supporting + Len(es.primary) - 1
    BY <1>2, <1>5, <1>8
  <2>2. m \in 0..Len(es.primary) /\ 0 \in 0..Len(es.supporting)
    BY <1>2, <2>1
  <2>3. left(gone) = [es EXCEPT !.supporting = <<>>, !.primary = SubSeq(@, 1, m)]
    BY <1>8
  <2> HIDE DEF left
  <2>4. left(gone).supporting = <<>> /\ left(gone).primary = SubSeq(es.primary, 1, m) /\ left(gone).reason = es.reason
    BY <2>3
  <2>5. SubSeq(es.supporting, 1, 0) = <<>>
    OBVIOUS
  <2>6. gone = Len(es.primary) + Len(es.supporting) - m - 0
    BY <1>2, <2>1
  <2> QED BY <1>6, <2>2, <2>4, <2>5, <2>6
<1> QED BY <1>7, <1>8

(* A prefix agrees with the sequence; one of its length is the sequence.   *)
LEMMA PrefixSet ==
  ASSUME NEW S, NEW s \in Seq(S), NEW n \in 0..Len(s)
  PROVE  /\ \A i \in 1..n : SubSeq(s, 1, n)[i] = s[i]
         /\ DOMAIN SubSeq(s, 1, n) = 1..n
         /\ n = Len(s) => SubSeq(s, 1, n) = s
OBVIOUS

(* What a prefix of a sorted pool leaves out scores no higher than it.     *)
LEMMA DroppedAreWeaker ==
  ASSUME NEW rows, Rows(rows), \A i \in rows : i.type \in ReadTypes,
         NEW pool \in Seq(rows), IsInjective(pool), NEW req, NEW n \in 0..Len(pool),
         NEW d \in ToSet(pool) \ ToSet(SubSeq(Calibrated(pool, req), 1, n)),
         NEW x \in ToSet(SubSeq(Calibrated(pool, req), 1, n))
  PROVE  ScoreOf(d, pool, req) <= ScoreOf(x, pool, req)
<1> DEFINE s == Calibrated(pool, req)
<1>1. /\ s \in Seq(rows) /\ ToSet(s) = ToSet(pool) /\ Len(s) = Len(pool)
      /\ \A i, j \in 1..Len(s) : i < j => ScoreOf(s[j], pool, req) <= ScoreOf(s[i], pool, req)
  BY Reordered
<1> HIDE DEF s
<1>2. DOMAIN s = 1..Len(s) /\ Len(s) \in Nat
  BY <1>1
<1>3. (\A i \in 1..n : SubSeq(s, 1, n)[i] = s[i]) /\ DOMAIN SubSeq(s, 1, n) = 1..n
  BY <1>1, PrefixSet
<1>4. PICK i \in 1..n : s[i] = x
  BY <1>3 DEF ToSet, s
<1>5. PICK j \in 1..Len(s) : s[j] = d
  BY <1>1, <1>2 DEF ToSet
<1>6. j \notin 1..n
  BY <1>3, <1>5 DEF ToSet, s
<1>7. i < j /\ i \in 1..Len(s)
  BY <1>1, <1>2, <1>6
<1> QED BY <1>1, <1>4, <1>5, <1>7

(***************************************************************************)
(* One run of the pipeline accounts for the rows it has read.              *)
(***************************************************************************)

(* NothingIsSilentlyLost and DropsTheWeakest, of a result o. *)
Counted(o) ==
  (o.status = "READY" /\ o.set.primary \o o.set.supporting # <<>>) =>
    LET shown == ToSet(o.set.primary) \cup ToSet(o.set.supporting)
        eligible == {i \in o.read : Eligible(i, Ceiling)}
    IN shown \subseteq eligible /\ Cardinality(shown) + o.omitted = Cardinality(eligible)
Weakest(o) ==
  (o.status = "READY" /\ o.set.reason = "EVIDENCE_READY") =>
    LET chosen == Select({i \in o.read : Eligible(i, Ceiling)}, RouteOf(o.req))
        dropped(s, t) == ToSet(s) \ ToSet(t)
        weakest(s, t) == \A d \in dropped(s, t), k \in ToSet(t) : ScoreOf(d, s, o.req) <= ScoreOf(k, s, o.req)
    IN /\ weakest(chosen.primary, o.set.primary) /\ weakest(chosen.supporting, o.set.supporting)
       /\ dropped(chosen.primary, o.set.primary) # {} => o.set.supporting = <<>>

(* The property of EvidenceIsAccounted, of the last result.                *)
LEMMA AccountedByResult ==
  (out # None => Counted(out) /\ Weakest(out)) => EvidenceIsAccounted
BY DEF EvidenceIsAccounted, NothingIsSilentlyLost, DropsTheWeakest, Counted, Weakest

(* What the pipeline makes of the rows that its reads gave. *)
LEMMA InjectionAccounts ==
  ASSUME NEW read, Rows(read), \A i \in read : i.type \in ReadTypes, NEW req, NEW b
  PROVE  LET shown == Render(EvidenceSet(read, req, Ceiling))
             o == Result(b, shown.status, read, shown.set, shown.omitted, req)
         IN  Counted(o) /\ Weakest(o)
<1> DEFINE es == EvidenceSet(read, req, Ceiling)
           shown == Render(es)
           o == Result(b, shown.status, read, shown.set, shown.omitted, req)
           rows == {i \in read : Eligible(i, Ceiling)}
           route == RouteOf(req)
           chosen == Select(rows, route)
           P == Calibrated(chosen.primary, req)
           Q == Calibrated(chosen.supporting, req)
<1> SUFFICES Counted(o) /\ Weakest(o)
  OBVIOUS
<1>1. o.status = shown.status /\ o.read = read /\ o.set = shown.set /\ o.omitted = shown.omitted /\ o.req = req
  BY DEF Result
<1>2. CASE shown.status # "READY"
  BY <1>1, <1>2 DEF Counted, Weakest
<1>3. CASE shown.status = "READY" /\ rows = {}
  <2>1. es = EmptySet("INSUFFICIENT_EVIDENCE")
    BY <1>3 DEF EvidenceSet
  <2>2. /\ {"primary", "supporting", "reason"} \subseteq DOMAIN es /\ es.primary = <<>> /\ es.supporting = <<>>
        /\ es.reason = "INSUFFICIENT_EVIDENCE"
    BY <2>1 DEF EmptySet
  <2>3. es.primary \in Seq({}) /\ es.supporting \in Seq({}) /\ Len(es.primary) = 0 /\ Len(es.supporting) = 0
    BY <2>2
  <2> HIDE DEF es
  <2>4. PICK m \in 0..Len(es.primary), n \in 0..Len(es.supporting) :
           /\ Render(es).set.primary = SubSeq(es.primary, 1, m)
           /\ Render(es).set.supporting = SubSeq(es.supporting, 1, n)
           /\ Render(es).set.reason = es.reason
    BY <1>3, <2>2, <2>3, Rendered
  <2>5. shown.set.primary = <<>> /\ shown.set.supporting = <<>> /\ shown.set.reason # "EVIDENCE_READY"
    BY <2>2, <2>3, <2>4
  <2>6. shown.set.primary \o shown.set.supporting = <<>>
    BY <2>5
  <2> HIDE DEF shown, o
  <2> QED BY <1>1, <2>5, <2>6 DEF Counted, Weakest
<1>4. CASE shown.status = "READY" /\ rows # {}
  <2>1. Rows(rows) /\ Cardinality(rows) \in Nat /\ \A i \in rows : i.type \in ReadTypes
    BY SomeRows
  <2>2. /\ {"primary", "supporting", "reason"} \subseteq DOMAIN es /\ es.primary = P /\ es.supporting = Q
        /\ es.reason = "EVIDENCE_READY" /\ es.omitted = chosen.omitted
    <3> HIDE DEF chosen
    <3>1. es = Enrich([primary |-> chosen.primary, supporting |-> chosen.supporting, conflicts |-> Conflicts(rows),
                       omitted |-> chosen.omitted, metadata |-> <<>>, reason |-> "EVIDENCE_READY"], req)
      BY <1>4 DEF EvidenceSet, chosen
    <3> QED BY <3>1 DEF Enrich
  <2> HIDE DEF rows
  <2>3. /\ chosen.primary \in Seq(rows) /\ IsInjective(chosen.primary)
        /\ \A i \in ToSet(chosen.primary) : IsPrimary(i, route)
        /\ chosen.supporting \in Seq(rows) /\ IsInjective(chosen.supporting)
        /\ \A i \in ToSet(chosen.supporting) : ~IsPrimary(i, route)
        /\ chosen.omitted = Cardinality(rows) - Len(chosen.primary) - Len(chosen.supporting)
    BY <2>1, Selected
  <2> HIDE DEF chosen, es, route
  <2>4. /\ P \in Seq(rows) /\ IsInjective(P) /\ ToSet(P) = ToSet(chosen.primary) /\ Len(P) = Len(chosen.primary)
        /\ Q \in Seq(rows) /\ IsInjective(Q) /\ ToSet(Q) = ToSet(chosen.supporting) /\ Len(Q) = Len(chosen.supporting)
    BY <2>1, <2>3, Reordered
  <2>5. PICK m \in 0..Len(P), n \in 0..Len(Q) :
           /\ shown.set.primary = SubSeq(P, 1, m) /\ shown.set.supporting = SubSeq(Q, 1, n)
           /\ shown.set.reason = "EVIDENCE_READY"
           /\ shown.omitted = chosen.omitted + (Len(P) + Len(Q) - m - n)
           /\ m # Len(P) => n = 0
    <3> HIDE DEF P, Q
    <3> QED BY <1>4, <2>2, <2>4, Rendered
  <2> HIDE DEF shown
  <2> DEFINE A == ToSet(SubSeq(P, 1, m))  B == ToSet(SubSeq(Q, 1, n))
  <2>6. Counted(o)
    <3> HIDE DEF P, Q
    <3>1. m \in Nat /\ n \in Nat /\ Len(P) \in Int /\ Len(Q) \in Int
      BY <2>4
    <3>2. IsFiniteSet(A) /\ Cardinality(A) = m /\ A \subseteq ToSet(P) /\ A \subseteq rows
      <4> DEFINE p == SubSeq(P, 1, m)
      <4>1. p \in Seq(rows) /\ Len(p) = m /\ IsInjective(p) /\ ToSet(p) \subseteq ToSet(P)
        BY <2>4, PrefixOnce
      <4> HIDE DEF p
      <4>2. IsFiniteSet(ToSet(p)) /\ Cardinality(ToSet(p)) = m /\ ToSet(p) \subseteq rows
        BY <4>1, CountedOnce
      <4> QED BY <4>1, <4>2 DEF p
    <3>3. IsFiniteSet(B) /\ Cardinality(B) = n /\ B \subseteq ToSet(Q) /\ B \subseteq rows
      <4> DEFINE q == SubSeq(Q, 1, n)
      <4>1. q \in Seq(rows) /\ Len(q) = n /\ IsInjective(q) /\ ToSet(q) \subseteq ToSet(Q)
        BY <2>4, PrefixOnce
      <4> HIDE DEF q
      <4>2. IsFiniteSet(ToSet(q)) /\ Cardinality(ToSet(q)) = n /\ ToSet(q) \subseteq rows
        BY <4>1, CountedOnce
      <4> QED BY <4>1, <4>2 DEF q
    <3>4. A \cap B = {}
      BY <2>3, <2>4, <3>2, <3>3
    <3>5. Cardinality(A \cup B) + shown.omitted = Cardinality(rows)
      <4> HIDE DEF A, B
      <4>1. Cardinality(A \cup B) = Cardinality(A) + Cardinality(B) - Cardinality(A \cap B)
        BY <3>2, <3>3, FS_Union
      <4>2. Cardinality(A \cap B) = 0
        BY <3>4, FS_EmptySet
      <4>3. Cardinality(A) = m /\ Cardinality(B) = n
        BY <3>2, <3>3
      <4>4. Cardinality(A \cup B) = m + n
        BY <3>1, <4>1, <4>2, <4>3
      <4>5. chosen.omitted = Cardinality(rows) - Len(P) - Len(Q)
        BY <2>3, <2>4
      <4>6. shown.omitted = chosen.omitted + (Len(P) + Len(Q) - m - n)
        BY <2>5
      <4>7. Cardinality(rows) \in Int
        BY <2>1
      <4> HIDE DEF rows
      <4> QED BY <3>1, <4>4, <4>5, <4>6, <4>7
    <3>6. ToSet(o.set.primary) = A /\ ToSet(o.set.supporting) = B
      BY <1>1, <2>5 DEF A, B
    <3> HIDE DEF o
    <3> HIDE DEF A, B
    <3> QED BY <1>1, <3>2, <3>3, <3>5, <3>6 DEF Counted, rows
  <2>7. /\ \A d \in ToSet(chosen.primary) \ A, k \in A : ScoreOf(d, chosen.primary, req) <= ScoreOf(k, chosen.primary, req)
        /\ \A d \in ToSet(chosen.supporting) \ B, k \in B : ScoreOf(d, chosen.supporting, req) <= ScoreOf(k, chosen.supporting, req)
    BY <2>1, <2>3, <2>4, DroppedAreWeaker
  <2>8. ToSet(chosen.primary) \ A # {} => shown.set.supporting = <<>>
    <3> HIDE DEF P, Q
    <3>1. CASE m = Len(P)
      <4>1. A = ToSet(P)
        BY <2>4, <3>1, PrefixSet
      <4> QED BY <2>4, <4>1
    <3>2. CASE m # Len(P)
      <4>1. SubSeq(Q, 1, 0) = <<>>
        BY <2>4
      <4> QED BY <2>5, <3>2, <4>1
    <3> QED BY <3>1, <3>2
  <2>9. Weakest(o)
    <3>1. o.set.primary = SubSeq(P, 1, m) /\ o.set.supporting = SubSeq(Q, 1, n) /\ o.req = req
          /\ Select({i \in o.read : Eligible(i, Ceiling)}, RouteOf(o.req)) = chosen
      BY <1>1, <2>5 DEF chosen, rows, route
    <3> HIDE DEF o, P, Q
    <3> QED BY <1>1, <2>7, <2>8, <3>1 DEF Weakest
  <2> QED BY <2>6, <2>9
<1> QED BY <1>2, <1>3, <1>4

(***************************************************************************)
(* What a read gives, and what the boundary keeps of the evidence: rows in the *)
(* stores, deliveries that are known, rows of the reads made in the pipeline. *)
(***************************************************************************)

(* A read gives rows of its type. *)
LEMMA ReadGives ==
  ASSUME NEW S, Rows(S), NEW type, NEW req
  PROVE  Read(type, S, req) \subseteq {i \in S : i.type = type}
<1> DEFINE live == {i \in S : i.type = type /\ i.life # "deleted" /\ RouteMatches(i, req)}
           key == [i \in live |-> <<Rank(i.at), i.id>>]
<1>1. Rows(live)
  BY SomeRows
<1>2. ASSUME NEW i \in live PROVE key[i] \in [1..2 -> Int] /\ key[i][2] = i.id
  <2>1. Rank(i.at) \in Int /\ i.id \in Int
    BY RankIsNumber DEF Rows, Ranked
  <2> QED BY <2>1
<1>3. key \in [live -> [1..2 -> Int]]
  <2>1. key = [i \in live |-> key[i]]
    OBVIOUS
  <2> QED BY <1>2, <2>1
<1>4. \A i, j \in live : key[i] = key[j] => i = j
  <2> SUFFICES ASSUME NEW i \in live, NEW j \in live, key[i] = key[j] PROVE i = j
    OBVIOUS
  <2>1. i.id = j.id
    BY <1>2
  <2> QED BY <2>1 DEF Rows, Resource
<1>5. Read(type, S, req) = ToSet(Take(SortedBy(live, key), PageLimit))
  BY DEF Read, FirstPage
<1>6. live \subseteq {i \in S : i.type = type}
  OBVIOUS
<1> HIDE DEF live, key
<1>7. LET s == SortedBy(live, key) IN s \in Seq(live) /\ IsInjective(s) /\ ToSet(s) = live
  BY <1>1, <1>3, <1>4, SortedOnce DEF Rows
<1>8. PageLimit \in Nat
  BY BudgetAssumption
<1>9. ToSet(Take(SortedBy(live, key), PageLimit)) \subseteq live
  BY <1>7, <1>8, TakenOnce
<1> QED BY <1>5, <1>6, <1>9

(* A route reads a type once. *)
LEMMA ReadsOnce ==
  ASSUME NEW req
  PROVE  Reads(req) \in Seq(ReadTypes) /\ IsInjective(Reads(req))
<1> DEFINE corpus == IF req.text THEN <<"corpus_unit">> ELSE <<>>
           project == <<"charter", "requirement", "decision", "state", "verification", "artifact">>
<1>1. \/ Reads(req) = project \o corpus
      \/ Reads(req) = <<"event">> \o corpus
      \/ Reads(req) = <<>> \o corpus
  BY DEF Reads
<1>2. ASSUME NEW memory \in {project, <<"event">>, <<>>}
      PROVE  memory \o corpus \in Seq(ReadTypes) /\ IsInjective(memory \o corpus)
  <2>1. memory \in Seq(ReadTypes) /\ Len(memory) \in Nat /\ \A i, j \in 1..Len(memory) : memory[i] = memory[j] => i = j
    <3>1. CASE memory = project
      <4>1. project \in Seq(ReadTypes)
        BY DEF ReadTypes
      <4>2. Len(project) = 6
        OBVIOUS
      <4>3. \A i, j \in 1..6 : project[i] = project[j] => i = j
        OBVIOUS
      <4> HIDE DEF project
      <4> QED BY <3>1, <4>1, <4>2, <4>3
    <3>2. CASE memory = <<"event">>
      BY <3>2 DEF ReadTypes
    <3>3. CASE memory = <<>>
      BY <3>3
    <3> QED BY <3>1, <3>2, <3>3
  <2>2. \A i \in 1..Len(memory) : memory[i] # "corpus_unit"
    OBVIOUS
  <2>3. corpus \in Seq(ReadTypes) /\ Len(corpus) \in 0..1 /\ \A i \in 1..Len(corpus) : i = 1 /\ corpus[i] = "corpus_unit"
    <3>1. CASE corpus = <<"corpus_unit">>
      <4>1. <<"corpus_unit">> \in Seq(ReadTypes) /\ Len(<<"corpus_unit">>) = 1
        BY DEF ReadTypes
      <4>2. \A i \in 1..1 : i = 1 /\ <<"corpus_unit">>[i] = "corpus_unit"
        OBVIOUS
      <4> HIDE DEF corpus
      <4> QED BY <3>1, <4>1, <4>2
    <3>2. CASE corpus = <<>>
      <4> HIDE DEF corpus
      <4> QED BY <3>2
    <3> QED BY <3>1, <3>2
  <2> HIDE DEF corpus
  <2>4. memory \o corpus \in Seq(ReadTypes) /\ Len(memory \o corpus) = Len(memory) + Len(corpus)
    BY <2>1, <2>3
  <2>5. \A i \in 1..(Len(memory) + Len(corpus)) :
          (memory \o corpus)[i] = IF i <= Len(memory) THEN memory[i] ELSE corpus[i - Len(memory)]
    BY <2>1, <2>3
  <2>6. ASSUME NEW i \in 1..(Len(memory) + Len(corpus)), NEW j \in 1..(Len(memory) + Len(corpus)),
               (memory \o corpus)[i] = (memory \o corpus)[j]
        PROVE  i = j
    <3>1. i <= Len(memory) => i \in 1..Len(memory)
      BY <2>1
    <3>2. j <= Len(memory) => j \in 1..Len(memory)
      BY <2>1
    <3>3. ~(i <= Len(memory)) => i = Len(memory) + 1 /\ (memory \o corpus)[i] = "corpus_unit"
      BY <2>1, <2>3, <2>5
    <3>4. ~(j <= Len(memory)) => j = Len(memory) + 1 /\ (memory \o corpus)[j] = "corpus_unit"
      BY <2>1, <2>3, <2>5
    <3> QED BY <2>1, <2>2, <2>5, <2>6, <3>1, <3>2, <3>3, <3>4
  <2>7. DOMAIN (memory \o corpus) = 1..(Len(memory) + Len(corpus))
    BY <2>4
  <2> QED BY <2>4, <2>6, <2>7 DEF IsInjective
<1> QED BY <1>1, <1>2

-----------------------------------------------------------------------------
(* The inductive invariant of the evidence: what is stored are rows, what  *)
(* the pipeline has read are rows of the types it has read already.        *)
StoresHoldRows ==
  /\ DOMAIN items = Boundaries /\ DOMAIN canon = Boundaries
  /\ \A b \in Boundaries : Rows(items[b]) /\ \A c \in canon[b] : Ranked(c)

DeliveriesAreKnown ==
  /\ "calls" \in DOMAIN used /\ used.calls \in 0..MaxHostCalls
  /\ hooking # None => hooking.event \in HostEvents

PipelineHoldsRows ==
  pipe # None =>
    /\ {"boundary", "gen", "req", "todo", "got"} \subseteq DOMAIN pipe
    /\ pipe.boundary \in Boundaries
    /\ pipe.todo \in Seq(ReadTypes) /\ IsInjective(pipe.todo)
    /\ Rows(pipe.got) /\ \A i \in pipe.got : i.type \in ReadTypes \ ToSet(pipe.todo)

EvidenceInv ==
  /\ StoresHoldRows /\ DeliveriesAreKnown /\ PipelineHoldsRows
  /\ out # None => Counted(out) /\ Weakest(out)

(* The stores start with the rows of Memory, and nothing runs.             *)
LEMMA EvidenceInit == HermesInit => EvidenceInv
<1> SUFFICES ASSUME HermesInit PROVE EvidenceInv
  OBVIOUS
<1>1. Rows(Memory)
  BY MemoryAssumption DEF Rows
<1>2. StoresHoldRows
  BY <1>1 DEF HermesInit, StoresHoldRows
<1>3. DeliveriesAreKnown
  BY IdentityAssumption DEF HermesInit, DeliveriesAreKnown
<1> QED BY <1>2, <1>3 DEF HermesInit, EvidenceInv, PipelineHoldsRows

(* Rows of different types are rows together.                              *)
LEMMA RowsTogether ==
  ASSUME NEW S, NEW T, Rows(S), Rows(T), \A i \in S, j \in T : i.type # j.type
  PROVE  Rows(S \cup T)
<1>1. IsFiniteSet(S \cup T)
  BY FS_Union DEF Rows
<1> QED BY <1>1 DEF Rows, Resource

(* A row of a new identity may be added to the rows.                       *)
LEMMA RowPut ==
  ASSUME NEW S, NEW r, Rows(S), Ranked(r), \A i \in S : Resource(i) # Resource(r)
  PROVE  Rows(S \cup {r})
<1>1. IsFiniteSet(S \cup {r})
  BY FS_AddElement DEF Rows
<1> QED BY <1>1 DEF Rows

(***************************************************************************)
(* Every step of the boundary, of its host and of the other writers.       *)
(***************************************************************************)

(* What a boundary call leaves alone. *)
LEMMA CallsLeaveEvidence ==
  ASSUME NEW b \in Boundaries, Step(b) \/ Shutdown(b) \/ (\E ctx \in Contexts : Register(b, ctx)),
         "calls" \in DOMAIN used
  PROVE  UNCHANGED <<canon, items, hooking, pipe, out>> /\ "calls" \in DOMAIN used' /\ used'.calls = used.calls
<1>1. CASE Shutdown(b) \/ \E ctx \in Contexts : Register(b, ctx)
  BY <1>1 DEF Shutdown, Register, Spend, stores, host
<1>2. CASE Step(b)
  <2>1. Rest => UNCHANGED <<canon, items, hooking, pipe, out, used>>
    BY DEF Rest, stores, host
  <2>2. Fault => UNCHANGED <<canon, items, hooking, pipe, out>> /\ used' = [used EXCEPT !.faults = @ + 1]
    BY DEF Fault, stores, host
  <2>3. Rest \/ Fault
    BY <1>2 DEF Step, Gate, Disable, Forget, CloseReader, CloseCapture, CloseInjector, Look,
            OpenCapture, ReopenCapture, Hook, NewReader, RestartReader, Injector, Finish
  <2> QED BY <2>1, <2>2, <2>3
<1> QED BY <1>1, <1>2

(* Every step keeps the deliveries known: a call is counted before it is made. *)
LEMMA DeliveriesStep == ASSUME EvidenceInv, [HermesNext]_hermesVars PROVE DeliveriesAreKnown'
<1>1. "calls" \in DOMAIN used /\ used.calls \in 0..MaxHostCalls /\ (hooking # None => hooking.event \in HostEvents)
      /\ MaxHostCalls \in Nat
  BY IdentityAssumption DEF EvidenceInv, DeliveriesAreKnown
<1>2. ASSUME used.calls < MaxHostCalls, Spend("calls") PROVE "calls" \in DOMAIN used' /\ used'.calls \in 0..MaxHostCalls
  BY <1>1, <1>2 DEF Spend
<1>3. CASE UNCHANGED hooking /\ "calls" \in DOMAIN used' /\ used'.calls = used.calls
  BY <1>1, <1>3 DEF DeliveriesAreKnown
<1>4. ASSUME NEW b \in Boundaries, NEW g \in DOMAIN gens[b], NEW e \in HostEvents, HookCalled(b, g, e)
      PROVE  DeliveriesAreKnown'
  <2>1. hooking'.event = e
    BY <1>4 DEF HookCalled
  <2> QED BY <1>2, <1>4, <2>1 DEF HookCalled, DeliveriesAreKnown
<1>5. ASSUME NEW b \in Boundaries, NEW g \in DOMAIN gens[b],
             (\E call \in ToolCalls : ToolCalled(b, g, call)) \/ \E req \in Requests : InjectionCalled(b, g, req)
      PROVE  DeliveriesAreKnown'
  <2>1. used.calls < MaxHostCalls /\ Spend("calls") /\ hooking' = hooking
    BY <1>5 DEF ToolCalled, InjectionCalled
  <2> QED BY <1>1, <1>2, <2>1 DEF DeliveriesAreKnown
<1>6. CASE Observe
  BY <1>1, <1>6 DEF Observe, DeliveriesAreKnown
<1>7. CASE RetrieveNext
  BY <1>1, <1>3, <1>7 DEF RetrieveNext
<1>8. CASE \E b \in Boundaries : Project(b) \/ \E r \in Rewrites : Rewrite(b, r)
  BY <1>1, <1>3, <1>8 DEF Project, Rewrite, Spend, host
<1>9. CASE ToolAnswered \/ Inject \/ Taken
  BY <1>1, <1>3, <1>9 DEF ToolAnswered, Inject, Taken
<1>10. CASE (\E enabled \in BOOLEAN : SetGate(enabled)) \/ \E e \in Envs : SetEnv(e)
  BY <1>1, <1>3, <1>10 DEF SetGate, SetEnv, Spend, host
<1>11. CASE UNCHANGED hermesVars
  BY <1>1, <1>3, <1>11 DEF hermesVars
<1>12. ASSUME NEW b \in Boundaries, Step(b) \/ Shutdown(b) \/ (\E ctx \in Contexts : Register(b, ctx))
       PROVE  DeliveriesAreKnown'
  BY <1>1, <1>3, <1>12, CallsLeaveEvidence
<1> QED BY <1>4, <1>5, <1>6, <1>7, <1>8, <1>9, <1>10, <1>11, <1>12 DEF HermesNext, Host

(* Every step keeps the stores rows: a capture, a projection and a rewrite *)
(* add one row, of an identity that is not there or in place of its own.   *)
LEMMA StoresStep == ASSUME EvidenceInv, [HermesNext]_hermesVars PROVE StoresHoldRows'
<1>1. StoresHoldRows
  BY DEF EvidenceInv
<1>2. CASE UNCHANGED <<canon, items>>
  BY <1>1, <1>2 DEF StoresHoldRows
<1>3. CASE Observe
  <2> DEFINE b == hooking.boundary  e == hooking.event
  <2>1. Ranked(Captured(e))
    <3>1. used.calls \in 0..MaxHostCalls /\ e \in HostEvents
      BY <1>3 DEF Observe, EvidenceInv, DeliveriesAreKnown
    <3>2. RankOf(EventIdentity(e)) \in Int /\ Now \in Int
      BY <3>1, IdentityAssumption DEF EventIdentity
    <3> HIDE DEF e
    <3> QED BY <3>2 DEF Captured, Ranked
  <2>2. items' = items /\ (canon' = canon \/ canon' = [canon EXCEPT ![b] = Appended(b, e)])
    BY <1>3 DEF Observe
  <2>3. Appended(b, e) = canon[b] \/ Appended(b, e) = canon[b] \cup {Captured(e)}
    BY DEF Appended
  <2> HIDE DEF b, e
  <2>4. ASSUME NEW d \in Boundaries, NEW c \in canon'[d] PROVE Ranked(c)
    <3>1. c \in canon[d] \/ c = Captured(e)
      BY <1>1, <2>2, <2>3 DEF StoresHoldRows
    <3> QED BY <1>1, <2>1, <3>1 DEF StoresHoldRows
  <2>5. DOMAIN canon' = Boundaries
    BY <1>1, <2>2 DEF StoresHoldRows
  <2> QED BY <1>1, <2>2, <2>4, <2>5 DEF StoresHoldRows
<1>4. ASSUME NEW b \in Boundaries, Project(b) PROVE StoresHoldRows'
  <2>1. PICK c \in canon[b] : (\A i \in items[b] : Resource(i) # Resource(c)) /\ items' = [items EXCEPT ![b] = @ \cup {c}]
    BY <1>4 DEF Project
  <2>2. Rows(items[b] \cup {c})
    BY <1>1, <2>1, RowPut DEF StoresHoldRows
  <2>3. canon' = canon
    BY <1>4 DEF Project
  <2> QED BY <1>1, <2>1, <2>2, <2>3 DEF StoresHoldRows
<1>5. ASSUME NEW b \in Boundaries, NEW r \in Rewrites, Rewrite(b, r) PROVE StoresHoldRows'
  <2> DEFINE kept == {i \in items[b] : Resource(i) # Resource(r)}
  <2>1. items' = [items EXCEPT ![b] = kept \cup {r}] /\ canon' = canon
    BY <1>5 DEF Rewrite
  <2>2. Rows(kept)
    BY <1>1, SomeRows DEF StoresHoldRows
  <2>3. Ranked(r) /\ \A i \in kept : Resource(i) # Resource(r)
    BY MemoryAssumption
  <2> HIDE DEF kept
  <2>4. Rows(kept \cup {r})
    BY <2>2, <2>3, RowPut
  <2> QED BY <1>1, <2>1, <2>4 DEF StoresHoldRows
<1>6. ASSUME NEW b \in Boundaries, Step(b) \/ Shutdown(b) \/ (\E ctx \in Contexts : Register(b, ctx))
      PROVE  UNCHANGED <<canon, items>>
  BY <1>6, CallsLeaveEvidence DEF EvidenceInv, DeliveriesAreKnown
<1>7. ASSUME NEW b \in Boundaries, Host(b) PROVE UNCHANGED <<canon, items>>
  BY <1>7 DEF Host, HookCalled, ToolCalled, InjectionCalled, stores
<1>8. CASE ToolAnswered \/ RetrieveNext \/ Inject \/ Taken \/ (\E enabled \in BOOLEAN : SetGate(enabled)) \/ \E e \in Envs : SetEnv(e)
  BY <1>2, <1>8 DEF ToolAnswered, RetrieveNext, Inject, Taken, SetGate, SetEnv, stores
<1>9. CASE UNCHANGED hermesVars
  BY <1>2, <1>9 DEF hermesVars, stores
<1> QED BY <1>2, <1>3, <1>4, <1>5, <1>6, <1>7, <1>8, <1>9 DEF HermesNext

(* Every step keeps what the pipeline has read rows, and each result that it *)
(* leaves accounts for what was read.                                      *)
LEMMA PipelineStep ==
  ASSUME EvidenceInv, [HermesNext]_hermesVars
  PROVE  PipelineHoldsRows' /\ (out' # None => Counted(out') /\ Weakest(out'))
<1>1. PipelineHoldsRows /\ (out # None => Counted(out) /\ Weakest(out))
  BY DEF EvidenceInv
<1>2. CASE UNCHANGED <<pipe, out>>
  <2>1. PipelineHoldsRows'
    BY <1>1, <1>2 DEF PipelineHoldsRows
  <2>2. out' = out
    BY <1>2
  <2> QED BY <1>1, <2>1, <2>2
<1>3. CASE Taken
  <2>1. PipelineHoldsRows'
    BY <1>1, <1>3 DEF PipelineHoldsRows, Taken
  <2> QED BY <1>3, <2>1 DEF Taken
<1>4. ASSUME NEW b \in Boundaries, NEW g \in DOMAIN gens[b], NEW req \in Requests, InjectionCalled(b, g, req)
      PROVE  PipelineHoldsRows' /\ (out' # None => Counted(out') /\ Weakest(out'))
  <2>1. CASE RouteOf(req) = "external_current"
    <3> DEFINE o == Result(b, Render(EmptySet("EXTERNAL_CURRENT_REQUIRED")).status, {}, EmptySet("EXTERNAL_CURRENT_REQUIRED"), 0, req)
    <3>1. out' = o /\ pipe' = pipe
      BY <1>4, <2>1 DEF InjectionCalled
    <3>2. o.set.primary = <<>> /\ o.set.supporting = <<>> /\ o.set.reason # "EVIDENCE_READY"
      BY DEF Result, EmptySet
    <3>3. o.set.primary \o o.set.supporting = <<>>
      BY <3>2
    <3> HIDE DEF o
    <3>4. Counted(o) /\ Weakest(o)
      BY <3>2, <3>3 DEF Counted, Weakest
    <3>5. PipelineHoldsRows'
      BY <1>1, <3>1 DEF PipelineHoldsRows
    <3> QED BY <3>1, <3>4, <3>5
  <2>2. CASE RouteOf(req) # "external_current"
    <3>1. out' = out /\ pipe' = [boundary |-> b, gen |-> g, req |-> req, todo |-> Reads(req), got |-> {}]
      BY <1>4, <2>2 DEF InjectionCalled
    <3>2. Rows({})
      BY FS_EmptySet DEF Rows
    <3>3. {"boundary", "gen", "req", "todo", "got"} \subseteq DOMAIN pipe' /\ pipe'.boundary = b /\ pipe'.todo = Reads(req) /\ pipe'.got = {}
      BY <3>1
    <3>4. PipelineHoldsRows'
      BY <3>2, <3>3, ReadsOnce DEF PipelineHoldsRows
    <3> QED BY <1>1, <3>1, <3>4
  <2> QED BY <2>1, <2>2
<1>5. CASE RetrieveNext
  <2> DEFINE todo == pipe.todo  got == pipe.got  new == Read(Head(todo), items[pipe.boundary], pipe.req)
  <2>1. /\ pipe # None /\ todo # <<>> /\ out' = out
        /\ pipe' = [pipe EXCEPT !.todo = Tail(@), !.got = @ \cup new] \/ pipe' = [pipe EXCEPT !.todo = Tail(@)]
    BY <1>5 DEF RetrieveNext
  <2>2. /\ {"boundary", "gen", "req", "todo", "got"} \subseteq DOMAIN pipe /\ pipe.boundary \in Boundaries
        /\ todo \in Seq(ReadTypes) /\ IsInjective(todo)
        /\ Rows(got) /\ \A i \in got : i.type \in ReadTypes \ ToSet(todo)
    BY <1>1, <2>1 DEF PipelineHoldsRows
  <2>3. /\ Tail(todo) \in Seq(ReadTypes) /\ IsInjective(Tail(todo)) /\ Head(todo) \in ReadTypes
        /\ ToSet(Tail(todo)) \subseteq ToSet(todo) /\ Head(todo) \in ToSet(todo) \ ToSet(Tail(todo))
    <3> HIDE DEF todo
    <3>1. Len(todo) \in Nat /\ Len(todo) > 0 /\ DOMAIN todo = 1..Len(todo) /\ Head(todo) = todo[1]
      BY <2>1, <2>2
    <3>2. Tail(todo) \in Seq(ReadTypes) /\ Len(Tail(todo)) = Len(todo) - 1
      BY <2>1, <2>2
    <3>3. \A i \in 1..(Len(todo) - 1) : Tail(todo)[i] = todo[i + 1]
      BY <2>1, <2>2
    <3>4. DOMAIN Tail(todo) = 1..(Len(todo) - 1)
      BY <3>2
    <3>5. \A i \in 1..(Len(todo) - 1) : i + 1 \in 1..Len(todo) /\ i + 1 # 1
      BY <3>1
    <3>6. \A i, j \in 1..Len(todo) : todo[i] = todo[j] => i = j
      BY <2>2, <3>1 DEF IsInjective
    <3>7. IsInjective(Tail(todo))
      <4> SUFFICES ASSUME NEW i \in 1..(Len(todo) - 1), NEW j \in 1..(Len(todo) - 1), Tail(todo)[i] = Tail(todo)[j]
                   PROVE  i = j
        BY <3>4 DEF IsInjective
      <4>1. i + 1 = j + 1
        BY <3>3, <3>5, <3>6
      <4> QED BY <4>1
    <3>8. 1 \in 1..Len(todo)
      BY <3>1
    <3>9. ToSet(Tail(todo)) \subseteq ToSet(todo) /\ Head(todo) \in ToSet(todo)
      BY <3>1, <3>3, <3>4, <3>5, <3>8 DEF ToSet
    <3>10. Head(todo) \notin ToSet(Tail(todo))
      BY <3>1, <3>3, <3>4, <3>5, <3>6, <3>8 DEF ToSet
    <3>11. Head(todo) \in ReadTypes
      BY <2>2, <3>1, <3>8
    <3> QED BY <3>2, <3>7, <3>9, <3>10, <3>11
  <2>4. new \subseteq {i \in items[pipe.boundary] : i.type = Head(todo)} /\ Rows(items[pipe.boundary])
    BY <2>2, ReadGives DEF EvidenceInv, StoresHoldRows
  <2>5. Rows(got \cup new) /\ \A i \in got \cup new : i.type \in ReadTypes \ ToSet(Tail(todo))
    <3> HIDE DEF new, got, todo
    <3>1. Rows(new)
      BY <2>4, SomeRows
    <3>2. \A i \in got, j \in new : i.type # j.type
      BY <2>2, <2>3, <2>4
    <3> QED BY <2>2, <2>3, <2>4, <3>1, <3>2, RowsTogether
  <2>6. /\ {"boundary", "gen", "req", "todo", "got"} \subseteq DOMAIN pipe' /\ pipe'.boundary = pipe.boundary
        /\ pipe'.todo = Tail(todo) /\ (pipe'.got = got \/ pipe'.got = got \cup new)
    <3> HIDE DEF new
    <3> QED BY <2>1, <2>2
  <2>7. PipelineHoldsRows'
    <3> HIDE DEF new, got, todo
    <3>1. \A i \in got : i.type \in ReadTypes \ ToSet(Tail(todo))
      BY <2>2, <2>3
    <3> QED BY <2>2, <2>3, <2>5, <2>6, <3>1 DEF PipelineHoldsRows
  <2> QED BY <1>1, <2>1, <2>7
<1>6. CASE Inject
  <2> DEFINE es == EvidenceSet(pipe.got, pipe.req, Ceiling)  shown == Render(es)
             no == Result(pipe.boundary, "REFUSED", pipe.got, EmptySet("VALIDATION_FAILED"), 0, pipe.req)
             yes == Result(pipe.boundary, shown.status, pipe.got, shown.set, shown.omitted, pipe.req)
  <2>1. pipe # None /\ pipe' = None /\ (out' = no \/ out' = yes)
    BY <1>6 DEF Inject
  <2>2. Rows(pipe.got) /\ \A i \in pipe.got : i.type \in ReadTypes
    BY <1>1, <2>1 DEF PipelineHoldsRows
  <2>3. Counted(yes) /\ Weakest(yes)
    BY <2>2, InjectionAccounts
  <2>4. no.status = "REFUSED"
    BY DEF Result
  <2> HIDE DEF no, yes
  <2>5. Counted(no) /\ Weakest(no)
    BY <2>4 DEF Counted, Weakest
  <2> QED BY <2>1, <2>3, <2>5 DEF PipelineHoldsRows
<1>7. ASSUME NEW b \in Boundaries, Step(b) \/ Shutdown(b) \/ (\E ctx \in Contexts : Register(b, ctx))
      PROVE  UNCHANGED <<pipe, out>>
  BY <1>7, CallsLeaveEvidence DEF EvidenceInv, DeliveriesAreKnown
<1>8. ASSUME NEW b \in Boundaries, NEW g \in DOMAIN gens[b],
             (\E e \in HostEvents : HookCalled(b, g, e)) \/ \E call \in ToolCalls : ToolCalled(b, g, call)
      PROVE  UNCHANGED <<pipe, out>>
  BY <1>8 DEF HookCalled, ToolCalled
<1>9. CASE Observe \/ ToolAnswered \/ (\E b \in Boundaries : Project(b) \/ \E r \in Rewrites : Rewrite(b, r))
           \/ (\E enabled \in BOOLEAN : SetGate(enabled)) \/ \E e \in Envs : SetEnv(e)
  BY <1>2, <1>9 DEF Observe, ToolAnswered, Project, Rewrite, SetGate, SetEnv, host
<1>10. CASE UNCHANGED hermesVars
  BY <1>2, <1>10 DEF hermesVars, host
<1> QED BY <1>2, <1>3, <1>4, <1>5, <1>6, <1>7, <1>8, <1>9, <1>10 DEF HermesNext, Host

(* What is stored and read are rows, and every result accounts for them.   *)
THEOREM EvidenceInvariance == HermesSpec => []EvidenceInv
<1>1. EvidenceInv /\ [HermesNext]_hermesVars => EvidenceInv'
  BY DeliveriesStep, StoresStep, PipelineStep DEF EvidenceInv
<1> QED BY <1>1, EvidenceInit, PTL DEF HermesSpec

(* The context that is injected tells of every eligible item that was read *)
(* and drops the ones that calibration scored lowest.                      *)
THEOREM EvidenceStaysAccounted == HermesSpec => []EvidenceIsAccounted
<1>1. EvidenceInv => EvidenceIsAccounted
  BY AccountedByResult DEF EvidenceInv
<1> QED BY <1>1, EvidenceInvariance, PTL

==============================================================================
