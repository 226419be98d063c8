---------------------------- MODULE CanonicalLog ----------------------------
(***************************************************************************)
(* What the canonical capture stream promises to everything built on it,   *)
(* whoever writes it and however they fail: one log of records, numbered   *)
(* from zero without gaps, holding no event and no content twice, of which *)
(* an acknowledged record is never lost.                                   *)
(*                                                                         *)
(* Capture.tla models the code (src/storage/jsonl_capture.py) and is shown *)
(* to implement this module.                                               *)
(***************************************************************************)
EXTENDS Naturals, Sequences

CONSTANTS EventIds,   \* event identities (envelope field event_id)
          Hashes      \* content identities (field sanitized_content_hash)

\* One canonical line, of whose payload only the two identities matter.
Record == [sequence : Nat, event_id : EventIds, content_hash : Hashes]

VARIABLES log,    \* the canonical records, in file order
          acked   \* the records some caller was told are appended

vars == <<log, acked>>

Fresh(id, h) == \A i \in DOMAIN log : log[i].event_id # id /\ log[i].content_hash # h

Init == log = <<>> /\ acked = {}

Commit(id, h) ==
    /\ Fresh(id, h)
    /\ log' = Append(log, [sequence |-> Len(log), event_id |-> id, content_hash |-> h])
    /\ UNCHANGED acked

Acknowledge(r) ==
    /\ \E i \in DOMAIN log : log[i] = r
    /\ acked' = acked \cup {r}
    /\ UNCHANGED log

\* A machine failure may drop a suffix of the log, but no acknowledged record.
Lose(n) ==
    /\ \A i \in DOMAIN log : log[i] \in acked => i <= n
    /\ log' = SubSeq(log, 1, n)
    /\ UNCHANGED acked

Next == \/ \E id \in EventIds, h \in Hashes : Commit(id, h)
        \/ \E i \in DOMAIN log : Acknowledge(log[i])
        \/ \E n \in 0 .. Len(log) : Lose(n)

Spec == Init /\ [][Next]_vars
=============================================================================
