---- MODULE MCIngest ----
(* Lines for a small instance of Ingest: two active events of one trace, a
   deletion of the second with the content hash of the first (whichever of the
   two is read later is a duplicate), and a line that does not validate. *)
EXTENDS Ingest, TLC

CONSTANTS e1, e2, d1, h1, h2, t1, t2, s1, s2

Line(e, h, t, s, target) ==
    [event_id |-> e, content_hash |-> h, trace_id |-> t,
     lifecycle_status |-> s, target_event_id |-> target]

First == Line(e1, h1, t1, "active", NoEvent)
Second == Line(e2, h2, t1, "active", NoEvent)
Deletion == Line(d1, h1, t2, "deleted", e2)

Valid == {First, Second, Deletion}
ValidOrNot == Valid \cup {Garbage}

TwoAndOne == [s \in Sources |-> IF s = s1 THEN 2 ELSE 1]
====
