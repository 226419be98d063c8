------------------------------ MODULE MCAccess ------------------------------
(* Two profiles, two projects, one space; reads and writes by profile A.    *)
EXTENDS Access, TLC

Symmetric == Permutations(Admins)

Types == {"event", "decision"}

Event(profile, project, spaces, words) ==
    [profile |-> profile, project |-> project, spaces |-> spaces, words |-> words]

MCEvents == <<Event("A", "p", {}, {"x"}), Event("B", "p", {"s"}, {"x", "y"}), Event(None, None, {}, {"y"}),
              Event("B", "q", {}, {"x", "y"})>>
MCArriving == {2}
MCEdges == {[from |-> 1, to |-> 2, relation |-> 1], [from |-> 4, to |-> 1, relation |-> 1]}

Grant(id, operation, type, target, resources, supersedes) ==
    [id |-> id, subject |-> "A", operation |-> operation, type |-> type, target |-> target, resources |-> resources,
     state |-> None, lifecycle |-> "active", supersedes |-> supersedes, replacedBy |-> None,
     verification |-> IF operation = "WRITE" THEN "v" ELSE None]

MCAdminRequests ==
    {[op |-> "create", row |-> Grant("g1", "READ", "profile", "B", Types, None)],
     [op |-> "create", row |-> Grant("g2", "WRITE", "profile", "B", Types, None)],
     [op |-> "revoke", row |-> Grant("g1", "READ", "profile", "B", Types, None)],
     [op |-> "supersede", row |-> Grant("g2", "READ", "project", "p", {"event"}, "g1")],
     [op |-> "supersede", row |-> Grant("g1", "WRITE", "profile", "B", Types, "g2")],
     [op |-> "supersede", row |-> Grant("g3", "READ", "knowledge_space", "s", Types, "g1")]}

Request(operation, profiles, projects, spaces, global) ==
    [operation |-> operation, requester |-> "A", profiles |-> profiles, projects |-> projects, spaces |-> spaces,
     includeGlobal |-> global, isolated |-> FALSE, resource |-> "event"]

Read(kind, access, words, source, limit) ==
    [kind |-> kind, access |-> access, words |-> words, source |-> source, limit |-> limit]

MCReads ==
    {Read("list", Request("READ", {}, <<>>, {}, TRUE), {}, 0, 1),
     Read("list", Request("READ", {"A", "B"}, <<>>, {}, TRUE), {}, 0, 2),
     Read("list", Request("READ", {}, <<"p">>, {}, FALSE), {}, 0, 1),
     Read("list", Request("READ", {}, <<>>, {"s"}, FALSE), {}, 0, 1),
     Read("search", Request("READ", {"B"}, <<>>, {}, TRUE), {"x", "y"}, 0, 1),
     Read("related", Request("READ", {"B"}, <<>>, {}, FALSE), {}, 1, 1)}

MCWrites == {Request("WRITE", {"B"}, <<>>, {}, FALSE), Request("WRITE", {"A"}, <<>>, {}, FALSE)}
=============================================================================
