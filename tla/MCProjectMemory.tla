--------------------------- MODULE MCProjectMemory --------------------------
(* Two projects; charters, decisions with and without a scope, state,       *)
(* a requirement, a verification, a link, a claim and a foreign event.      *)
EXTENDS ProjectMemory, TLC

Ev(domain, op, id, scope, key, text, lifecycle, supersedes) ==
    [domain |-> domain, op |-> op, id |-> id, project |-> "p", scope |-> scope, key |-> key, text |-> text,
     lifecycle |-> lifecycle, supersedes |-> supersedes, claim |-> FALSE]

MCEvents ==
    {Ev("charter", "create", "a", None, None, "x", "active", None),
     Ev("charter", "supersede", "b", None, None, "y", "active", "a"),
     Ev("charter", "create", "c", None, None, "y", "active", None),
     Ev("requirement", "create", "a", None, None, "x", "active", None),
     Ev("requirement", "supersede", "b", None, None, "y", "active", "a"),
     Ev("decision", "create", "a", "s", "k", "x", "active", None),
     Ev("decision", "supersede", "b", "s", "k", "y", "active", "a"),
     Ev("state", "update", None, None, "k", "x", "active", None),
     Ev("state", "update", None, None, "k", "y", "active", None),
     Ev("artifact", "create", "f", None, None, "x", "active", None),
     [Ev("charter", "create", "b", None, None, "x", "active", None) EXCEPT !.project = "q"],
     [Ev("charter", "create", "b", None, None, "x", "active", None) EXCEPT !.claim = TRUE]}

\* Two decisions on one key that name no scope.
MCUnscoped ==
    {Ev("decision", "create", "a", None, "k", "x", "active", None),
     Ev("decision", "create", "b", None, "k", "x", "active", None)}
=============================================================================
