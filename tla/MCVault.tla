------------------------------ MODULE MCVault ------------------------------
(* Small instances of Vault. *)
EXTENDS Vault

Rec(lifecycle, sensitivity, title, body, links) ==
    [lifecycle |-> lifecycle, sensitivity |-> sensitivity, title |-> title, body |-> body,
     key |-> Absent, links |-> links]

MCTypeOf == [c1 |-> "charter", d1 |-> "decision", v1 |-> "verification", d2 |-> "decision"]
MCProjectOf == [c1 |-> "P", d1 |-> "P", v1 |-> "P", d2 |-> "Q"]

\* A charter; a decision that is updated, renamed, conflicted or a candidate; a
\* verification whose result may hold a secret; a decision of another project.
MCStates ==
    [c1 |-> {Rec("active", Absent, "charter", "goal", {})},
     d1 |-> {Rec("active", Absent, "use a", "why", {"v1"}), Rec("active", Absent, "use b", "why", {"v1"}),
             Rec("conflicted", Absent, "use a", "because", {"v1"}), Rec("candidate", Absent, "maybe", "why", {"v1"})},
     v1 |-> {Rec(Absent, Absent, "passed", "log", {}), Rec(Absent, Absent, "passed", "token", {}),
             Rec(Absent, "secret", "hidden", "log", {})},
     d2 |-> {Rec("active", Absent, "use c", "why", {})}]
=============================================================================
