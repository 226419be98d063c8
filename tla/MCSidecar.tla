---- MODULE MCSidecar ----
(* Small instances of Sidecar. *)
EXTENDS Sidecar, TLC

Symmetry == Permutations(Requests)
====
