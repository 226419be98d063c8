---- MODULE MCProjection ----
(* Small instances of ProjectionCoordinator. *)
EXTENDS ProjectionCoordinator, TLC

Symmetry == Permutations(Clients)

SourceSymmetry == Permutations(Clients) \cup Permutations(Sources)
====
