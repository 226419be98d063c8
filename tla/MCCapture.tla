----------------------------- MODULE MCCapture -----------------------------
\* Small instances of Capture for TLC.
EXTENDS Capture, TLC

\* Processes, identities and contents are compared for equality only.
Symmetry == Permutations(Procs) \cup Permutations(EventIds) \cup Permutations(Hashes)
=============================================================================
