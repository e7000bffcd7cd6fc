-------------------------- MODULE MCVaultSessions --------------------------
(* Small instances of VaultSessions and of its refinement for TLC. *)
EXTENDS VaultRefinesStore, VaultInvariant, TLC

\* Processes are interchangeable, and so are records: no definition tells
\* one from another.  Only the safety runs use this.
Symmetry == Permutations(Sessions) \cup Permutations(Secrets)
=============================================================================
