---------------------------- MODULE MCRecordStore ----------------------------
(* RecordStore.tla for TLC. *)
EXTENDS RecordStore, TLC

\* Neither keys nor bodies are told apart by name.
Symmetry == Permutations(Keys) \cup Permutations(Bodies)
=============================================================================
