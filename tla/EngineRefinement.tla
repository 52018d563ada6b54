-------------------------- MODULE EngineRefinement --------------------------
(* Engine implements DurableLog: the log is what recovery would bring back. *)
EXTENDS Engine

DL == INSTANCE DurableLog WITH log <- Recoverable, issued <- ops

\* The files, step by step, promise what DurableLog promises: checkpoints,
\* manifest writes, reopenings and torn tails do not change what recovery
\* brings back, a commit is added at the end, and only an unacknowledged end
\* is ever dropped (a failed append that a checkpoint truncates, a frame a
\* power loss had not synced).
ImplementsDurableLog == DL!Spec
=============================================================================
