---------------------------- MODULE MCServerJobs ----------------------------
(* ServerJobs.tla for TLC: the .cfg files give the bounds. *)
EXTENDS ServerJobs
=============================================================================
