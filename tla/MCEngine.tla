------------------------------ MODULE MCEngine ------------------------------
(* Engine and its refinement of DurableLog for TLC: the .cfg files give the  *)
(* bounds and the faults.                                                    *)
EXTENDS EngineRefinement
=============================================================================
