---------------------------- MODULE MCRemoteLease ----------------------------
(* RemoteLease.tla for TLC.                                                  *)
EXTENDS RemoteLease

\* Two processes, each with a holder id of its own.
MCSessions == 1..2
MCHolderOf == [s \in MCSessions |-> <<"a", "b">>[s]]
=============================================================================
