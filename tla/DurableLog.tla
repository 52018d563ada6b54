----------------------------- MODULE DurableLog -----------------------------
(***************************************************************************)
(* What the engine promises of its commits, without files: a set of        *)
(* commits ordered by epoch that grows at its end, and of which only an    *)
(* unacknowledged end may ever disappear (docs/durability-semantics-v0.md, *)
(* "Recovery Semantics").                                                  *)
(***************************************************************************)
EXTENDS Naturals

VARIABLES
    log,    \* the commits a recovery brings back
    acked,  \* the commits whose write returned Ok
    issued  \* the number of write attempts

logVars == <<log, acked, issued>>

Init ==
    /\ log = {}
    /\ acked = {}
    /\ issued = 0

\* c is older than d.
Precedes(c, d) == c.epoch < d.epoch /\ c.op < d.op

\* A client asks for a write.
Issue ==
    /\ issued' = issued + 1
    /\ UNCHANGED <<log, acked>>

\* The current attempt becomes recoverable, after everything before it.
Record ==
    /\ \E c \in log' :
        /\ c.op = issued
        /\ \A d \in log : Precedes(d, c)
        /\ log' = log \cup {c}
    /\ UNCHANGED <<acked, issued>>

\* A write returns Ok: only the current attempt, once it is recoverable.
Acknowledge ==
    /\ \E c \in log : c.op = issued /\ acked' = acked \cup {c}
    /\ UNCHANGED <<log, issued>>

\* An end of the log without acknowledged commits is lost or discarded.
Forget ==
    /\ log' \subseteq log
    /\ acked \subseteq log'
    /\ \A c \in log' : \A d \in log \ log' : Precedes(c, d)
    /\ UNCHANGED <<acked, issued>>

Next == Issue \/ Record \/ Acknowledge \/ Forget

Spec == Init /\ [][Next]_logVars
=============================================================================
