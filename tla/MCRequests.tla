----------------------------- MODULE MCRequests -----------------------------
(* Requests.tla for TLC. *)
EXTENDS Requests, TLC

CONSTANTS b1, b2, ask, k1, s1

Ask(route, key, body, shard) ==
    [route |-> route, key |-> key, body |-> body, shard |-> shard,
     writes |-> route # "read" /\ body # ask]

\* One key for all of them; another body, another shard, no key;
\* statements that write and statements that read.
MCCallSpecs ==
    {Ask("mutation", k1, b1, Root), Ask("mutation", k1, b2, Root),
     Ask("mutation", k1, b1, s1), Ask("mutation", NoKey, b1, Root),
     Ask("timed_batch", k1, b1, Root), Ask("admin", NoKey, b1, Root),
     Ask("traceql", k1, b1, Root), Ask("traceql", k1, ask, Root),
     Ask("graphql", k1, b1, Root), Ask("read", NoKey, ask, s1)}

MCSymmetry == Permutations(Calls)
=============================================================================
