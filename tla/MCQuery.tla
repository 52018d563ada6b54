------------------------------- MODULE MCQuery -------------------------------
(* Query.tla for TLC. *)
EXTENDS Query

MCSegmentIds == {<<"s1">>}

\* Two contents: the first has the first term more often, and its vector is not
\* Ready; the second is closer to the query's vector and is shown to alice only.
MCVals ==
    {[grp |-> "g1", lex |-> [t1 |-> 2, t2 |-> 0], sim |-> 3, ready |-> FALSE,
      policy |-> [visibility |-> "Tenant", acl |-> {}, suppress |-> FALSE]],
     [grp |-> "g2", lex |-> [t1 |-> 1, t2 |-> 1], sim |-> 5, ready |-> TRUE,
      policy |-> [visibility |-> "Acl", acl |-> {"alice"}, suppress |-> FALSE]]}

Scan1 == [kind |-> "scan", user |-> "alice", grp |-> "any", text |-> {},
          vector |-> FALSE, dirty |-> FALSE, limit |-> 1]
\* bob sees only the first content.
Plain1 == [Scan1 EXCEPT !.kind = "query", !.user = "bob"]
\* For the first hybrid query, the first content is no evidence until it is sealed.
Hybrid(grp, terms, dirty) ==
    [Scan1 EXCEPT !.kind = "query", !.grp = grp, !.text = terms, !.vector = TRUE,
                  !.dirty = dirty, !.limit = 2]

MCQueries == {Scan1, Plain1, Hybrid("any", {"t2"}, FALSE), Hybrid("g1", {"t1"}, TRUE)}
=============================================================================
