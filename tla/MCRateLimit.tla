---------------------------- MODULE MCRateLimit ----------------------------
(* RateLimit for TLC, and the addresses its clients are known by.           *)
EXTENDS RateLimit, ClientAddress, TLC

Clause(n, w) == [limit |-> n, window |-> w]
Good(rs) == [ok |-> TRUE, rules |-> rs]

\* "1 per 3;2 per 4", two clauses that share a counter, no limit at all, and a string
\* that does not parse.
MCSpecs == {Good(<<Clause(1, 3), Clause(2, 4)>>), Good(<<Clause(2, 3), Clause(1, 3)>>),
            Good(<<>>), [ok |-> FALSE, rules |-> <<>>]}
MCSafeDefault == <<Clause(2, 3)>>

\* proxyHeaders ("rotating the header defeats every limit"), ClientIPFromForwarded ("the
\* first address that is not one is the client"), limit: a call is made for the address
\* of the visitor itself, behind any proxies the program is configured for, whatever the
\* visitor puts into the headers, and for the peer's address from any other peer.
CountsForTheVisitor ==
  \A c \in Calls : pc[c] # "idle" => EveryWayResolves[who[c]] /\ HeadersIgnored
=============================================================================
