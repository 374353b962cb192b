--------------------------- MODULE MCTracePipeline ---------------------------
(* Small sets of events for TracePipeline.                                 *)
EXTENDS TracePipeline

Ev(id, t, n, kind, parent, valid) ==
  [id |-> id, trace |-> t, seq |-> n, kind |-> kind, parent |-> parent, valid |-> valid]

\* A resolved query, then a query answered from the cache: the second trace can
\* only be completed by a graph built from the first.
CacheEvents ==
  { Ev("a1", "a", 1, "CLIENT_QUERY", "none", TRUE),
    Ev("a2", "a", 2, "CLIENT_RESPONSE", "a1", TRUE),
    Ev("b1", "b", 1, "CLIENT_QUERY", "none", TRUE),
    Ev("b2", "b", 2, "CACHE_HIT", "b1", TRUE),
    Ev("b3", "b", 3, "CLIENT_RESPONSE", "b2", TRUE) }

\* A trace with an event the Agent refuses, one with a conflicting duplicate.
FaultyEvents ==
  { Ev("a1", "a", 1, "CLIENT_QUERY", "none", TRUE),
    Ev("a2", "a", 2, "UPSTREAM", "a1", FALSE),
    Ev("a3", "a", 3, "RESOLUTION_FAILED", "a2", TRUE),
    Ev("b1", "b", 1, "CLIENT_QUERY", "none", TRUE),
    Ev("b2", "b", 2, "CLIENT_RESPONSE", "b1", TRUE),
    Ev("b2", "b", 2, "RESOLUTION_FAILED", "b1", TRUE) }

\* Time passes for the events that can end up behind a dead lettered one.
MayAgeCache == {e \in CacheEvents : e.id = "b3"}
MayAgeFaulty == {e \in FaultyEvents : e.id \in {"a3"}}
=============================================================================
