--------------------------- MODULE MCChainEvidence ---------------------------
(* R1 forwards to R2, R2 to R3, and R3 to a terminal.  The URL of R3's second  *)
(* endpoint, which R1 uses in its second configuration, leads to R2's Agent by *)
(* mistake; with R3's second configuration R2 and R3 form a ring.  The         *)
(* Wrapper's second upstream has no identity.                                  *)
EXTENDS ChainEvidence

MCResolver == {"r1", "r2", "r3"}
MCEndpoint == {"e1", "e2", "e3", "e3b", "e4", "root"}
MCOwner == [e1 |-> "r1", e2 |-> "r2", e3 |-> "r3", e3b |-> "r3", e4 |-> "r4", root |-> "root"]
MCHome == [r1 |-> "e1", r2 |-> "e2", r3 |-> "e3"]
MCUrl == [e1 |-> "r1", e2 |-> "r2", e3 |-> "r3", e3b |-> "r2", e4 |-> "none", root |-> "none"]
MCFirst == <<"e1", "e4">>
MCConfigs ==
    LET to(us, ts) == [upstreams |-> us, terminal |-> ts]
    IN  [r1 |-> <<to(<<"e2", "root">>, {"root"}), to(<<"e3b">>, {})>>,
         r2 |-> <<to(<<"e3">>, {}), to(<<"root">>, {"root"})>>,
         r3 |-> <<to(<<"root">>, {"root"}), to(<<"e2">>, {})>>]

=============================================================================
