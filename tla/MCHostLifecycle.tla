--------------------------- MODULE MCHostLifecycle ---------------------------
(* The instances of HostLifecycle that TLC checks.                         *)
EXTENDS HostLifecycle

P(v, c) == [v |-> v, c |-> c]

\* Two versions, and the second one with another configuration.
ThreePackages == {P(1, 1), P(2, 1), P(2, 2)}

\* The versions share one image.
SharedImages == [p \in ThreePackages |-> {"knot", IF p.v = 1 THEN "ri1" ELSE "ri2"}]

\* A resolver that starts two services in order, a Norn node, and the management
\* host, whose service is not probed.
ThreeRoles == [resolver |-> <<"http", "dns">>, norn |-> <<"grpc">>, management |-> <<"none">>]
==============================================================================
