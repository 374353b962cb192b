--------------------------- MODULE MCTrustedCache ---------------------------
(* The instances of TrustedCache that TLC checks.                          *)
EXTENDS TrustedCache

\* Version 2 moves the resolver from one endpoint to the other.
MovedEndpoints == [v \in 1..MaxVersion |-> IF v = 1 THEN {"e1"} ELSE {"e2"}]

\* The wrapper asks the first endpoint, then the second.
BothEndpoints == <<"e1", "e2">>
=============================================================================
