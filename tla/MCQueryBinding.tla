---------------------------- MODULE MCQueryBinding ----------------------------
(* Small sets of queries for QueryBinding.                                 *)
EXTENDS QueryBinding, TLC

\* Identical questions: only the transaction ID and the row boundary tell the
\* queries apart.
SameQuestion == [x \in Queries \cup Peers |-> "x"]

\* A peer chooses its IDs without the Wrapper: here one the Wrapper uses too.
PeerIds == [p \in Peers |-> 0]

Symmetry == Permutations(Queries)
=============================================================================
