------------------------------- MODULE TraceLog -------------------------------
(***************************************************************************)
(* What trace ingestion promises to the readers of the evidence store.     *)
(* Every trace is a log of entries numbered from 1 without gaps.  A log    *)
(* only grows at its end, an entry never changes, and nothing follows a    *)
(* closing entry.  One step may extend several logs: a batch is one        *)
(* transaction.                                                            *)
(***************************************************************************)
EXTENDS Naturals

CONSTANTS Traces, Entries, Closing

VARIABLE log   \* log[t] maps 1..n to the entries of trace t

GapFree(f) == \A n \in DOMAIN f : n \in Nat \ {0} /\ (n > 1 => n - 1 \in DOMAIN f)
Extends(g, f) == DOMAIN f \subseteq DOMAIN g /\ \A n \in DOMAIN f : g[n] = f[n]
Closed(f) == \E n \in DOMAIN f : f[n] \in Closing
ClosedAtEnd(f) == \A n \in DOMAIN f : f[n] \in Closing => \A m \in DOMAIN f : m <= n

WellFormed(f) ==
  /\ GapFree(f)
  /\ ClosedAtEnd(f)
  /\ \A n \in DOMAIN f : f[n] \in Entries

Init == log = [t \in Traces |-> <<>>]

Extend ==
  /\ DOMAIN log' = Traces
  /\ \A t \in Traces : /\ WellFormed(log'[t])
                       /\ Extends(log'[t], log[t])
                       /\ Closed(log[t]) => log'[t] = log[t]

Spec == Init /\ [][Extend]_log
=============================================================================
