----------------------------- MODULE QueryBinding -----------------------------
(***************************************************************************)
(* How a DNS answer is bound to the evidence of its own resolution.        *)
(*                                                                         *)
(* For every upstream it tries, the Wrapper takes an internal transaction  *)
(* ID, registers a one-time context with the row boundary of the trace     *)
(* table, forwards the query, and asks the Agent for the evidence of the   *)
(* response.  The resolver's terminal event reaches the trace table on its *)
(* own, later.  The Agent claims the latest matching row at or above the   *)
(* boundary for the context; other Agents claim, without a boundary, rows  *)
(* of the queries their own resolvers sent here.                           *)
(*                                                                         *)
(* An exchange is one query at the resolver: an attempt <<q, k>> of the    *)
(* Wrapper for client query q at upstream k, or a peer's query.            *)
(***************************************************************************)
EXTENDS Naturals, FiniteSets, Functions

CONSTANTS
  Queries,      \* client queries
  Peers,        \* queries that other resolvers send to this one
  QuestionOf,   \* the question of each of them
  PeerTx,       \* the transaction ID of a peer's query
  Responses,    \* response digests
  NumUpstreams, \* configured upstreams
  NumIds,       \* transaction IDs (2^16 in the code)
  MaxInflight,  \* permits for client queries
  MaxVerifying, \* permits for verifications
  MaxRestarts,  \* bound: restarts of the Wrapper
  MaxPurges,    \* bound: runs of the Agent's retention that delete rows
  PromptTrace,  \* an ID's last events arrive before it may be used again
  LongRetention,\* no row is purged that is still to be delivered again
  QuietPurge    \* the newest row may be purged while a context waits

Upstreams == 1..NumUpstreams
Attempts == Queries \X Upstreams
Exchanges == Attempts \cup Peers
TxIds == 0..(NumIds - 1)
NoTx == NumIds
Question(x) == QuestionOf[IF x \in Attempts THEN x[1] ELSE x]

ASSUME QueryAssumption == Attempts \cap Peers = {}
ASSUME PeerAssumption == PeerTx \in [Peers -> Nat]
ASSUME SizeAssumption ==
  /\ NumUpstreams \in Nat \ {0} /\ NumIds \in Nat \ {0}
  /\ MaxInflight \in 1..NumIds /\ MaxVerifying \in 1..MaxInflight
  /\ MaxRestarts \in Nat /\ MaxPurges \in Nat
ASSUME SwitchAssumption ==
  PromptTrace \in BOOLEAN /\ LongRetention \in BOOLEAN /\ QuietPurge \in BOOLEAN

VARIABLES
  pc,        \* where a client query is
  up,        \* the upstream it is at
  tx,        \* the transaction ID its current attempt holds, or NoTx
  active,    \* TransactionIdState.active
  cooling,   \* TransactionIdState.cooling, IDs whose time has not come
  next,      \* TransactionIdPool.next
  ctx,       \* ri_v2_query_contexts: attempt -> [tx, min, consumed]
  answered,  \* exchange -> the response the resolver gave
  begun,     \* exchange -> transaction ID, for the queries the resolver has
  transit,   \* terminal events on their way to the Agent
  rows,      \* ri_v2_trace_events: rowid -> event
  claims,    \* ri_v2_trace_event_claims: event -> the exchange it is bound to
  agent,     \* the Agent's work for an exchange
  anchor,    \* exchange -> the event that work claimed
  restarts, purges

wrapperVars == <<pc, up, tx, active, cooling, next>>
resolverVars == <<answered, begun, transit>>
agentVars == <<ctx, rows, claims, agent, anchor>>
vars == <<wrapperVars, resolverVars, agentVars, restarts, purges>>

\* The identity of an event is the exchange it ends.
EventRecords == [by : Exchanges, tx : Nat, resp : Responses]

Empty == [x \in {} |-> x]
Put(f, x, v) == [y \in DOMAIN f \cup {x} |-> IF y = x THEN v ELSE f[y]]
Drop(f, S) == Restrict(f, DOMAIN f \ S)

TypeOK ==
  /\ pc \in [Queries -> {"new", "acquire", "register", "sent", "permit",
                         "verify", "released", "servfail"}]
  /\ up \in [Queries -> Upstreams]
  /\ tx \in [Queries -> TxIds \cup {NoTx}]
  /\ active \subseteq TxIds /\ cooling \subseteq TxIds /\ next \in TxIds
  /\ DOMAIN ctx \subseteq Attempts
  /\ \A a \in DOMAIN ctx : ctx[a] \in [tx : TxIds, min : Nat \ {0}, consumed : BOOLEAN]
  /\ DOMAIN begun \subseteq Exchanges
  /\ DOMAIN answered \subseteq DOMAIN begun
  /\ \A x \in DOMAIN answered : answered[x] \in Responses
  /\ \A e \in transit : e \in EventRecords
  /\ DOMAIN rows \subseteq Nat \ {0} /\ \A i \in DOMAIN rows : rows[i] \in EventRecords
  /\ DOMAIN claims \subseteq Range(rows)
  /\ \A e \in DOMAIN claims : claims[e] \in Exchanges
  /\ agent \in [Exchanges -> {"none", "polling", "claimed", "failed"}]
  /\ DOMAIN anchor \subseteq Exchanges
  /\ \A x \in DOMAIN anchor : anchor[x] \in EventRecords
  /\ restarts \in 0..MaxRestarts /\ purges \in 0..MaxPurges

Init ==
  /\ pc = [q \in Queries |-> "new"]
  /\ up = [q \in Queries |-> 1]
  /\ tx = [q \in Queries |-> NoTx]
  /\ active = {} /\ cooling = {} /\ next = 0
  /\ ctx = Empty /\ begun = Empty /\ answered = Empty /\ transit = {}
  /\ rows = Empty /\ claims = Empty /\ anchor = Empty
  /\ agent = [x \in Exchanges |-> "none"]
  /\ restarts = 0 /\ purges = 0

-----------------------------------------------------------------------------
(* The Wrapper: serve_udp, process_query and the transaction ID pool.      *)

Busy == {q \in Queries : pc[q] \in {"acquire", "register", "sent", "permit", "verify"}}
Attempt(q) == <<q, up[q]>>
Goto(q, p) == pc' = [pc EXCEPT ![q] = p]

\* try_acquire: without a permit the client gets SERVFAIL at once.
Accept(q) ==
  /\ pc[q] = "new"
  /\ Goto(q, IF Cardinality(Busy) < MaxInflight THEN "acquire" ELSE "servfail")
  /\ UNCHANGED <<up, tx, active, cooling, next, resolverVars, agentVars, restarts, purges>>

\* Mutant of Free: the pool hands out an ID that is still in use.
FreeIgnoringActive == TxIds \ cooling

\* The pool tries every ID once, starting at the counter.
Free == TxIds \ (active \cup cooling)
Distance(i) == (i + NumIds - next) % NumIds
FirstFree(i) == i \in Free /\ \A j \in Free : Distance(i) <= Distance(j)

Acquire(q) ==
  /\ pc[q] = "acquire"
  /\ \/ /\ Free = {}
        /\ Goto(q, "servfail")
        /\ UNCHANGED <<tx, active, next>>
     \/ \E i \in TxIds :
        /\ FirstFree(i)
        /\ tx' = [tx EXCEPT ![q] = i]
        /\ active' = active \cup {i}
        /\ next' = (i + 1) % NumIds
        /\ Goto(q, "register")
  /\ UNCHANGED <<up, cooling, resolverVars, agentVars, restarts, purges>>

\* TransactionIdPermit::drop
DropPermit(q) ==
  /\ tx' = [tx EXCEPT ![q] = NoTx]
  /\ active' = active \ {tx[q]}
  /\ cooling' = cooling \cup {tx[q]}

\* COALESCE(MAX(rowid), 0) + 1
IsNextRowid(n) ==
  /\ \A i \in DOMAIN rows : i < n
  /\ n = 1 \/ n - 1 \in DOMAIN rows
RowidBound == 1..(Cardinality(Exchanges) + 1)

\* Mutant of Register: the boundary lies one row too high.
RegisterOneTooHigh(q) ==
  /\ pc[q] = "register"
  /\ \E n \in RowidBound :
       /\ IsNextRowid(n)
       /\ ctx' = Put(ctx, Attempt(q), [tx |-> tx[q], min |-> n + 1, consumed |-> FALSE])
  /\ begun' = Put(begun, Attempt(q), tx[q])
  /\ Goto(q, "sent")
  /\ UNCHANGED <<up, tx, active, cooling, next, answered, transit, rows, claims, agent, anchor,
                 restarts, purges>>

\* The context is committed before the query is sent.
Register(q) ==
  /\ pc[q] = "register"
  /\ \E n \in RowidBound :
       /\ IsNextRowid(n)
       /\ ctx' = Put(ctx, Attempt(q), [tx |-> tx[q], min |-> n, consumed |-> FALSE])
  /\ begun' = Put(begun, Attempt(q), tx[q])
  /\ Goto(q, "sent")
  /\ UNCHANGED <<up, tx, active, cooling, next, answered, transit, rows, claims, agent, anchor,
                 restarts, purges>>

\* A store error ends the query.
RegisterFails(q) ==
  /\ pc[q] = "register"
  /\ Goto(q, "servfail")
  /\ DropPermit(q)
  /\ UNCHANGED <<up, next, resolverVars, agentVars, restarts, purges>>

\* The end of a failed attempt: the permit is dropped, the next upstream tried.
NextUpstream(q) ==
  /\ DropPermit(q)
  /\ IF up[q] < NumUpstreams
     THEN Goto(q, "acquire") /\ up' = [up EXCEPT ![q] = @ + 1]
     ELSE Goto(q, "servfail") /\ UNCHANGED up

\* The response arrives in time and matches the forwarded query.
Receive(q) ==
  /\ pc[q] = "sent"
  /\ Attempt(q) \in DOMAIN answered
  /\ Goto(q, "permit")
  /\ UNCHANGED <<up, tx, active, cooling, next, resolverVars, agentVars, restarts, purges>>

\* Mutant of UpstreamFails: the upstream query has no timeout.
UpstreamFailsLate(q) ==
  /\ pc[q] = "sent"
  /\ Attempt(q) \in DOMAIN answered
  /\ NextUpstream(q)
  /\ UNCHANGED <<next, resolverVars, agentVars, restarts, purges>>

\* Upstream timeout, I/O error or a response to something else.
UpstreamFails(q) ==
  /\ pc[q] = "sent"
  /\ NextUpstream(q)
  /\ UNCHANGED <<next, resolverVars, agentVars, restarts, purges>>

\* verify_response: a verification permit, then the request to the Agent.
Verify(q) ==
  /\ pc[q] = "permit"
  /\ Cardinality({p \in Queries : pc[p] = "verify"}) < MaxVerifying
  /\ Goto(q, "verify")
  /\ agent' = [agent EXCEPT ![Attempt(q)] = "polling"]
  /\ UNCHANGED <<up, tx, active, cooling, next, resolverVars, ctx, rows, claims, anchor,
                 restarts, purges>>

\* The Agent's graph passes every check and the answer goes to the client.
Release(q) ==
  /\ pc[q] = "verify"
  /\ agent[Attempt(q)] = "claimed"
  /\ Goto(q, "released")
  /\ DropPermit(q)
  /\ UNCHANGED <<up, next, resolverVars, agentVars, restarts, purges>>

\* The Agent fails, its graph is refused, or agent_timeout passes, also while
\* waiting for the permit; the Agent may go on with the request.
VerifyFails(q) ==
  /\ pc[q] \in {"permit", "verify"}
  /\ NextUpstream(q)
  /\ UNCHANGED <<next, resolverVars, agentVars, restarts, purges>>

\* What is still to come from the queries that used an ID.
Settled(i) ==
  /\ \A e \in transit : e.tx # i
  /\ \A x \in DOMAIN begun : begun[x] = i => x \in DOMAIN answered

\* reuse_delay passes.
CoolDown(i) ==
  /\ i \in cooling
  /\ PromptTrace => Settled(i)
  /\ cooling' = cooling \ {i}
  /\ UNCHANGED <<pc, up, tx, active, next, resolverVars, agentVars, restarts, purges>>

\* The pool is not persistent: a new process knows no used ID.
Restart ==
  /\ restarts < MaxRestarts
  /\ restarts' = restarts + 1
  /\ PromptTrace => \A i \in TxIds : Settled(i)
  /\ pc' = [q \in Queries |-> IF q \in Busy THEN "servfail" ELSE pc[q]]
  /\ tx' = [q \in Queries |-> NoTx]
  /\ active' = {} /\ cooling' = {} /\ next' = 0
  /\ UNCHANGED <<up, resolverVars, agentVars, purges>>

-----------------------------------------------------------------------------
(* The resolver and the trace pipeline, seen from here.                    *)

PeerQuery(p) ==
  /\ p \notin DOMAIN begun
  /\ begun' = Put(begun, p, PeerTx[p])
  /\ UNCHANGED <<wrapperVars, answered, transit, agentVars, restarts, purges>>

\* The resolver answers and reports the end of the resolution.
Resolve(x, r) ==
  /\ x \in DOMAIN begun \ DOMAIN answered
  /\ answered' = Put(answered, x, r)
  /\ transit' = transit \cup {[by |-> x, tx |-> begun[x], resp |-> r] }
  /\ UNCHANGED <<wrapperVars, begun, agentVars, restarts, purges>>

\* put_trace_events: an event that is stored already changes nothing.  The
\* adapter may deliver it again.
Ingest(e) ==
  /\ e \in transit
  /\ transit' \in {transit, transit \ {e}}
  /\ \/ e \in Range(rows) /\ UNCHANGED rows
     \/ /\ e \notin Range(rows)
        /\ \E n \in RowidBound : IsNextRowid(n) /\ rows' = Put(rows, n, e)
  /\ UNCHANGED <<wrapperVars, answered, begun, ctx, claims, agent, anchor, restarts, purges>>

-----------------------------------------------------------------------------
(* The Agent: wait_for_trace_anchor, wait_for_matching_response.           *)

Matches(e, x, id) ==
  e.tx = id /\ Question(e.by) = Question(x) /\ e.resp = answered[x]

\* Mutant of Candidate: the row boundary is not applied.
CandidateAnyRow(a, i) ==
  LET hits == {j \in DOMAIN rows : Matches(rows[j], a, ctx[a].tx)}
  IN i \in hits /\ \A j \in hits : j <= i

\* The latest row at or above the context's boundary.
Candidate(a, i) ==
  LET hits == {j \in DOMAIN rows : j >= ctx[a].min /\ Matches(rows[j], a, ctx[a].tx)}
  IN i \in hits /\ \A j \in hits : j <= i

Fail(x) ==
  /\ agent' = [agent EXCEPT ![x] = "failed"]
  /\ UNCHANGED <<ctx, claims, anchor>>

\* claim_registered_trace_anchor, one transaction: claim and consume.
Claim(a) ==
  /\ agent[a] = "polling"
  /\ a \in DOMAIN ctx /\ ~ctx[a].consumed
  /\ \E i \in DOMAIN rows :
       /\ Candidate(a, i)
       /\ \/ /\ rows[i] \in DOMAIN claims => claims[rows[i]] = a
             /\ claims' = Put(claims, rows[i], a)
             /\ ctx' = [ctx EXCEPT ![a].consumed = TRUE]
             /\ agent' = [agent EXCEPT ![a] = "claimed"]
             /\ anchor' = Put(anchor, a, rows[i])
          \/ /\ rows[i] \in DOMAIN claims /\ claims[rows[i]] # a
             /\ Fail(a)
  /\ UNCHANGED <<wrapperVars, resolverVars, rows, restarts, purges>>

\* The request fails without a claim: the context is gone, or trace_wait_millis
\* pass without a matching row, or another part of the graph is missing.
GiveUp(x) ==
  /\ agent[x] = "polling"
  /\ Fail(x)
  /\ UNCHANGED <<wrapperVars, resolverVars, rows, restarts, purges>>

\* A peer asks for the response its resolver got from this one.
PeerRequest(p) ==
  /\ agent[p] = "none" /\ p \in DOMAIN answered
  /\ agent' = [agent EXCEPT ![p] = "polling"]
  /\ UNCHANGED <<wrapperVars, resolverVars, ctx, rows, claims, anchor, restarts, purges>>

\* Mutant of PeerCandidate: rows of other requests are not skipped.
PeerCandidateClaimed(p, i) ==
  LET hits == {j \in DOMAIN rows : Matches(rows[j], p, PeerTx[p])}
  IN i \in hits /\ \A j \in hits : i <= j

\* claim_matching_response: the oldest matching row nobody else claimed.
PeerCandidate(p, i) ==
  LET hits == {j \in DOMAIN rows : /\ Matches(rows[j], p, PeerTx[p])
                                   /\ rows[j] \in DOMAIN claims => claims[rows[j]] = p}
  IN i \in hits /\ \A j \in hits : i <= j

PeerClaim(p) ==
  /\ agent[p] = "polling"
  /\ \E i \in DOMAIN rows :
       /\ PeerCandidate(p, i)
       /\ claims' = Put(claims, rows[i], p)
       /\ anchor' = Put(anchor, p, rows[i])
  /\ agent' = [agent EXCEPT ![p] = "claimed"]
  /\ UNCHANGED <<wrapperVars, resolverVars, ctx, rows, restarts, purges>>

\* The context's time is over: claims fail from now on, purge_query_contexts
\* deletes the row.
ExpireContext(a) ==
  /\ a \in DOMAIN ctx
  /\ ctx' = Drop(ctx, {a})
  /\ UNCHANGED <<wrapperVars, resolverVars, rows, claims, agent, anchor, restarts, purges>>

\* Mutant of PurgeEvents: foreign keys are off and claims stay behind.
PurgeWithoutCascade(old) ==
  /\ purges < MaxPurges
  /\ purges' = purges + 1
  /\ old # {}
  /\ ~QuietPurge => \E i \in DOMAIN rows : \A j \in old : i > j
  /\ LongRetention => \A j \in old : rows[j] \notin transit
  /\ rows' = Drop(rows, old)
  /\ UNCHANGED <<wrapperVars, resolverVars, ctx, claims, agent, anchor, restarts>>

\* purge_trace_events deletes the rows observed before the retention limit, not
\* always the first ones by rowid; their claims go with them (ON DELETE CASCADE).
PurgeEvents(old) ==
  /\ purges < MaxPurges
  /\ purges' = purges + 1
  /\ old # {}
  /\ ~QuietPurge => \E i \in DOMAIN rows : \A j \in old : i > j
  /\ LongRetention => \A j \in old : rows[j] \notin transit
  /\ rows' = Drop(rows, old)
  /\ claims' = Drop(claims, {rows[j] : j \in old})
  /\ UNCHANGED <<wrapperVars, resolverVars, ctx, agent, anchor, restarts>>

Next ==
  \/ \E q \in Queries :
       \/ Accept(q) \/ Acquire(q) \/ Register(q) \/ RegisterFails(q) \/ Receive(q)
       \/ UpstreamFails(q) \/ Verify(q) \/ Release(q) \/ VerifyFails(q)
  \/ \E i \in TxIds : CoolDown(i)
  \/ Restart
  \/ \E p \in Peers : PeerQuery(p) \/ PeerRequest(p) \/ PeerClaim(p)
  \/ \E x \in Exchanges : (\E r \in Responses : Resolve(x, r)) \/ GiveUp(x)
  \/ \E e \in transit : Ingest(e)
  \/ \E a \in Attempts : Claim(a) \/ ExpireContext(a)
  \/ \E old \in SUBSET DOMAIN rows : PurgeEvents(old)

Spec == Init /\ [][Next]_vars

\* Tokio runs every task, and the store, the upstream and the Agent are waited
\* for no longer than their timeouts: every step of a query is taken or its
\* failure is.  Nothing is assumed of the resolver, the Agent or the clock.
Fairness ==
  \A q \in Queries :
    /\ WF_vars(Acquire(q))
    /\ WF_vars(Register(q) \/ RegisterFails(q))
    /\ WF_vars(Receive(q) \/ UpstreamFails(q))
    /\ WF_vars(Verify(q) \/ Release(q) \/ VerifyFails(q))

FairSpec == Spec /\ Fairness

-----------------------------------------------------------------------------
(* Properties.                                                             *)

\* No two queries in flight use one transaction ID, and an ID in use or cooling
\* down is not handed out, whatever attempts failed or were dropped.
TxExclusive ==
  /\ \A p, q \in Queries : tx[p] = tx[q] /\ tx[p] # NoTx => p = q
  /\ active = {tx[q] : q \in Queries} \ {NoTx}
  /\ active \cap cooling = {}

\* The answer a client gets was released on the terminal event of its own
\* resolution: not of an identical concurrent query, an earlier user of the
\* transaction ID, an earlier attempt of the same query or a peer's query.
OwnEvidence ==
  \A q \in Queries : pc[q] = "released" =>
    /\ Attempt(q) \in DOMAIN anchor
    /\ anchor[Attempt(q)].by = Attempt(q)

\* One event proves at most one request, the Wrapper's or a peer's, also after
\* retention has deleted the event and its claim.
EventUsedOnce ==
  \A x, y \in DOMAIN anchor : anchor[x].by = anchor[y].by => x = y

\* The event of a registered attempt lies at or above the attempt's boundary,
\* so the Agent finds it.
BoundaryAdmitsOwn ==
  \A a \in DOMAIN ctx : \A i \in DOMAIN rows : rows[i].by = a => i >= ctx[a].min

\* Every accepted query is answered, with the response or with SERVFAIL.
EveryQueryAnswered ==
  \A q \in Queries : (q \in Busy) ~> (pc[q] \in {"released", "servfail"})
=============================================================================
