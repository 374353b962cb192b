---------------------------- MODULE ChainEvidence ----------------------------
(***************************************************************************)
(* The V1 service's distributed verification.  For a query the Wrapper      *)
(* verifies its upstream and asks that resolver's Agent for a signed chain: *)
(* the Agent verifies each of its upstreams, asks their Agents for the same *)
(* and nests what it gets.  The Wrapper checks signatures, shape and depth, *)
(* compares the configuration versions with the highest it has seen, and    *)
(* releases the answer only if every resolver of the chain was accepted.    *)
(*                                                                          *)
(* The observation runs in a thread that outlives the deadline the          *)
(* coordinator puts on it; the threads of several queries share the         *)
(* context, the high water mark and the list of invalidated endpoints.      *)
(* Whether a resolver verifies is read from the Registry: the cache in      *)
(* front of it is the subject of TrustedCache.                              *)
(***************************************************************************)
EXTENDS Naturals, Sequences, FiniteSets

CONSTANTS
    Resolver, Endpoint,
    Owner,       \* the resolver an endpoint is bound to
    Home,        \* the endpoint a resolver's Agent speaks for
    Url,         \* the Agent that answers at an endpoint's configured URL, or None
    Keyed,       \* resolvers whose identity binds an Ed25519 key of an Agent
    Configs,     \* the configurations of each Agent, by version: [upstreams, terminal]
    First,       \* the Wrapper's upstreams, in order
    Query,
    MaxDepth,    \* max_depth
    MaxNodes,    \* max_nodes of one chain
    MaxInflight, \* max_inflight of the UDP server
    MaxCalls,    \* bound: nested requests between Agents
    MaxChanges,  \* bound: reconfigured Agents, revocations, invalidations
    None

ASSUME Parameters ==
    /\ Home \in [Resolver -> Endpoint] /\ Url \in [Endpoint -> Resolver \cup {None}]
    /\ \A r \in Resolver : Owner[Home[r]] = r
    /\ \A r \in Resolver :
          /\ Configs[r] \in Seq([upstreams : Seq(Endpoint), terminal : SUBSET Endpoint])
          /\ Configs[r] # <<>>
    /\ First \in Seq(Endpoint) /\ First # <<>>
    /\ None \notin Resolver
    /\ MaxInflight \in Nat \ {0}
    /\ MaxDepth \in Nat /\ MaxNodes \in Nat /\ MaxCalls \in Nat /\ MaxChanges \in Nat

VARIABLES
    version,      \* the configuration each Agent runs with
    active,       \* the resolvers the Registry has as ACTIVE
    query,        \* the coordinators, and the chain an answer was released over
    thread,       \* the observation threads
    context,      \* _context_cache: the last chain of each upstream
    highWater,    \* agent_config_high_water:<upstream>, persisted
    invalidated,  \* _invalidated_endpoints
    generation,   \* the generation of the Wrapper's cache
    since,        \* history: the resolvers that were ACTIVE since a query began
    changes       \* used of MaxChanges

vars == <<version, active, query, thread, context, highWater, invalidated, generation, since,
          changes>>

Threads == Query \X DOMAIN First
Elements(s) == {s[i] : i \in DOMAIN s}
Distinct(s) == \A i, j \in DOMAIN s : s[i] = s[j] => i = j
Config(r) == Configs[r][version[r]]

-----------------------------------------------------------------------------
(* Chains                                                                  *)

\* A chain and all that is nested in it, in the order in which the code walks
\* through it: every node with its depth.  A chain begins with its own node.
NoChain == <<>>

\* The node at j is nested in the one at i; it is a downstream chain of it.
Within(chain, i, j) == i < j /\ \A k \in (i + 1) .. j : chain[k].depth > chain[i].depth
Downs(chain, i) ==
    {j \in DOMAIN chain : Within(chain, i, j) /\ chain[j].depth = chain[i].depth + 1}

\* parse_chain_versions reads the last version a chain names for a resolver.
Last(versions, r) ==
    LET at == {i \in DOMAIN versions : versions[i][1] = r}
    IN  versions[CHOOSE i \in at : \A j \in at : j <= i][2]

\* is_config_rollback: a resolver the new chain does not name is not compared.
IsRollback(old, new) ==
    \E r \in {old[i][1] : i \in DOMAIN old} \cap {new[i][1] : i \in DOMAIN new} :
        Last(new, r) < Last(old, r)

\* chain_config_version: the versions in the order of the chain.
ConfigVersion(chain) == [i \in DOMAIN chain |-> <<chain[i].node.id, chain[i].node.version>>]

\* flatten_chain_endpoints
Observed(chain) ==
    UNION {{chain[i].node.endpoint} \cup {h.to : h \in Elements(chain[i].node.hops)} :
           i \in DOMAIN chain}

\* to_verification_result
ToVerificationResult(h) == [id |-> h.id, accepted |-> h.accepted, evidence |-> h.evidence]

\* Mutant of AllAccepted: only the hops the first Agent verified itself.
AllAcceptedFirst(chain) ==
    \A h \in Elements(chain[1].node.hops) : ToVerificationResult(h).accepted

\* flatten_chain_results and the verdict of the chain itself.
AllAccepted(chain) ==
    \A i \in DOMAIN chain :
        /\ chain[i].node.final /\ ~chain[i].node.errors
        /\ \A h \in Elements(chain[i].node.hops) : ToVerificationResult(h).accepted

Accepted(node) == {h \in Elements(node.hops) : h.accepted}

\* sign_hop_verification_result, sign_verification_chain: with the key of Agent r.
Signed(payload, r) == [payload EXCEPT !.signer = r]

\* verify_ed25519_signature, with the key bound to the identity of r.
SignatureValid(payload, r) == payload.signer = r

\* validate_hop_evidence_integrity: the evidence is of the hop that carries it.
EvidenceValid(h) ==
    /\ h.evidence.from = h.from /\ h.evidence.to = h.to /\ h.evidence.id = h.id
    /\ h.evidence.verified = h.accepted

\* verify_hop_verification_result_payload: the hop is the signer's own.
HopValid(node, h) ==
    SignatureValid(h, node.id) /\ h.from = node.id /\ EvidenceValid(h)

\* What raises in _validate_chain_node_semantics, but for final_result.
Shape(chain, i) ==
    LET node == chain[i].node  hops == node.hops  downs == Downs(chain, i) IN
    /\ \A h \in Elements(hops) : h.from = node.id
    /\ \A j, k \in DOMAIN hops : hops[j].to = hops[k].to /\ hops[j].id = hops[k].id => j = k
    /\ \A j, k \in DOMAIN hops :
          hops[j].accepted /\ hops[k].accepted /\ hops[j].id = hops[k].id => j = k
    /\ Distinct(node.terminal)
    /\ Elements(node.terminal) \cap {h.to : h \in Elements(hops)} = {}
    /\ Elements(node.terminal) \cap {chain[d].node.endpoint : d \in downs} = {}
    /\ \A c, d \in downs : chain[c].node.id = chain[d].node.id => c = d
    /\ \A d \in downs :
          /\ chain[d].node.challenge = node.challenge
          /\ \E h \in Accepted(node) : h.id = chain[d].node.id /\ h.to = chain[d].node.endpoint
    /\ \A h \in Accepted(node) : h.evidence.key => \E d \in downs : chain[d].node.id = h.id

\* The verdict a node must carry, when those nested in it carry theirs.
Effective(chain, i) ==
    /\ ~chain[i].node.errors /\ Accepted(chain[i].node) = Elements(chain[i].node.hops)
    /\ \A d \in Downs(chain, i) : chain[d].node.final

\* validate_verification_chain_semantics: nothing raises.
SemanticsValid(chain) ==
    /\ Len(chain) <= MaxNodes
    /\ \A i \in DOMAIN chain : Shape(chain, i) /\ chain[i].node.final = Effective(chain, i)

\* What verify_verification_chain_payload asks of the node itself: signed with
\* the key, of the resolver and at the endpoint the caller verified.  An expired
\* payload is a request that failed.
NodeOf(node, e, challenge) ==
    /\ SignatureValid(node, Owner[e]) /\ node.id = Owner[e]
    /\ node.endpoint = e
    /\ node.challenge = challenge

\* verify_verification_chain_payload.  What is nested in a chain that passes
\* has passed the checks of its semantics with it.
PayloadValid(chain, e, challenge) ==
    NodeOf(chain[1].node, e, challenge) /\ SemanticsValid(chain)

\* _validate_chain_node: no loop, no chain beyond max_depth, every nested chain
\* signed with the key its parent's hop verified.
NodeValid(chain, i) ==
    LET node == chain[i].node
        visiting == {chain[j].node.endpoint : j \in {k \in DOMAIN chain : Within(chain, k, i)}}
    IN  /\ node.endpoint \notin visiting
        /\ chain[i].depth < MaxDepth
        /\ \A h \in Elements(node.hops) :
              HopValid(node, h) /\ h.to \notin visiting \cup {node.endpoint}
        /\ \A d \in Downs(chain, i) : \E h \in Accepted(node) :
              /\ h.id = chain[d].node.id /\ h.evidence.key
              /\ NodeOf(chain[d].node, h.to, node.challenge)

-----------------------------------------------------------------------------
(* The Agents: POST /v1/verification-chain                                 *)

\* A call of _build_chain: downs holds the downstream chains one after another.
NewFrame(r) == [agent |-> r, pos |-> 1, hops |-> <<>>, downs |-> <<>>, terminal |-> <<>>,
                errors |-> FALSE]

\* VerificationChain: what an Agent says of itself, not signed yet.
VerificationChain(f, challenge, errors, final) ==
    [id |-> f.agent, signer |-> None, endpoint |-> Home[f.agent], version |-> version[f.agent],
     challenge |-> challenge, hops |-> f.hops, terminal |-> f.terminal,
     errors |-> errors, final |-> final]

\* The chain of a node over downstream chains.
Nest(node, downs) ==
    <<[depth |-> 0, node |-> node]>>
      \o [i \in DOMAIN downs |-> [depth |-> downs[i].depth + 1, node |-> downs[i].node]]

\* all(hop.accepted for hop in hops) and all(chain.final_result for chain in downstream_chains)
AllFine(f) ==
    /\ \A h \in Elements(f.hops) : h.accepted
    /\ \A i \in DOMAIN f.downs : f.downs[i].depth = 0 => f.downs[i].node.final

\* Mutant of BuiltFrom: an error is reported and does not make the chain fail.
BuiltFromLenient(f, challenge) ==
    Nest(Signed(VerificationChain(f, challenge, FALSE, AllFine(f)), f.agent), f.downs)

\* The end of _build_chain.
BuiltFrom(f, challenge) ==
    Nest(Signed(VerificationChain(f, challenge, f.errors, AllFine(f) /\ ~f.errors), f.agent),
         f.downs)

Failing(f) == [f EXCEPT !.errors = TRUE, !.pos = @ + 1]
Top(stack) == stack[Len(stack)]
SetTop(stack, f) == [stack EXCEPT ![Len(stack)] = f]

\* What a thread is after the request at depth k of its calls has failed: for
\* the Wrapper an exception, for an Agent an error in its chain.
Cut(t, k) ==
    IF k = 1 THEN [t EXCEPT !.step = "failed", !.stack = <<>>]
    ELSE [t EXCEPT !.stack = SetTop(SubSeq(@, 1, k - 1), Failing(@[k - 1]))]

\* normalize_hop_evidence: what the verification of e found, and for whom; the
\* Agent's public key is part of it when the identity binds one.
Evidence(from, e, ok) ==
    [from |-> from, to |-> e, id |-> Owner[e], verified |-> ok, key |-> ok /\ Owner[e] \in Keyed]

\* HopVerificationResult: what is on the wire for one upstream, not signed yet.
HopVerificationResult(from, e, ok, evidence) ==
    [from |-> from, to |-> e, id |-> Owner[e], accepted |-> ok, evidence |-> evidence,
     signer |-> None]

\* from_verification_result, signed.
Hop(from, e, ok) == Signed(HopVerificationResult(from, e, ok, Evidence(from, e, ok)), from)

\* _agent_url_for: the Agent configured for an endpoint.
AgentFor(e) == Url[e]

\* _is_terminal_upstream
IsTerminalUpstream(r, e) == e \in Config(r).terminal

\* _fetch_verification_chain: the request that opens an Agent's own chain.
FetchVerificationChain(e) == NewFrame(AgentFor(e))

\* An Agent looks at its next upstream.
AgentHop(x) ==
    LET t == thread[x]  f == Top(t.stack)  e == Config(f.agent).upstreams[f.pos]
        id == Owner[e]
        with(ok) == [f EXCEPT !.hops = Append(@, Hop(f.agent, e, ok))]
        become(stack) == thread' = [thread EXCEPT ![x].stack = stack]
    IN  IF IsTerminalUpstream(f.agent, e)
        THEN become(SetTop(t.stack, [f EXCEPT !.terminal = Append(@, e), !.pos = @ + 1]))
        ELSE IF id \notin active THEN become(SetTop(t.stack, Failing(with(FALSE))))
        ELSE IF AgentFor(e) = None \/ e = Home[f.agent] \/ id \notin Keyed
             THEN become(SetTop(t.stack, Failing(with(TRUE))))
        ELSE /\ Len(t.stack) < MaxCalls
             /\ become(Append(SetTop(t.stack, with(TRUE)), FetchVerificationChain(e)))

\* An Agent has looked at all and answers; the Agent that asked verifies it.
AgentReturn(x) ==
    LET t == thread[x]  n == Len(t.stack)
        chain == BuiltFrom(Top(t.stack), x[1])
        asked == t.stack[n - 1]
        e == Config(asked.agent).upstreams[asked.pos]
        with == [asked EXCEPT !.downs = @ \o chain, !.errors = @ \/ ~chain[1].node.final,
                              !.pos = @ + 1]
    IN  thread' = [thread EXCEPT ![x] =
          IF n = 1 THEN [t EXCEPT !.stack = <<>>, !.payload = chain, !.step = "check"]
          ELSE IF PayloadValid(chain, e, x[1])
               THEN [t EXCEPT !.stack = SetTop(SubSeq(@, 1, n - 1), with)]
               ELSE Cut(t, n)]

Agent(x) ==
    /\ thread[x].step = "fetch"
    /\ LET f == Top(thread[x].stack) IN
       IF f.pos <= Len(Config(f.agent).upstreams) THEN AgentHop(x) ELSE AgentReturn(x)
    /\ UNCHANGED <<version, active, query, context, highWater, invalidated, generation, since,
                   changes>>

\* A request fails or times out: what runs below it has no effect any more.
RequestFails(x) ==
    /\ thread[x].step = "fetch"
    /\ \E k \in DOMAIN thread[x].stack : thread' = [thread EXCEPT ![x] = Cut(thread[x], k)]
    /\ UNCHANGED <<version, active, query, context, highWater, invalidated, generation, since,
                   changes>>

-----------------------------------------------------------------------------
(* The Wrapper's observation thread                                        *)

\* The first hop is verified, and its Agent asked with the query's challenge.
ObserveFirst(x) ==
    LET e == First[x[2]]  ok == Owner[e] \in active /\ AgentFor(e) # None /\ Owner[e] \in Keyed IN
    /\ thread[x].step = "first"
    /\ thread' = [thread EXCEPT ![x] =
          IF ok THEN [@ EXCEPT !.step = "fetch", !.stack = <<FetchVerificationChain(e)>>,
                            !.gen = generation]
          ELSE [@ EXCEPT !.step = "failed"]]
    /\ UNCHANGED <<version, active, query, context, highWater, invalidated, generation, since,
                   changes>>

ChainValid(chain, e, challenge) ==
    PayloadValid(chain, e, challenge) /\ \A i \in DOMAIN chain : NodeValid(chain, i)

\* The checks of the payload, then _update_context up to its decision: it reads
\* the last chain of this upstream, or what was persisted.
CheckChain(x) ==
    LET t == thread[x]  e == First[x[2]]
        old == IF context[e] # NoChain THEN ConfigVersion(context[e]) ELSE highWater[e]
        ok == ChainValid(t.payload, e, x[1]) /\ ~IsRollback(old, ConfigVersion(t.payload))
    IN  /\ t.step = "check"
        /\ thread' = [thread EXCEPT ![x] =
              IF ok THEN [t EXCEPT !.step = "record", !.previous = context[e]]
              ELSE [t EXCEPT !.step = "failed"]]
        /\ UNCHANGED <<version, active, query, context, highWater, invalidated, generation, since,
                       changes>>

\* The rest of _update_context.
RecordChain(x) ==
    LET t == thread[x]  e == First[x[2]] IN
    /\ t.step = "record"
    /\ invalidated' =
          IF t.previous # NoChain /\ ConfigVersion(t.previous) # ConfigVersion(t.payload)
          THEN invalidated \cup Observed(t.previous) ELSE invalidated
    /\ context' = [context EXCEPT ![e] = t.payload]
    /\ highWater' = [highWater EXCEPT ![e] = ConfigVersion(t.payload)]
    /\ thread' = [thread EXCEPT ![x].step = "done"]
    /\ UNCHANGED <<version, active, query, generation, since, changes>>

-----------------------------------------------------------------------------
(* The coordinator                                                         *)

NoThread == [step |-> "none", stack |-> <<>>, payload |-> NoChain, previous |-> NoChain, gen |-> 0]
Observing(q) == query[q].state = "observe"
Mine(q) == <<q, query[q].at>>

\* Mutant of GoOn: the same upstream again.
GoOnSame(q) ==
    /\ query' = query
    /\ thread' = [thread EXCEPT ![Mine(q)] = [NoThread EXCEPT !.step = "first"]]

\* The next upstream, or SERVFAIL.
GoOn(q) ==
    LET next == query[q].at + 1 IN
    IF next \in DOMAIN First
    THEN /\ query' = [query EXCEPT ![q].at = next, ![q].state = "observe"]
         /\ thread' = [thread EXCEPT ![<<q, next>>].step = "first"]
    ELSE query' = [query EXCEPT ![q].state = "servfail"] /\ UNCHANGED thread

Begin(q) ==
    /\ query[q].state = "new"
    /\ query' = [query EXCEPT ![q] = [@ EXCEPT !.at = 1, !.state = "observe"]]
    /\ thread' = [thread EXCEPT ![<<q, 1>>].step = "first"]
    /\ since' = [since EXCEPT ![q] = active]
    /\ UNCHANGED <<version, active, context, highWater, invalidated, generation, changes>>

\* The tasks of the UDP server: queries that began and are not decided.
Inflight == {q \in Query : query[q].state \in {"observe", "verify"}}

\* datagram_received at the limit: SERVFAIL at once.  Queries over TCP, which
\* the limit does not count, begin regardless.
Overloaded(q) ==
    /\ query[q].state = "new" /\ Cardinality(Inflight) >= MaxInflight
    /\ query' = [query EXCEPT ![q].state = "servfail"]
    /\ UNCHANGED <<version, active, thread, context, highWater, invalidated, generation, since,
                   changes>>

\* wait_for gives up on the thread, which goes on; or the thread has failed.
ObservationFails(q) ==
    /\ Observing(q) /\ thread[Mine(q)].step # "done"
    /\ GoOn(q)
    /\ UNCHANGED <<version, active, context, highWater, invalidated, generation, since, changes>>

\* all(result.accepted), the Agent is the resolver's, and no result is of an
\* earlier generation of the cache; or the answer did not come.
Verdict(q, firstOk, gen) ==
    LET chain == thread[Mine(q)].payload
        known == context[First[query[q].at]]
    IN  IF firstOk /\ AllAccepted(chain) /\ gen = generation
            /\ known # NoChain /\ known[1].node.id = Owner[First[query[q].at]]
        THEN /\ query' = [query EXCEPT ![q].state = "released", ![q].chain = chain]
             /\ UNCHANGED thread
        ELSE GoOn(q)

\* consume_invalidated_endpoints, and the invalidation of each in the cache.
ConsumeInvalidated == invalidated' = {} /\ generation' = generation + 1

\* The thread is done.  What any thread has invalidated expires in the cache,
\* and then the first hop is verified again before the decision.
Gather(q) ==
    /\ Observing(q) /\ thread[Mine(q)].step = "done"
    /\ IF invalidated # {}
       THEN /\ ConsumeInvalidated
            /\ query' = [query EXCEPT ![q].state = "verify"] /\ UNCHANGED thread
       ELSE /\ Verdict(q, TRUE, thread[Mine(q)].gen) \/ GoOn(q)
            /\ UNCHANGED <<invalidated, generation>>
    /\ UNCHANGED <<version, active, context, highWater, since, changes>>

VerifyAgain(q) ==
    /\ query[q].state = "verify"
    /\ Verdict(q, Owner[First[query[q].at]] \in active, generation) \/ GoOn(q)
    /\ UNCHANGED <<version, active, context, highWater, invalidated, generation, since, changes>>

-----------------------------------------------------------------------------
(* Around them                                                             *)

Change == changes < MaxChanges /\ changes' = changes + 1

\* An Agent is restarted with another configuration: its requests are lost.
Reconfigure(r, v) ==
    /\ v # version[r] /\ Change
    /\ version' = [version EXCEPT ![r] = v]
    /\ thread' = [x \in Threads |->
          LET at == {k \in DOMAIN thread[x].stack : thread[x].stack[k].agent = r}
          IN  IF at = {} THEN thread[x]
              ELSE Cut(thread[x], CHOOSE k \in at : \A j \in at : k <= j)]
    /\ UNCHANGED <<active, query, context, highWater, invalidated, generation, since>>

\* The Registry revokes a resolver, or has it active again under a new object.
Flip(r) ==
    /\ Change
    /\ active' = IF r \in active THEN active \ {r} ELSE active \cup {r}
    /\ since' = [q \in Query |-> since[q] \cup active']
    /\ UNCHANGED <<version, query, thread, context, highWater, invalidated, generation>>

\* The event watcher invalidates a row of the Wrapper's cache.
Invalidate ==
    /\ Change
    /\ generation' = generation + 1
    /\ UNCHANGED <<version, active, query, thread, context, highWater, invalidated, since>>

\* The Wrapper restarts: what is in memory is gone, queries and threads too.
Restart ==
    /\ Change
    /\ context' = [e \in Elements(First) |-> NoChain]
    /\ invalidated' = {}
    /\ thread' = [x \in Threads |-> NoThread]
    /\ query' = [q \in Query |->
          IF q \in Inflight THEN [query[q] EXCEPT !.state = "lost"] ELSE query[q]]
    /\ UNCHANGED <<version, active, highWater, generation, since>>

-----------------------------------------------------------------------------
Init ==
    /\ version = [r \in Resolver |-> 1]
    /\ active = Resolver
    /\ query = [q \in Query |-> [at |-> 0, state |-> "new", chain |-> NoChain]]
    /\ thread = [x \in Threads |-> NoThread]
    /\ context = [e \in Elements(First) |-> NoChain]
    /\ highWater = [e \in Elements(First) |-> <<>>]
    /\ invalidated = {}
    /\ generation = 1
    /\ since = [q \in Query |-> {}]
    /\ changes = 0

Coordinator(q) == ObservationFails(q) \/ Gather(q) \/ VerifyAgain(q)

Next ==
    \/ \E q \in Query : Begin(q)
    \/ \E q \in Query : Overloaded(q)
    \/ \E q \in Query : Coordinator(q)
    \/ \E x \in Threads : ObserveFirst(x) \/ CheckChain(x) \/ RecordChain(x)
    \/ \E x \in Threads : Agent(x)
    \/ \E x \in Threads : RequestFails(x)
    \/ \E r \in Resolver : \E v \in DOMAIN Configs[r] : Reconfigure(r, v)
    \/ \E r \in Resolver : Flip(r)
    \/ Invalidate
    \/ Restart

\* The deadline passes and the event loop runs; Agents and threads may hang.
FairSpec == Init /\ [][Next]_vars /\ \A q \in Query : WF_vars(Coordinator(q))

-----------------------------------------------------------------------------
(* Properties                                                              *)

\* Every upstream that an Agent of the chain was configured with, and that is
\* not a terminal, has a chain of its own, and all were ACTIVE meanwhile.
Covered(chain, q) ==
    \A i \in DOMAIN chain :
        LET node == chain[i].node  c == Configs[node.id][node.version] IN
        /\ node.id \in since[q] /\ node.challenge = q
        /\ \A e \in Elements(c.upstreams) \ c.terminal : \E d \in Downs(chain, i) :
              chain[d].node.endpoint = e /\ chain[d].node.id = Owner[e]

\* An answer is released only over a chain, made for this query, that leaves
\* out no upstream of any Agent on it, each of them ACTIVE in the Registry at
\* some moment since the query began; whatever requests failed, Agents were
\* reconfigured, and URLs lead to the wrong Agent.
ReleasedCovered ==
    \A q \in Query : query[q].state = "released" =>
        /\ query[q].chain[1].node.id = Owner[First[query[q].at]]
        /\ Covered(query[q].chain, q)

\* The two ends agree: a chain that the Agent of the upstream built without an
\* error passes all of the Wrapper's checks, unless it is too deep or too long
\* or the Agent lists an upstream twice.
BuiltChainsAccepted ==
    \A x \in Threads : thread[x].step = "check" =>
        LET chain == thread[x].payload  root == chain[1].node IN
        /\ root.final /\ root.endpoint = First[x[2]]
        /\ Distinct(Configs[root.id][root.version].upstreams)
        /\ Len(chain) <= MaxNodes /\ \A i \in DOMAIN chain : chain[i].depth < MaxDepth
        => ChainValid(chain, First[x[2]], x[1]) /\ AllAccepted(chain)

\* Every query is answered or fails, however long Agents and threads hang.
QueriesDecided ==
    \A q \in Query : query[q].state = "observe" ~> query[q].state \in {"released", "servfail", "lost"}

=============================================================================
