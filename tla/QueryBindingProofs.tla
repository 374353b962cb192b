-------------------------- MODULE QueryBindingProofs --------------------------
(***************************************************************************)
(* Proofs about QueryBinding: transaction IDs are exclusive, an event      *)
(* proves one request, a context's boundary admits its own event, and a    *)
(* released answer rests on the event of its own resolution.               *)
(*                                                                         *)
(* The first holds of the specification as it stands.  The others need     *)
(* what they say they need: that nothing is delivered again after it was   *)
(* purged (LongRetention), that the newest row is not purged while a       *)
(* context waits (~QuietPurge), that an ID is used again only after the    *)
(* last events of its earlier use (PromptTrace) and that no peer asks one  *)
(* of the Wrapper's questions under an ID of the Wrapper's (PeersApart).   *)
(***************************************************************************)
EXTENDS QueryBinding, TLAPS

-----------------------------------------------------------------------------
(* The inductive invariant that needs no assumption.                       *)

Holding == {"register", "sent", "permit", "verify"}
Sent == {"sent", "permit", "verify"}

WrapperType ==
  /\ pc \in [Queries -> {"new", "acquire", "register", "sent", "permit",
                         "verify", "released", "servfail"}]
  /\ up \in [Queries -> Upstreams]
  /\ tx \in [Queries -> TxIds \cup {NoTx}]
  /\ active \subseteq TxIds /\ cooling \subseteq TxIds /\ next \in TxIds

\* The event that ends exchange x, once the resolver has answered it.
EventOf(x) == [by |-> x, tx |-> begun[x], resp |-> answered[x]]
Reported(e) == e.by \in DOMAIN answered /\ e = EventOf(e.by)

ResolverType ==
  /\ DOMAIN begun \subseteq Exchanges
  /\ \A x \in DOMAIN begun : begun[x] \in Nat
  /\ DOMAIN answered \subseteq DOMAIN begun
  /\ \A x \in DOMAIN answered : answered[x] \in Responses

\* Every event tells of an answer the resolver gave, wherever the event is.
EventInv ==
  /\ \A e \in transit : Reported(e)
  /\ \A i \in DOMAIN rows : Reported(rows[i])
  /\ \A x \in DOMAIN anchor : Reported(anchor[x])

\* An event has one row, and a claim belongs to an event that has one.
RowsInv ==
  /\ DOMAIN rows \subseteq Nat \ {0}
  /\ \A i, j \in DOMAIN rows : rows[i] = rows[j] => i = j
  /\ DOMAIN claims \subseteq Range(rows)

AgentType ==
  /\ \A e \in DOMAIN claims : claims[e] \in Exchanges
  /\ agent \in [Exchanges -> {"none", "polling", "claimed", "failed"}]
  /\ DOMAIN anchor \subseteq Exchanges
  /\ restarts \in 0..MaxRestarts /\ purges \in 0..MaxPurges

\* A context is that of an attempt the resolver has been sent.
ContextInv ==
  \A a \in DOMAIN ctx :
    /\ a \in Attempts /\ a \in DOMAIN begun
    /\ ctx[a] \in [tx : TxIds, min : Nat \ {0}, consumed : BOOLEAN]
    /\ ctx[a].tx = begun[a]

\* A query holds an ID between its acquisition and the end of the attempt.
PoolInv ==
  /\ \A q \in Queries : tx[q] # NoTx <=> pc[q] \in Holding
  /\ TxExclusive

\* The upstreams are tried in order, each of them once.
BegunInv ==
  /\ \A q \in Queries : \A k \in Upstreams :
       <<q, k>> \in DOMAIN begun =>
         /\ k <= up[q]
         /\ k = up[q] => pc[q] \notin {"new", "acquire", "register"}
  /\ \A q \in Queries : pc[q] \in Sent =>
       /\ Attempt(q) \in DOMAIN begun
       /\ begun[Attempt(q)] = tx[q]

BindingInv ==
  /\ WrapperType
  /\ ResolverType
  /\ EventInv
  /\ RowsInv
  /\ AgentType
  /\ ContextInv
  /\ PoolInv
  /\ BegunInv

-----------------------------------------------------------------------------
(* The invariants that need an assumption.                                 *)

\* With LongRetention: what a request claimed it still holds, or the event is
\* gone for good.
UsedInv ==
  /\ \A x \in DOMAIN anchor :
       \/ anchor[x] \in DOMAIN claims /\ claims[anchor[x]] = x
       \/ anchor[x] \notin Range(rows) /\ anchor[x] \notin transit
  /\ EventUsedOnce

\* Without QuietPurge: the rowids stay above the boundaries given out.
BoundaryInv ==
  /\ \A a \in DOMAIN ctx : ctx[a].min = 1 \/ \E i \in DOMAIN rows : i + 1 >= ctx[a].min
  /\ BoundaryAdmitsOwn

\* No peer asks a question of the Wrapper's under an ID the Wrapper may use.
PeersApart ==
  \A p \in Peers, q \in Queries : PeerTx[p] \in TxIds => QuestionOf[p] # QuestionOf[q]

\* Nothing more is to come from the attempts that used an ID, but for those in S.
QuietBut(i, S) ==
  /\ \A e \in transit : e.tx = i /\ e.by \in Attempts => e.by \in S
  /\ \A b \in DOMAIN begun :
       b \in Attempts /\ begun[b] = i /\ b \notin S => b \in DOMAIN answered

\* A peer's events carry the ID the peer chose.
PeerInv == \A p \in Peers : p \in DOMAIN begun => begun[p] = PeerTx[p]

\* With PromptTrace: an ID in nobody's hands is quiet, an ID in use is quiet
\* but for the attempt that uses it, and the rows of its earlier users lie below
\* that attempt's boundary.
QuietInv ==
  /\ \A i \in Free : QuietBut(i, {})
  /\ \A q \in Queries : pc[q] \in Holding => QuietBut(tx[q], {Attempt(q)})
  /\ \A q \in Queries : pc[q] \in Sent /\ Attempt(q) \in DOMAIN ctx =>
       \A j \in DOMAIN rows :
         rows[j].tx = tx[q] /\ rows[j].by \in Attempts /\ rows[j].by # Attempt(q)
           => j < ctx[Attempt(q)].min

\* What the Agent claimed for the attempt in hand is the attempt's own event,
\* and nothing is claimed for a released attempt again.
AnchorInv ==
  /\ \A q \in Queries : pc[q] \in {"verify", "released"} /\ agent[Attempt(q)] = "claimed" =>
       Attempt(q) \in DOMAIN anchor /\ anchor[Attempt(q)].by = Attempt(q)
  /\ \A q \in Queries : pc[q] = "released" => agent[Attempt(q)] = "claimed"

OwnInv == PeerInv /\ QuietInv /\ AnchorInv

-----------------------------------------------------------------------------
(* Facts about the data.                                                   *)

\* The empty table: no row, no value.
LEMMA EmptyFacts == DOMAIN Empty = {} /\ Range(Empty) = {}
  BY DEF Empty, Range

\* A query's attempt is an attempt, and attempts are told apart by both parts.
LEMMA AttemptFacts ==
  ASSUME up \in [Queries -> Upstreams]
  PROVE  /\ \A q \in Queries : Attempt(q) \in Attempts /\ Attempt(q) \in Exchanges
         /\ \A p, q \in Queries : Attempt(p) = Attempt(q) => p = q
         /\ \A p \in Peers : p \notin Attempts /\ p \in Exchanges
  BY QueryAssumption DEF Attempt, Attempts, Exchanges

\* IDs are numbers, and NoTx is none of them.
LEMMA IdFacts == NoTx \notin TxIds /\ TxIds \subseteq Nat /\ 0 \in TxIds
  BY SizeAssumption DEF NoTx, TxIds

\* The upstreams are numbered from 1.
LEMMA UpFacts == Upstreams \subseteq Nat /\ 1 \in Upstreams
  BY SizeAssumption DEF Upstreams

-----------------------------------------------------------------------------
(* What the steps of the Wrapper do.                                       *)

\* A step that ends an attempt.
Ends(q) == RegisterFails(q) \/ UpstreamFails(q) \/ Release(q) \/ VerifyFails(q)

\* An attempt ends: its ID is put to rest, and the query tries its next
\* upstream or is answered.
LEMMA EndsFields ==
  ASSUME WrapperType, PoolInv, NEW q \in Queries, Ends(q)
  PROVE  /\ WrapperType'
         /\ pc[q] \in Holding /\ pc'[q] \in {"acquire", "released", "servfail"}
         /\ tx'[q] = NoTx
         /\ \A p \in Queries : p # q => pc'[p] = pc[p] /\ up'[p] = up[p] /\ tx'[p] = tx[p]
         /\ \/ up'[q] = up[q] /\ pc'[q] # "acquire"
            \/ up'[q] = up[q] + 1 /\ pc'[q] = "acquire"
         /\ pc'[q] = "released" =>
              pc[q] = "verify" /\ up' = up /\ agent[Attempt(q)] = "claimed"
         /\ active' = active \ {tx[q]} /\ cooling' = cooling \cup {tx[q]}
         /\ UNCHANGED <<resolverVars, agentVars, restarts, purges>>
<1>1. DropPermit(q) /\ next' = next /\ UNCHANGED <<resolverVars, agentVars, restarts, purges>>
  BY DEF Ends, RegisterFails, UpstreamFails, Release, VerifyFails, NextUpstream
<1>2. pc[q] \in Holding
  BY DEF Ends, RegisterFails, UpstreamFails, Release, VerifyFails, Holding
<1>3. tx[q] \in TxIds
  BY <1>2 DEF WrapperType, PoolInv
<1>4. \/ up' = up /\ \E p \in {"released", "servfail"} : pc' = [pc EXCEPT ![q] = p]
      \/ /\ up[q] < NumUpstreams /\ up' = [up EXCEPT ![q] = @ + 1]
         /\ pc' = [pc EXCEPT ![q] = "acquire"]
  BY DEF Ends, RegisterFails, UpstreamFails, Release, VerifyFails, NextUpstream, Goto
<1>5. up[q] < NumUpstreams => up[q] + 1 \in Upstreams
  BY SizeAssumption DEF Upstreams, WrapperType
<1>6. tx' = [tx EXCEPT ![q] = NoTx] /\ active' = active \ {tx[q]}
      /\ cooling' = cooling \cup {tx[q]}
  BY <1>1 DEF DropPermit
<1>7. pc' \in [Queries -> {"new", "acquire", "register", "sent", "permit",
                         "verify", "released", "servfail"}]
      /\ up' \in [Queries -> Upstreams]
  BY <1>4, <1>5 DEF WrapperType
<1>8. pc'[q] \in {"acquire", "released", "servfail"}
      /\ \A p \in Queries : p # q => pc'[p] = pc[p] /\ up'[p] = up[p]
  BY <1>4 DEF WrapperType
<1>9. \/ up'[q] = up[q] /\ pc'[q] # "acquire"
      \/ up'[q] = up[q] + 1 /\ pc'[q] = "acquire"
  BY <1>4 DEF WrapperType
<1>10. pc'[q] = "released" => pc[q] = "verify" /\ up' = up /\ agent[Attempt(q)] = "claimed"
  <2>1. CASE Release(q)
    BY <2>1 DEF Release, DropPermit
  <2>2. CASE ~Release(q)
    BY <2>2, <1>4 DEF Ends, RegisterFails, UpstreamFails, VerifyFails, NextUpstream, Goto,
                      WrapperType
  <2> QED BY <2>1, <2>2
<1>11. tx' \in [Queries -> TxIds \cup {NoTx}] /\ tx'[q] = NoTx
       /\ \A p \in Queries : p # q => tx'[p] = tx[p]
  BY <1>6 DEF WrapperType
<1>12. WrapperType'
  BY <1>3, <1>6, <1>7, <1>11, <1>1 DEF WrapperType
<1> QED BY <1>1, <1>2, <1>6, <1>8, <1>9, <1>10, <1>11, <1>12

\* A step of a query that leaves its attempt and the ID as they are.
Moves(q) == Accept(q) \/ Receive(q) \/ Verify(q)

\* The steps of an attempt that leave its ID alone.
LEMMA MovesFields ==
  ASSUME WrapperType, NEW q \in Queries, Moves(q)
  PROVE  /\ WrapperType'
         /\ \/ pc[q] = "new" /\ pc'[q] \in {"acquire", "servfail"}
            \/ pc[q] = "sent" /\ pc'[q] = "permit"
            \/ pc[q] = "permit" /\ pc'[q] = "verify" /\ agent' = [agent EXCEPT ![Attempt(q)] = "polling"]
         /\ pc[q] # "permit" => agent' = agent
         /\ \A p \in Queries : p # q => pc'[p] = pc[p]
         /\ UNCHANGED <<up, tx, active, cooling, next, resolverVars, ctx, rows, claims, anchor,
                        restarts, purges>>
<1>1. \E p \in {"acquire", "servfail", "permit", "verify"} : pc' = [pc EXCEPT ![q] = p]
  BY DEF Moves, Accept, Receive, Verify, Goto
<1>2. UNCHANGED <<up, tx, active, cooling, next, resolverVars, ctx, rows, claims, anchor,
                  restarts, purges>>
  BY DEF Moves, Accept, Receive, Verify, agentVars
<1>3. WrapperType' /\ \A p \in Queries : p # q => pc'[p] = pc[p]
  BY <1>1, <1>2 DEF WrapperType
<1>4. \/ pc[q] = "new" /\ pc'[q] \in {"acquire", "servfail"}
      \/ pc[q] = "sent" /\ pc'[q] = "permit"
      \/ pc[q] = "permit" /\ pc'[q] = "verify" /\ agent' = [agent EXCEPT ![Attempt(q)] = "polling"]
  BY DEF Moves, Accept, Receive, Verify, Goto, WrapperType
<1>5. pc[q] # "permit" => agent' = agent
  BY DEF Moves, Accept, Receive, Verify, agentVars
<1> QED BY <1>2, <1>3, <1>4, <1>5

\* The pool gives out an ID that is neither in use nor cooling down.
LEMMA AcquireFields ==
  ASSUME WrapperType, NEW q \in Queries, Acquire(q)
  PROVE  /\ WrapperType'
         /\ pc[q] = "acquire"
         /\ \A p \in Queries : p # q => pc'[p] = pc[p] /\ tx'[p] = tx[p]
         /\ \/ pc'[q] = "servfail" /\ UNCHANGED <<tx, active>>
            \/ /\ pc'[q] = "register" /\ tx'[q] \in Free
               /\ active' = active \cup {tx'[q]}
         /\ UNCHANGED <<up, cooling, resolverVars, agentVars, restarts, purges>>
<1>1. pc[q] = "acquire" /\ UNCHANGED <<up, cooling, resolverVars, agentVars, restarts, purges>>
  BY DEF Acquire
<1>2. CASE UNCHANGED <<tx, active, next>> /\ Goto(q, "servfail")
  BY <1>1, <1>2 DEF Goto, WrapperType
<1>3. CASE \E i \in TxIds : /\ FirstFree(i)
                            /\ tx' = [tx EXCEPT ![q] = i]
                            /\ active' = active \cup {i}
                            /\ next' = (i + 1) % NumIds
                            /\ Goto(q, "register")
  <2> PICK i \in TxIds : /\ FirstFree(i)
                         /\ tx' = [tx EXCEPT ![q] = i]
                         /\ active' = active \cup {i}
                         /\ next' = (i + 1) % NumIds
                         /\ Goto(q, "register")
    BY <1>3
  <2>1. (i + 1) % NumIds \in TxIds
    BY SizeAssumption DEF TxIds
  <2>2. i \in Free
    BY DEF FirstFree
  <2>3. pc' = [pc EXCEPT ![q] = "register"]
    BY DEF Goto
  <2>4. WrapperType'
    BY <1>1, <2>1, <2>3 DEF WrapperType
  <2>5. /\ pc'[q] = "register" /\ tx'[q] = i
        /\ \A p \in Queries : p # q => pc'[p] = pc[p] /\ tx'[p] = tx[p]
    BY <2>3 DEF WrapperType
  <2> QED BY <1>1, <2>2, <2>4, <2>5
<1> QED BY <1>2, <1>3 DEF Acquire

\* A context is registered above every row there is, before the query is sent.
LEMMA RegisterFields ==
  ASSUME WrapperType, NEW q \in Queries, Register(q)
  PROVE  /\ WrapperType'
         /\ pc[q] = "register" /\ pc'[q] = "sent"
         /\ \A p \in Queries : p # q => pc'[p] = pc[p]
         /\ \E n \in Nat \ {0} :
              /\ IsNextRowid(n)
              /\ ctx' = Put(ctx, Attempt(q), [tx |-> tx[q], min |-> n, consumed |-> FALSE])
         /\ begun' = Put(begun, Attempt(q), tx[q])
         /\ UNCHANGED <<up, tx, active, cooling, next, answered, transit, rows, claims, agent,
                        anchor, restarts, purges>>
<1>1. RowidBound \subseteq Nat \ {0}
  BY DEF RowidBound
<1>2. WrapperType' /\ pc'[q] = "sent" /\ \A p \in Queries : p # q => pc'[p] = pc[p]
  BY DEF WrapperType, Register, Goto
<1> QED BY <1>1, <1>2 DEF Register

\* A restart forgets every ID and gives up what was in flight.
LEMMA RestartFields ==
  ASSUME WrapperType, Restart
  PROVE  /\ WrapperType'
         /\ \A q \in Queries : /\ tx'[q] = NoTx
                               /\ pc'[q] \notin Holding /\ pc'[q] # "acquire"
                               /\ pc'[q] = pc[q] \/ pc'[q] = "servfail"
         /\ active' = {} /\ cooling' = {}
         /\ UNCHANGED <<up, resolverVars, agentVars, purges>>
         /\ restarts' = restarts + 1 /\ restarts < MaxRestarts
<1>1. pc' = [q \in Queries |-> IF q \in Busy THEN "servfail" ELSE pc[q]]
  BY DEF Restart
<1>2. ASSUME NEW q \in Queries
      PROVE  /\ pc'[q] \notin Holding /\ pc'[q] # "acquire"
             /\ pc'[q] = pc[q] \/ pc'[q] = "servfail"
             /\ pc'[q] \in {"new", "acquire", "register", "sent", "permit",
                            "verify", "released", "servfail"}
  BY <1>1 DEF Busy, Holding, WrapperType
<1>3. WrapperType'
  BY <1>1, <1>2, IdFacts DEF Restart, WrapperType
<1> QED BY <1>2, <1>3 DEF Restart

\* The other steps leave the Wrapper alone.
Elsewhere ==
  \/ \E p \in Peers : PeerQuery(p) \/ PeerRequest(p) \/ PeerClaim(p)
  \/ \E x \in Exchanges : (\E r \in Responses : Resolve(x, r)) \/ GiveUp(x)
  \/ \E e \in transit : Ingest(e)
  \/ \E a \in Attempts : Claim(a) \/ ExpireContext(a)
  \/ \E old \in SUBSET DOMAIN rows : PurgeEvents(old)
  \/ UNCHANGED vars

\* The resolver, the agent and the peers never touch the state of the wrapper.
LEMMA ElsewhereFields ==
  ASSUME Elsewhere
  PROVE  UNCHANGED wrapperVars
         /\ (UNCHANGED begun \/ \E p \in Peers : PeerQuery(p))
  BY DEF Elsewhere, PeerQuery, PeerRequest, PeerClaim, Resolve, GiveUp, Ingest, Claim,
         ExpireContext, PurgeEvents, vars, resolverVars, agentVars

\* Every step, by what it does to the wrapper.
LEMMA NextSplit ==
  ASSUME [Next]_vars
  PROVE  \/ \E q \in Queries : Moves(q) \/ Acquire(q) \/ Register(q) \/ Ends(q)
         \/ \E i \in TxIds : CoolDown(i)
         \/ Restart
         \/ Elsewhere
  BY DEF Next, Moves, Ends, Elsewhere

-----------------------------------------------------------------------------
(* The parts of the invariant, one by one.                                 *)

\* Every step keeps the types of the wrapper's state.
LEMMA WrapperTypeStep ==
  ASSUME WrapperType, PoolInv, [Next]_vars
  PROVE  WrapperType'
<1>1. CASE \E q \in Queries : Moves(q) \/ Acquire(q) \/ Register(q) \/ Ends(q)
  BY <1>1, MovesFields, AcquireFields, RegisterFields, EndsFields
<1>2. CASE \E i \in TxIds : CoolDown(i)
  BY <1>2 DEF CoolDown, WrapperType
<1>3. CASE Restart
  BY <1>3, RestartFields
<1>4. CASE Elsewhere
  BY <1>4, ElsewhereFields DEF wrapperVars, WrapperType
<1> QED BY <1>1, <1>2, <1>3, <1>4, NextSplit

\* Every step keeps the pool: an ID that is held is active, and held by one
\* query.
LEMMA PoolStep ==
  ASSUME WrapperType, PoolInv, [Next]_vars
  PROVE  PoolInv'
<1> USE DEF PoolInv, TxExclusive
<1>1. ASSUME NEW q \in Queries, Moves(q)
      PROVE  PoolInv'
  <2>1. \A p \in Queries : pc'[p] \in Holding <=> pc[p] \in Holding
    BY <1>1, MovesFields DEF Holding
  <2> QED BY <1>1, <2>1, MovesFields
<1>2. ASSUME NEW q \in Queries, Acquire(q)
      PROVE  PoolInv'
  <2>1. tx[q] = NoTx /\ \A p \in Queries : tx[p] \in TxIds \cup {NoTx}
    BY <1>2, AcquireFields DEF Holding, WrapperType
  <2>2. CASE pc'[q] = "servfail" /\ UNCHANGED <<tx, active>>
    BY <1>2, <2>1, <2>2, AcquireFields DEF Holding
  <2>3. CASE pc'[q] = "register" /\ tx'[q] \in Free /\ active' = active \cup {tx'[q]}
    <3>1. /\ tx'[q] \in TxIds /\ tx'[q] # NoTx /\ tx'[q] \notin active /\ tx'[q] \notin cooling
          /\ cooling' = cooling
      BY <1>2, <2>3, IdFacts, AcquireFields DEF Free
    <3>2. \A p \in Queries : p # q => tx'[p] = tx[p] /\ pc'[p] = pc[p] /\ tx'[p] # tx'[q]
      BY <1>2, <3>1, AcquireFields
    <3>3. \A p \in Queries : tx'[p] # NoTx <=> pc'[p] \in Holding
      BY <2>3, <3>1, <3>2 DEF Holding
    <3>4. active' = {tx'[p] : p \in Queries} \ {NoTx}
      <4>1. ASSUME NEW i \in active' PROVE i \in {tx'[p] : p \in Queries} \ {NoTx}
        BY <2>1, <2>3, <3>1, <3>2
      <4>2. ASSUME NEW p \in Queries, tx'[p] # NoTx PROVE tx'[p] \in active'
        BY <4>2, <2>3, <3>2
      <4> QED BY <4>1, <4>2
    <3> QED BY SMTT(30), <2>3, <3>1, <3>2, <3>3, <3>4
  <2> QED BY <1>2, <2>2, <2>3, AcquireFields
<1>3. ASSUME NEW q \in Queries, Register(q)
      PROVE  PoolInv'
  BY <1>3, RegisterFields DEF Holding
<1>4. ASSUME NEW q \in Queries, Ends(q)
      PROVE  PoolInv'
  <2>1. tx[q] # NoTx /\ tx'[q] = NoTx /\ pc'[q] \notin Holding
    BY <1>4, EndsFields DEF Holding
  <2>2. \A p \in Queries : p # q => tx'[p] = tx[p] /\ pc'[p] = pc[p] /\ tx[p] # tx[q]
    BY <1>4, <2>1, EndsFields
  <2>3. active' = active \ {tx[q]} /\ cooling' = cooling \cup {tx[q]}
    BY <1>4, EndsFields
  <2>4. active' = {tx'[p] : p \in Queries} \ {NoTx}
    <3>1. ASSUME NEW i \in active' PROVE i \in {tx'[p] : p \in Queries} \ {NoTx}
      BY <2>1, <2>2, <2>3
    <3>2. ASSUME NEW p \in Queries, tx'[p] # NoTx PROVE tx'[p] \in active'
      BY <3>2, <2>1, <2>2, <2>3
    <3> QED BY <3>1, <3>2
  <2> QED BY <2>1, <2>2, <2>3, <2>4
<1>5. CASE \E i \in TxIds : CoolDown(i)
  BY <1>5 DEF CoolDown
<1>6. CASE Restart
  BY <1>6, RestartFields
<1>7. CASE Elsewhere
  BY <1>7, ElsewhereFields DEF wrapperVars
<1> QED BY <1>1, <1>2, <1>3, <1>4, <1>5, <1>6, <1>7, NextSplit

-----------------------------------------------------------------------------
(* What the steps do to the resolver's and the Agent's state.              *)

dataVars == <<resolverVars, ctx, rows, claims, anchor>>

\* The row of an event is bound to exchange x.
Takes(x, i) ==
  /\ agent[x] = "polling" /\ agent' = [agent EXCEPT ![x] = "claimed"]
  /\ rows[i] \in DOMAIN claims => claims[rows[i]] = x
  /\ claims' = Put(claims, rows[i], x)
  /\ anchor' = Put(anchor, x, rows[i])
  /\ UNCHANGED <<wrapperVars, resolverVars, rows, restarts, purges>>

ClaimTakes(a, i) ==
  /\ a \in DOMAIN ctx /\ Candidate(a, i)
  /\ Takes(a, i)
  /\ ctx' = [ctx EXCEPT ![a].consumed = TRUE]

PeerTakes(p, i) == Takes(p, i) /\ UNCHANGED ctx

\* Every step, by what it does to the events, the rows and the claims.
LEMMA DataSplit ==
  ASSUME WrapperType, PoolInv, [Next]_vars
  PROVE  \/ UNCHANGED dataVars
         \/ \E q \in Queries : Register(q)
         \/ \E p \in Peers : PeerQuery(p)
         \/ \E x \in Exchanges, r \in Responses : Resolve(x, r)
         \/ \E e \in transit : Ingest(e)
         \/ \E a \in Attempts : \E i \in DOMAIN rows : ClaimTakes(a, i)
         \/ \E p \in Peers : \E i \in DOMAIN rows : PeerTakes(p, i)
         \/ \E a \in Attempts : ExpireContext(a)
         \/ \E old \in SUBSET DOMAIN rows : PurgeEvents(old)
<1>1. CASE \E q \in Queries : Moves(q) \/ Acquire(q) \/ Register(q) \/ Ends(q)
  BY <1>1, MovesFields, AcquireFields, EndsFields DEF dataVars, agentVars
<1>2. CASE \E i \in TxIds : CoolDown(i)
  BY <1>2 DEF CoolDown, dataVars, agentVars
<1>3. CASE Restart
  BY <1>3 DEF Restart, dataVars, agentVars
<1>4. ASSUME NEW a \in Attempts, Claim(a)
      PROVE  UNCHANGED dataVars \/ \E i \in DOMAIN rows : ClaimTakes(a, i)
  BY <1>4 DEF Claim, Fail, ClaimTakes, Takes, dataVars
<1>5. ASSUME NEW p \in Peers, PeerClaim(p)
      PROVE  \E i \in DOMAIN rows : PeerTakes(p, i)
  BY <1>5 DEF PeerClaim, PeerCandidate, PeerTakes, Takes
<1>6. ASSUME NEW x \in Exchanges, GiveUp(x)
      PROVE  UNCHANGED dataVars
  BY <1>6 DEF GiveUp, Fail, dataVars
<1>7. ASSUME NEW p \in Peers, PeerRequest(p)
      PROVE  UNCHANGED dataVars
  BY <1>7 DEF PeerRequest, dataVars
<1>8. CASE UNCHANGED vars
  BY <1>8 DEF vars, dataVars, agentVars
<1>9. CASE Elsewhere
  BY <1>9, <1>4, <1>5, <1>6, <1>7, <1>8 DEF Elsewhere
<1> QED BY <1>1, <1>2, <1>3, <1>9, NextSplit

\* A new event gets a rowid above every row there is.
LEMMA IngestFields ==
  ASSUME NEW e \in transit, Ingest(e)
  PROVE  /\ \/ UNCHANGED rows
            \/ \E n \in Nat \ {0} :
                 /\ IsNextRowid(n) /\ rows' = Put(rows, n, e)
                 /\ \A i \in DOMAIN rows : rows[i] # e
         /\ \A f \in transit' : f \in transit
         /\ UNCHANGED <<wrapperVars, answered, begun, ctx, claims, agent, anchor, restarts, purges>>
<1>1. RowidBound \subseteq Nat \ {0}
  BY DEF RowidBound
<1> QED BY <1>1 DEF Ingest, Range

\* What the resolver was asked and what it answered is never changed.
LEMMA Grows ==
  ASSUME BindingInv, [Next]_vars
  PROVE  /\ \A x \in DOMAIN begun : x \in DOMAIN begun' /\ begun'[x] = begun[x]
         /\ \A x \in DOMAIN answered : x \in DOMAIN answered' /\ answered'[x] = answered[x]
<1> USE DEF BindingInv
<1>1. CASE UNCHANGED dataVars
  BY <1>1 DEF dataVars, resolverVars
<1>2. ASSUME NEW q \in Queries, Register(q)
      PROVE  /\ Attempt(q) \notin DOMAIN begun
             /\ begun' = Put(begun, Attempt(q), tx[q]) /\ answered' = answered
  BY <1>2, RegisterFields DEF BegunInv, Attempt, WrapperType
<1>3. ASSUME NEW p \in Peers, PeerQuery(p)
      PROVE  /\ p \notin DOMAIN begun
             /\ begun' = Put(begun, p, PeerTx[p]) /\ answered' = answered
  BY <1>3 DEF PeerQuery
<1>4. ASSUME NEW x \in Exchanges, NEW r \in Responses, Resolve(x, r)
      PROVE  /\ x \notin DOMAIN answered
             /\ answered' = Put(answered, x, r) /\ begun' = begun
  BY <1>4 DEF Resolve
<1>5. ASSUME \/ \E e \in transit : Ingest(e)
             \/ \E a \in Attempts : \E i \in DOMAIN rows : ClaimTakes(a, i)
             \/ \E p \in Peers : \E i \in DOMAIN rows : PeerTakes(p, i)
             \/ \E a \in Attempts : ExpireContext(a)
             \/ \E old \in SUBSET DOMAIN rows : PurgeEvents(old)
      PROVE  UNCHANGED <<begun, answered>>
  BY <1>5 DEF Ingest, ClaimTakes, PeerTakes, Takes, ExpireContext, PurgeEvents, resolverVars
<1> QED BY <1>1, <1>2, <1>3, <1>4, <1>5, DataSplit DEF Put

\* Every step keeps the types of the resolver's state.
LEMMA ResolverTypeStep ==
  ASSUME BindingInv, [Next]_vars
  PROVE  ResolverType'
<1> USE DEF BindingInv
<1>1. CASE UNCHANGED dataVars
  BY <1>1 DEF dataVars, resolverVars, ResolverType
<1>2. ASSUME NEW q \in Queries, Register(q)
      PROVE  ResolverType'
  <2>1. tx[q] \in TxIds /\ Attempt(q) \in Exchanges
    BY <1>2, RegisterFields, AttemptFacts DEF PoolInv, Holding, WrapperType
  <2>2. begun' = Put(begun, Attempt(q), tx[q]) /\ answered' = answered
    BY <1>2, RegisterFields
  <2> QED BY <2>1, <2>2, IdFacts DEF ResolverType, Put
<1>3. ASSUME NEW p \in Peers, PeerQuery(p)
      PROVE  ResolverType'
  <2>1. PeerTx[p] \in Nat /\ p \in Exchanges
    BY PeerAssumption DEF Exchanges
  <2>2. begun' = Put(begun, p, PeerTx[p]) /\ answered' = answered
    BY <1>3 DEF PeerQuery
  <2> QED BY <2>1, <2>2 DEF ResolverType, Put
<1>4. ASSUME NEW x \in Exchanges, NEW r \in Responses, Resolve(x, r)
      PROVE  ResolverType'
  <2>1. x \in DOMAIN begun /\ answered' = Put(answered, x, r) /\ begun' = begun
    BY <1>4 DEF Resolve
  <2> QED BY <2>1 DEF ResolverType, Put
<1>5. ASSUME \/ \E e \in transit : Ingest(e)
             \/ \E a \in Attempts : \E i \in DOMAIN rows : ClaimTakes(a, i)
             \/ \E p \in Peers : \E i \in DOMAIN rows : PeerTakes(p, i)
             \/ \E a \in Attempts : ExpireContext(a)
             \/ \E old \in SUBSET DOMAIN rows : PurgeEvents(old)
      PROVE  ResolverType'
  BY <1>5 DEF Ingest, ClaimTakes, PeerTakes, Takes, ExpireContext, PurgeEvents, resolverVars,
              ResolverType
<1> QED BY <1>1, <1>2, <1>3, <1>4, <1>5, DataSplit

\* What was reported stays reported.
LEMMA ReportedKept ==
  ASSUME BindingInv, [Next]_vars, NEW e, Reported(e)
  PROVE  Reported(e)'
<1>1. e.by \in DOMAIN answered /\ e.by \in DOMAIN begun
  BY DEF Reported, BindingInv, ResolverType
<1>2. e.by \in DOMAIN answered' /\ begun'[e.by] = begun[e.by] /\ answered'[e.by] = answered[e.by]
  BY <1>1, Grows
<1> QED BY <1>2 DEF Reported, EventOf

\* Every step keeps the events true to the answers they tell of.
LEMMA EventStep ==
  ASSUME BindingInv, [Next]_vars
  PROVE  EventInv'
<1> USE DEF BindingInv
<1>1. SUFFICES ASSUME NEW e, \/ e \in transit'
                             \/ \E i \in DOMAIN rows' : e = rows'[i]
                             \/ \E x \in DOMAIN anchor' : e = anchor'[x]
               PROVE  Reported(e)'
  BY DEF EventInv
<1>2. SUFFICES ASSUME ~(\/ e \in transit
                        \/ \E i \in DOMAIN rows : e = rows[i]
                        \/ \E x \in DOMAIN anchor : e = anchor[x])
               PROVE  Reported(e)'
  BY ReportedKept DEF EventInv
<1>3. CASE UNCHANGED dataVars
  BY <1>1, <1>2, <1>3 DEF dataVars, resolverVars
<1>4. CASE \E q \in Queries : Register(q)
  BY <1>1, <1>2, <1>4, RegisterFields
<1>5. CASE \E p \in Peers : PeerQuery(p)
  BY <1>1, <1>2, <1>5 DEF PeerQuery, agentVars
<1>6. ASSUME NEW x \in Exchanges, NEW r \in Responses, Resolve(x, r)
      PROVE  Reported(e)'
  <2>1. e = [by |-> x, tx |-> begun[x], resp |-> r]
    BY <1>1, <1>2, <1>6 DEF Resolve, agentVars
  <2>2. x \in DOMAIN answered' /\ answered'[x] = r /\ begun' = begun
    BY <1>6 DEF Resolve, Put
  <2> QED BY <2>1, <2>2 DEF Reported, EventOf
<1>7. ASSUME NEW f \in transit, Ingest(f)
      PROVE  Reported(e)'
  <2>1. \A g \in transit' : g \in transit
    BY <1>7 DEF Ingest
  <2>2. anchor' = anchor
    BY <1>7 DEF Ingest
  <2>3. \A i \in DOMAIN rows' : rows'[i] = f \/ (i \in DOMAIN rows /\ rows'[i] = rows[i])
    <3>1. CASE UNCHANGED rows
      BY <3>1
    <3>2. CASE \E n \in Nat \ {0} : rows' = Put(rows, n, f)
      BY <3>2 DEF Put
    <3> QED BY <1>7, <3>1, <3>2, IngestFields
  <2> QED BY <1>1, <1>2, <2>1, <2>2, <2>3
<1>8. ASSUME NEW x, NEW i \in DOMAIN rows, Takes(x, i)
      PROVE  Reported(e)'
  <2>1. \A y \in DOMAIN anchor' : anchor'[y] = rows[i] \/ (y \in DOMAIN anchor /\ anchor'[y] = anchor[y])
    BY <1>8 DEF Takes, Put
  <2>2. rows' = rows /\ transit' = transit
    BY <1>8 DEF Takes, resolverVars
  <2> QED BY <1>1, <1>2, <2>1, <2>2
<1>9. CASE \E a \in Attempts : ExpireContext(a)
  BY <1>1, <1>2, <1>9 DEF ExpireContext, resolverVars
<1>10. ASSUME NEW old \in SUBSET DOMAIN rows, PurgeEvents(old)
       PROVE  Reported(e)'
  <2>1. \A i \in DOMAIN rows' : i \in DOMAIN rows /\ rows'[i] = rows[i]
    BY <1>10 DEF PurgeEvents, Drop, Restrict
  <2> QED BY <1>1, <1>2, <1>10, <2>1 DEF PurgeEvents, resolverVars
<1> QED BY <1>3, <1>4, <1>5, <1>6, <1>7, <1>8, <1>9, <1>10, DataSplit DEF ClaimTakes, PeerTakes

\* Every step keeps the upstreams tried in order.
LEMMA BegunStep ==
  ASSUME BindingInv, [Next]_vars
  PROVE  BegunInv'
<1> USE DEF BindingInv
<1>1. ASSUME NEW q \in Queries, Moves(q)
      PROVE  BegunInv'
  <2>1. \A p \in Queries : pc'[p] \in Sent => pc[p] \in Sent
    BY <1>1, MovesFields DEF Sent
  <2>2. \A p \in Queries : pc'[p] \in {"new", "acquire", "register"}
                             => pc[p] \in {"new", "acquire", "register"}
    BY <1>1, MovesFields
  <2>3. UNCHANGED <<up, tx, begun>>
    BY <1>1, MovesFields DEF resolverVars
  <2> QED BY <2>1, <2>2, <2>3 DEF BegunInv, Attempt
<1>2. ASSUME NEW q \in Queries, Acquire(q)
      PROVE  BegunInv'
  <2>1. \A p \in Queries : pc'[p] \in Sent => p # q /\ pc[p] \in Sent /\ tx'[p] = tx[p]
    BY <1>2, AcquireFields DEF Sent
  <2>2. \A p \in Queries : pc'[p] \in {"new", "acquire", "register"}
                             => pc[p] \in {"new", "acquire", "register"}
    BY <1>2, AcquireFields
  <2>3. UNCHANGED <<up, begun>>
    BY <1>2, AcquireFields DEF resolverVars
  <2> QED BY <2>1, <2>2, <2>3 DEF BegunInv, Attempt
<1>3. ASSUME NEW q \in Queries, Register(q)
      PROVE  BegunInv'
  <2>1. UNCHANGED <<up, tx>> /\ begun' = Put(begun, Attempt(q), tx[q]) /\ pc'[q] = "sent"
        /\ \A p \in Queries : p # q => pc'[p] = pc[p]
    BY <1>3, RegisterFields
  <2>2. /\ \A x \in DOMAIN begun' : x = Attempt(q) \/ x \in DOMAIN begun
        /\ Attempt(q) \in DOMAIN begun' /\ begun'[Attempt(q)] = tx[q]
        /\ \A x \in DOMAIN begun : x # Attempt(q) => x \in DOMAIN begun' /\ begun'[x] = begun[x]
    BY <2>1 DEF Put
  <2>3. ASSUME NEW p \in Queries, NEW k \in Upstreams, <<p, k>> \in DOMAIN begun'
        PROVE  k <= up'[p] /\ (k = up'[p] => pc'[p] \notin {"new", "acquire", "register"})
    <3>1. CASE <<p, k>> = Attempt(q)
      <4>1. p = q /\ k = up[q]
        BY <3>1 DEF Attempt
      <4> QED BY <4>1, <2>1, UpFacts DEF WrapperType
    <3>2. CASE <<p, k>> \in DOMAIN begun
      BY <3>2, <2>1 DEF BegunInv
    <3> QED BY <3>1, <3>2, <2>2, <2>3
  <2>4. ASSUME NEW p \in Queries, pc'[p] \in Sent
        PROVE  (Attempt(p) \in DOMAIN begun /\ begun[Attempt(p)] = tx[p])'
    <3>1. CASE p = q
      BY <3>1, <2>1, <2>2 DEF Attempt
    <3>2. CASE p # q
      <4>1. Attempt(p) # Attempt(q) /\ Attempt(p) \in DOMAIN begun /\ begun[Attempt(p)] = tx[p]
        BY <3>2, <2>1, <2>4, AttemptFacts DEF BegunInv, WrapperType
      <4> QED BY <4>1, <2>1, <2>2 DEF Attempt
    <3> QED BY <3>1, <3>2
  <2> QED BY <2>3, <2>4 DEF BegunInv
<1>4. ASSUME NEW q \in Queries, Ends(q)
      PROVE  BegunInv'
  <2>1. \A p \in Queries : pc'[p] \in Sent => p # q /\ pc[p] \in Sent /\ tx'[p] = tx[p] /\ up'[p] = up[p]
    BY <1>4, EndsFields DEF Sent
  <2>2. begun' = begun
    BY <1>4, EndsFields DEF resolverVars
  <2>3. ASSUME NEW p \in Queries, NEW k \in Upstreams, <<p, k>> \in DOMAIN begun
        PROVE  k <= up'[p] /\ (k = up'[p] => pc'[p] \notin {"new", "acquire", "register"})
    <3>1. k <= up[p] /\ (k = up[p] => pc[p] \notin {"new", "acquire", "register"})
          /\ k \in Nat /\ up[p] \in Nat
      BY <2>3, UpFacts DEF BegunInv, WrapperType
    <3>2. CASE p # q
      BY <1>4, <3>1, <3>2, EndsFields
    <3>3. CASE p = q /\ up'[q] = up[q] /\ pc'[q] # "acquire"
      <4>1. pc'[q] \notin {"new", "acquire", "register"}
        BY <1>4, <3>3, EndsFields
      <4> QED BY <4>1, <3>1, <3>3
    <3>4. CASE p = q /\ up'[q] = up[q] + 1
      BY <3>1, <3>4
    <3> QED BY <1>4, <3>2, <3>3, <3>4, EndsFields
  <2> QED BY <2>1, <2>2, <2>3 DEF BegunInv, Attempt
<1>5. CASE \E i \in TxIds : CoolDown(i)
  BY <1>5 DEF CoolDown, resolverVars, BegunInv, Attempt
<1>6. CASE Restart
  <2>1. \A p \in Queries : pc'[p] \notin Sent
    BY <1>6, RestartFields DEF Sent, Holding
  <2>2. UNCHANGED <<up, begun>> /\ \A p \in Queries : pc'[p] = pc[p] \/ pc'[p] = "servfail"
    BY <1>6, RestartFields DEF resolverVars
  <2> QED BY <2>1, <2>2 DEF BegunInv, Attempt
<1>7. CASE UNCHANGED wrapperVars /\ UNCHANGED begun
  BY <1>7 DEF wrapperVars, BegunInv, Attempt
<1>8. ASSUME NEW p \in Peers, PeerQuery(p)
      PROVE  BegunInv'
  <2>1. UNCHANGED <<pc, up, tx>>
    BY <1>8 DEF PeerQuery, wrapperVars
  <2>2. /\ \A x \in DOMAIN begun' : x \in Attempts => x \in DOMAIN begun
        /\ \A x \in DOMAIN begun : x \in DOMAIN begun' /\ begun'[x] = begun[x]
    <3>1. begun' = Put(begun, p, PeerTx[p]) /\ p \notin DOMAIN begun /\ p \notin Attempts
      BY <1>8, QueryAssumption DEF PeerQuery
    <3> QED BY <3>1 DEF Put
  <2>3. \A q \in Queries : \A k \in Upstreams : <<q, k>> \in Attempts
    BY DEF Attempts
  <2> QED BY <2>1, <2>2, <2>3 DEF BegunInv, Attempt
<1> QED BY <1>1, <1>2, <1>3, <1>4, <1>5, <1>6, <1>7, <1>8, NextSplit, ElsewhereFields

\* Every step keeps one row per event, and the claims on events with a row.
LEMMA RowsStep ==
  ASSUME BindingInv, [Next]_vars
  PROVE  RowsInv'
<1> USE DEF BindingInv
<1>1. CASE UNCHANGED <<rows, claims>>
  BY <1>1 DEF RowsInv
<1>2. ASSUME NEW e \in transit, Ingest(e)
      PROVE  RowsInv'
  <2>1. CASE UNCHANGED rows
    BY <2>1, <1>1, <1>2, IngestFields
  <2>2. ASSUME NEW n \in Nat \ {0}, IsNextRowid(n), rows' = Put(rows, n, e),
               \A i \in DOMAIN rows : rows[i] # e
        PROVE  RowsInv'
    <3>1. n \notin DOMAIN rows
      BY <2>2 DEF IsNextRowid, RowsInv
    <3>2. DOMAIN rows' = DOMAIN rows \cup {n} /\ rows'[n] = e
          /\ \A i \in DOMAIN rows : rows'[i] = rows[i]
      BY <2>2, <3>1 DEF Put
    <3>3. \A i, j \in DOMAIN rows' : rows'[i] = rows'[j] => i = j
      BY <2>2, <3>2 DEF RowsInv
    <3>4. DOMAIN claims' \subseteq Range(rows)'
      BY <1>2, <3>2, IngestFields DEF RowsInv, Range
    <3> QED BY <3>2, <3>3, <3>4 DEF RowsInv
  <2> QED BY <1>2, <2>1, <2>2, IngestFields
<1>3. ASSUME NEW x, NEW i \in DOMAIN rows, Takes(x, i)
      PROVE  RowsInv'
  <2>1. rows' = rows /\ DOMAIN claims' = DOMAIN claims \cup {rows[i]}
    BY <1>3 DEF Takes, Put
  <2> QED BY <2>1 DEF RowsInv, Range
<1>4. ASSUME NEW old \in SUBSET DOMAIN rows, PurgeEvents(old)
      PROVE  RowsInv'
  <2>1. DOMAIN rows' = DOMAIN rows \ old /\ \A i \in DOMAIN rows' : rows'[i] = rows[i]
    BY <1>4 DEF PurgeEvents, Drop, Restrict
  <2>2. DOMAIN claims' = DOMAIN claims \ {rows[j] : j \in old}
    BY <1>4 DEF PurgeEvents, Drop, Restrict
  <2>3. ASSUME NEW e \in DOMAIN claims'
        PROVE  e \in Range(rows)'
    <3>1. PICK i \in DOMAIN rows : e = rows[i]
      BY <2>2 DEF RowsInv, Range
    <3>2. i \notin old
      BY <2>2, <3>1
    <3> QED BY <2>1, <3>1, <3>2 DEF Range
  <2> QED BY <2>1, <2>3 DEF RowsInv
<1>5. CASE UNCHANGED dataVars
  BY <1>1, <1>5 DEF dataVars
<1>6. CASE \E q \in Queries : Register(q)
  BY <1>1, <1>6, RegisterFields
<1>7. ASSUME \/ \E p \in Peers : PeerQuery(p)
             \/ \E x \in Exchanges, r \in Responses : Resolve(x, r)
             \/ \E a \in Attempts : ExpireContext(a)
      PROVE  RowsInv'
  BY <1>1, <1>7 DEF PeerQuery, Resolve, ExpireContext, agentVars
<1> QED BY <1>2, <1>3, <1>4, <1>5, <1>6, <1>7, DataSplit DEF ClaimTakes, PeerTakes

\* The work of the Agent for an exchange is one of four things.
LEMMA AgentTypeStep ==
  ASSUME BindingInv, [Next]_vars
  PROVE  AgentType'
<1> USE DEF BindingInv
<1>1. CASE UNCHANGED <<claims, agent, anchor, restarts, purges>>
  BY <1>1 DEF AgentType
<1>2. ASSUME NEW q \in Queries, Moves(q)
      PROVE  AgentType'
  <2>1. agent' \in [Exchanges -> {"none", "polling", "claimed", "failed"}]
    BY <1>2, MovesFields DEF AgentType
  <2> QED BY <1>2, <2>1, MovesFields DEF AgentType
<1>3. ASSUME NEW q \in Queries, Acquire(q) \/ Ends(q) \/ Register(q)
      PROVE  AgentType'
  BY <1>1, <1>3, AcquireFields, EndsFields, RegisterFields DEF agentVars
<1>4. CASE \E i \in TxIds : CoolDown(i)
  BY <1>1, <1>4 DEF CoolDown, agentVars
<1>5. CASE Restart
  <2>1. restarts' \in 0..MaxRestarts
    BY <1>5, RestartFields, SizeAssumption DEF AgentType
  <2> QED BY <1>5, <2>1, RestartFields DEF AgentType, agentVars
<1>6. ASSUME NEW x \in Exchanges, NEW i \in DOMAIN rows, Takes(x, i)
      PROVE  AgentType'
  <2>1. agent' \in [Exchanges -> {"none", "polling", "claimed", "failed"}]
    BY <1>6 DEF Takes, AgentType
  <2>2. \A e \in DOMAIN claims' : claims'[e] \in Exchanges
    BY <1>6 DEF Takes, AgentType, Put
  <2>3. DOMAIN anchor' \subseteq Exchanges
    BY <1>6 DEF Takes, AgentType, Put
  <2> QED BY <1>6, <2>1, <2>2, <2>3 DEF Takes, AgentType
<1>7. ASSUME NEW a \in Attempts, Claim(a)
      PROVE  AgentType'
  <2>1. CASE \E i \in DOMAIN rows : Takes(a, i)
    BY <1>6, <2>1 DEF Exchanges
  <2>2. CASE Fail(a)
    BY <1>7, <2>2 DEF Claim, Fail, AgentType
  <2> QED BY <1>7, <2>1, <2>2 DEF Claim, Takes
<1>8. ASSUME NEW p \in Peers, PeerClaim(p)
      PROVE  AgentType'
  <2>1. \E i \in DOMAIN rows : Takes(p, i)
    BY <1>8 DEF PeerClaim, PeerCandidate, Takes
  <2> QED BY <1>6, <2>1 DEF Exchanges
<1>9. ASSUME NEW x \in Exchanges, GiveUp(x)
      PROVE  AgentType'
  BY <1>9 DEF GiveUp, Fail, AgentType
<1>10. ASSUME NEW p \in Peers, PeerRequest(p)
       PROVE  AgentType'
  BY <1>10 DEF PeerRequest, AgentType
<1>11. ASSUME NEW old \in SUBSET DOMAIN rows, PurgeEvents(old)
       PROVE  AgentType'
  <2>1. purges' \in 0..MaxPurges
    BY <1>11, SizeAssumption DEF PurgeEvents, AgentType
  <2>2. \A e \in DOMAIN claims' : claims'[e] \in Exchanges
    BY <1>11 DEF PurgeEvents, AgentType, Drop, Restrict
  <2> QED BY <1>11, <2>1, <2>2 DEF PurgeEvents, AgentType
<1>12. ASSUME \/ \E p \in Peers : PeerQuery(p)
              \/ \E x \in Exchanges : \E r \in Responses : Resolve(x, r)
              \/ \E e \in transit : Ingest(e)
              \/ \E a \in Attempts : ExpireContext(a)
              \/ UNCHANGED vars
       PROVE  AgentType'
  BY <1>1, <1>12 DEF PeerQuery, Resolve, Ingest, ExpireContext, agentVars, vars
<1>13. CASE Elsewhere
  BY <1>7, <1>8, <1>9, <1>10, <1>11, <1>12, <1>13 DEF Elsewhere
<1> QED BY <1>2, <1>3, <1>4, <1>5, <1>13, NextSplit

\* Every step keeps the contexts those of attempts that were sent.
LEMMA ContextStep ==
  ASSUME BindingInv, [Next]_vars
  PROVE  ContextInv'
<1> USE DEF BindingInv
<1> DEFINE Bound(a, c) == /\ a \in Attempts /\ a \in DOMAIN begun'
                          /\ c \in [tx : TxIds, min : Nat \ {0}, consumed : BOOLEAN]
                          /\ c.tx = begun'[a]
<1>1. \A a \in DOMAIN ctx : Bound(a, ctx[a])
  BY Grows DEF ContextInv
<1>2. SUFFICES \A a \in DOMAIN ctx' : Bound(a, ctx'[a])
  BY DEF ContextInv
<1>3. CASE UNCHANGED ctx
  BY <1>1, <1>3
<1>4. ASSUME NEW q \in Queries, Register(q)
      PROVE  \A a \in DOMAIN ctx' : Bound(a, ctx'[a])
  <2>1. PICK n \in Nat \ {0} :
          ctx' = Put(ctx, Attempt(q), [tx |-> tx[q], min |-> n, consumed |-> FALSE])
    BY <1>4, RegisterFields
  <2>2. tx[q] \in TxIds /\ Attempt(q) \in Attempts
    BY <1>4, RegisterFields, AttemptFacts DEF PoolInv, Holding, WrapperType
  <2>3. Attempt(q) \in DOMAIN begun' /\ begun'[Attempt(q)] = tx[q]
    BY <1>4, RegisterFields DEF Put
  <2>4. [tx |-> tx[q], min |-> n, consumed |-> FALSE] \in [tx : TxIds, min : Nat \ {0}, consumed : BOOLEAN]
    BY <2>2
  <2>5. Bound(Attempt(q), [tx |-> tx[q], min |-> n, consumed |-> FALSE])
    BY <2>2, <2>3, <2>4
  <2>6. \A a \in DOMAIN ctx' : \/ a = Attempt(q) /\ ctx'[a] = [tx |-> tx[q], min |-> n, consumed |-> FALSE]
                               \/ a \in DOMAIN ctx /\ ctx'[a] = ctx[a]
    BY <2>1 DEF Put
  <2> HIDE DEF Bound
  <2> QED BY <1>1, <2>5, <2>6
<1>5. ASSUME NEW a \in Attempts, NEW i \in DOMAIN rows, ClaimTakes(a, i)
      PROVE  \A b \in DOMAIN ctx' : Bound(b, ctx'[b])
  <2>1. a \in DOMAIN ctx /\ ctx' = [ctx EXCEPT ![a].consumed = TRUE]
    BY <1>5 DEF ClaimTakes
  <2>2. Bound(a, [ctx[a] EXCEPT !.consumed = TRUE])
    BY <1>1, <2>1
  <2>3. \A b \in DOMAIN ctx' : \/ b = a /\ ctx'[b] = [ctx[a] EXCEPT !.consumed = TRUE]
                               \/ b \in DOMAIN ctx /\ ctx'[b] = ctx[b]
    BY <2>1
  <2> HIDE DEF Bound
  <2> QED BY <1>1, <2>2, <2>3
<1>6. ASSUME NEW a \in Attempts, ExpireContext(a)
      PROVE  \A b \in DOMAIN ctx' : Bound(b, ctx'[b])
  <2>1. \A b \in DOMAIN ctx' : b \in DOMAIN ctx /\ ctx'[b] = ctx[b]
    BY <1>6 DEF ExpireContext, Drop, Restrict
  <2> QED BY <1>1, <2>1
<1>7. ASSUME \/ \E p \in Peers : PeerQuery(p)
             \/ \E x \in Exchanges, r \in Responses : Resolve(x, r)
             \/ \E e \in transit : Ingest(e)
             \/ \E p \in Peers : \E i \in DOMAIN rows : PeerTakes(p, i)
             \/ \E old \in SUBSET DOMAIN rows : PurgeEvents(old)
             \/ UNCHANGED dataVars
      PROVE  UNCHANGED ctx
  BY <1>7 DEF PeerQuery, Resolve, Ingest, PeerTakes, PurgeEvents, agentVars, dataVars
<1> QED BY <1>3, <1>4, <1>5, <1>6, <1>7, DataSplit

-----------------------------------------------------------------------------
(* The theorems that need no assumption.                                   *)

\* The invariant holds at the start.
LEMMA BindingInit == Init => BindingInv
<1> SUFFICES ASSUME Init PROVE BindingInv
  OBVIOUS
<1>1. WrapperType
  BY IdFacts, UpFacts DEF Init, WrapperType
<1>2. ResolverType /\ EventInv /\ RowsInv /\ ContextInv
  BY EmptyFacts DEF Init, ResolverType, EventInv, RowsInv, ContextInv
<1>3. AgentType
  BY EmptyFacts, SizeAssumption DEF Init, AgentType
<1>4. PoolInv
  BY DEF Init, PoolInv, TxExclusive, Holding
<1>5. BegunInv
  BY EmptyFacts DEF Init, BegunInv, Sent
<1> QED BY <1>1, <1>2, <1>3, <1>4, <1>5 DEF BindingInv

\* Every step keeps the invariant.
LEMMA BindingNext == BindingInv /\ [Next]_vars => BindingInv'
<1> SUFFICES ASSUME BindingInv, [Next]_vars PROVE BindingInv'
  OBVIOUS
<1>1. WrapperType' /\ PoolInv'
  BY WrapperTypeStep, PoolStep DEF BindingInv
<1>2. ResolverType' /\ EventInv' /\ RowsInv' /\ AgentType' /\ ContextInv' /\ BegunInv'
  BY ResolverTypeStep, EventStep, RowsStep, AgentTypeStep, ContextStep, BegunStep
<1> QED BY <1>1, <1>2 DEF BindingInv

\* The invariant behind every property of this component: IDs belong to the
\* queries in flight, upstreams are tried in order and once, every event tells of
\* an answer the resolver gave, has one row, and is claimed only while it has one.
THEOREM BindingInvariant == Spec => []BindingInv
  BY BindingInit, BindingNext, PTL DEF Spec

\* What has been reported is an event.
LEMMA EventTyped ==
  ASSUME ResolverType, NEW e, Reported(e)
  PROVE  e \in EventRecords
<1>1. e.by \in Exchanges /\ begun[e.by] \in Nat /\ answered[e.by] \in Responses
  BY DEF Reported, ResolverType
<1>2. e = [by |-> e.by, tx |-> begun[e.by], resp |-> answered[e.by]]
  BY DEF Reported, EventOf
<1>3. [by |-> e.by, tx |-> begun[e.by], resp |-> answered[e.by]] \in EventRecords
  BY <1>1 DEF EventRecords
<1> QED BY <1>2, <1>3

\* Every variable of the Wrapper, the resolver and the Agent keeps its type: in
\* particular a claim never outlives the row of its event.
THEOREM TypeCorrect == Spec => []TypeOK
<1>1. BindingInv => TypeOK
  <2> SUFFICES ASSUME BindingInv PROVE TypeOK
    OBVIOUS
  <2>1. /\ \A e \in transit : e \in EventRecords
        /\ \A i \in DOMAIN rows : rows[i] \in EventRecords
        /\ \A x \in DOMAIN anchor : anchor[x] \in EventRecords
    BY EventTyped DEF BindingInv, EventInv
  <2> QED BY <2>1 DEF BindingInv, TypeOK, WrapperType, ResolverType, RowsInv, AgentType, ContextInv
<1> QED BY <1>1, BindingInvariant, PTL

\* TransactionIdPool: no two queries in flight share a transaction ID, the pool
\* counts as in use exactly the IDs that are held, and none of them cools down.
THEOREM TxAlwaysExclusive == Spec => []TxExclusive
<1>1. BindingInv => TxExclusive
  BY DEF BindingInv, PoolInv
<1> QED BY <1>1, BindingInvariant, PTL

-----------------------------------------------------------------------------
(* An event proves one request.                                            *)

\* With LongRetention, every step keeps what was claimed claimed, or gone for good.
LEMMA UsedStep ==
  ASSUME LongRetention, BindingInv, UsedInv, [Next]_vars
  PROVE  UsedInv'
<1> USE DEF BindingInv
<1> DEFINE Gone(e) == e \notin Range(rows) /\ e \notin transit
           Held(x) == anchor[x] \in DOMAIN claims /\ claims[anchor[x]] = x
<1>1. \A x \in DOMAIN anchor : Held(x) \/ Gone(anchor[x])
  BY DEF UsedInv
<1>2. CASE UNCHANGED <<anchor, claims, rows, transit>>
  BY <1>2 DEF UsedInv, EventUsedOnce, Range
<1>3. ASSUME NEW x \in Exchanges, NEW r \in Responses, Resolve(x, r)
      PROVE  UsedInv'
  <2>1. UNCHANGED <<anchor, claims, rows>>
    BY <1>3 DEF Resolve, agentVars
  <2>2. \A y \in DOMAIN anchor : anchor[y].by # x
    BY <1>3 DEF Resolve, EventInv, Reported
  <2>3. \A e \in transit' : e \in transit \/ e.by = x
    BY <1>3 DEF Resolve
  <2>4. \A y \in DOMAIN anchor : Gone(anchor[y]) => Gone(anchor[y])'
    BY <2>1, <2>2, <2>3 DEF Range
  <2> QED BY <1>1, <2>1, <2>4 DEF UsedInv, EventUsedOnce
<1>4. ASSUME NEW f \in transit, Ingest(f)
      PROVE  UsedInv'
  <2>1. UNCHANGED <<anchor, claims>> /\ \A e \in transit' : e \in transit
    BY <1>4, IngestFields
  <2>2. \A e \in Range(rows)' : e \in Range(rows) \/ e = f
    <3>1. CASE UNCHANGED rows
      BY <3>1
    <3>2. CASE \E n \in Nat \ {0} : rows' = Put(rows, n, f)
      BY <3>2 DEF Put, Range
    <3> QED BY <1>4, <3>1, <3>2, IngestFields
  <2>3. \A y \in DOMAIN anchor : Gone(anchor[y]) => Gone(anchor[y])'
    BY <2>1, <2>2
  <2> QED BY <1>1, <2>1, <2>3 DEF UsedInv, EventUsedOnce
<1>5. ASSUME NEW x, NEW i \in DOMAIN rows, Takes(x, i)
      PROVE  UsedInv'
  <2> DEFINE e == rows[i]
  <2>1. UNCHANGED <<rows, transit>> /\ (e \in DOMAIN claims => claims[e] = x)
    BY <1>5 DEF Takes, resolverVars
  <2>2. /\ DOMAIN claims' = DOMAIN claims \cup {e} /\ claims'[e] = x
        /\ \A g \in DOMAIN claims : g # e => claims'[g] = claims[g]
    BY <1>5 DEF Takes, Put
  <2>3. /\ DOMAIN anchor' = DOMAIN anchor \cup {x} /\ anchor'[x] = e
        /\ \A y \in DOMAIN anchor : y # x => anchor'[y] = anchor[y]
    BY <1>5 DEF Takes, Put
  <2>4. e \in Range(rows) /\ Reported(e)
    BY DEF Range, EventInv
  <2>5. \A y \in DOMAIN anchor : anchor[y] = e => y = x
    BY <1>1, <2>1, <2>4
  <2>6. \A y \in DOMAIN anchor : anchor[y].by = e.by => anchor[y] = e
    BY <2>4 DEF EventInv, Reported
  <2> HIDE DEF e
  <2>7. EventUsedOnce'
    BY <2>3, <2>5, <2>6 DEF UsedInv, EventUsedOnce
  <2>8. ASSUME NEW y \in DOMAIN anchor'
        PROVE  Held(y)' \/ Gone(anchor[y])'
    <3>1. CASE y = x
      BY <3>1, <2>2, <2>3
    <3>2. CASE y # x
      <4>1. y \in DOMAIN anchor /\ anchor'[y] = anchor[y] /\ anchor[y] # e
        BY <3>2, <2>3, <2>5
      <4>2. CASE Held(y)
        BY <4>1, <4>2, <2>2
      <4>3. CASE Gone(anchor[y])
        BY <4>1, <4>3, <2>1 DEF Range
      <4> QED BY <4>1, <4>2, <4>3, <1>1
    <3> QED BY <3>1, <3>2
  <2> QED BY <2>7, <2>8 DEF UsedInv
<1>6. ASSUME NEW old \in SUBSET DOMAIN rows, PurgeEvents(old)
      PROVE  UsedInv'
  <2>1. UNCHANGED <<anchor, transit>> /\ \A j \in old : rows[j] \notin transit
    BY <1>6 DEF PurgeEvents, resolverVars
  <2>2. DOMAIN rows' = DOMAIN rows \ old /\ \A i \in DOMAIN rows' : rows'[i] = rows[i]
    BY <1>6 DEF PurgeEvents, Drop, Restrict
  <2>3. /\ DOMAIN claims' = DOMAIN claims \ {rows[j] : j \in old}
        /\ \A e \in DOMAIN claims' : claims'[e] = claims[e]
    BY <1>6 DEF PurgeEvents, Drop, Restrict
  <2>4. \A j \in old : rows[j] \notin Range(rows)'
    BY <2>2 DEF RowsInv, Range
  <2>5. \A e : Gone(e) => Gone(e)'
    BY <2>1, <2>2 DEF Range
  <2>6. ASSUME NEW y \in DOMAIN anchor
        PROVE  Held(y)' \/ Gone(anchor[y])'
    <3>1. CASE Held(y) /\ anchor[y] \in {rows[j] : j \in old}
      BY <3>1, <2>1, <2>4
    <3>2. CASE Held(y) /\ anchor[y] \notin {rows[j] : j \in old}
      BY <3>2, <2>1, <2>3
    <3>3. CASE Gone(anchor[y])
      BY <3>3, <2>1, <2>5
    <3> QED BY <3>1, <3>2, <3>3, <1>1
  <2> QED BY <2>1, <2>6 DEF UsedInv, EventUsedOnce
<1>7. ASSUME \/ \E q \in Queries : Register(q)
             \/ \E p \in Peers : PeerQuery(p)
             \/ \E a \in Attempts : ExpireContext(a)
             \/ UNCHANGED dataVars
      PROVE  UsedInv'
  BY <1>2, <1>7 DEF Register, PeerQuery, ExpireContext, agentVars, dataVars, resolverVars
<1> QED BY <1>3, <1>4, <1>5, <1>6, <1>7, DataSplit DEF ClaimTakes, PeerTakes

\* claim_registered_trace_anchor and claim_matching_response together: one event
\* proves at most one request, the Wrapper's or a peer's, also after retention
\* has deleted the event and its claim, as long as a purged event is not
\* delivered again.
THEOREM EventAlwaysUsedOnce ==
  ASSUME LongRetention
  PROVE  Spec => []EventUsedOnce
<1>1. Init => UsedInv
  BY EmptyFacts DEF Init, UsedInv, EventUsedOnce
<1>2. BindingInv /\ UsedInv /\ [Next]_vars => UsedInv'
  BY UsedStep
<1>3. UsedInv => EventUsedOnce
  BY DEF UsedInv
<1> QED BY <1>1, <1>2, <1>3, BindingInvariant, PTL DEF Spec

-----------------------------------------------------------------------------
(* The boundary of a context admits its own event.                         *)

\* Without QuietPurge, every step keeps the rowids above the boundaries given out.
LEMMA BoundaryStep ==
  ASSUME ~QuietPurge, BindingInv, BoundaryInv, [Next]_vars
  PROVE  BoundaryInv'
<1> USE DEF BindingInv
<1> DEFINE Reached(m) == m = 1 \/ \E i \in DOMAIN rows : i + 1 >= m
<1>1. \A a \in DOMAIN ctx : Reached(ctx[a].min) /\ ctx[a].min \in Nat
  BY DEF BoundaryInv, ContextInv
<1>2. ASSUME UNCHANGED rows,
             \A a \in DOMAIN ctx' : a \in DOMAIN ctx /\ ctx'[a].min = ctx[a].min
      PROVE  BoundaryInv'
  BY <1>1, <1>2 DEF BoundaryInv, BoundaryAdmitsOwn
<1>3. ASSUME NEW q \in Queries, Register(q)
      PROVE  BoundaryInv'
  <2>1. PICK n \in Nat \ {0} :
          /\ IsNextRowid(n)
          /\ ctx' = Put(ctx, Attempt(q), [tx |-> tx[q], min |-> n, consumed |-> FALSE])
    BY <1>3, RegisterFields
  <2>2. \A a \in DOMAIN ctx' : \/ a = Attempt(q) /\ ctx'[a].min = n
                               \/ a \in DOMAIN ctx /\ ctx'[a].min = ctx[a].min
    BY <2>1 DEF Put
  <2>3. rows' = rows
    BY <1>3, RegisterFields
  <2>4. Attempt(q) \notin DOMAIN begun
    BY <1>3, RegisterFields DEF BegunInv, Attempt, WrapperType
  <2>5. \A i \in DOMAIN rows : rows[i].by # Attempt(q)
    BY <2>4 DEF EventInv, Reported, ResolverType
  <2>6. Reached(n)
    BY <2>1 DEF IsNextRowid, RowsInv
  <2>7. \A a \in DOMAIN ctx' : Reached(ctx'[a].min)
    BY <1>1, <2>2, <2>6
  <2>8. \A a \in DOMAIN ctx' : \A i \in DOMAIN rows : rows[i].by = a => i >= ctx'[a].min
    BY <2>2, <2>5 DEF BoundaryInv, BoundaryAdmitsOwn
  <2> QED BY <2>3, <2>7, <2>8 DEF BoundaryInv, BoundaryAdmitsOwn
<1>4. ASSUME NEW e \in transit, Ingest(e)
      PROVE  BoundaryInv'
  <2>1. ctx' = ctx
    BY <1>4, IngestFields
  <2>2. CASE UNCHANGED rows
    BY <1>2, <2>1, <2>2
  <2>3. ASSUME NEW n \in Nat \ {0}, IsNextRowid(n), rows' = Put(rows, n, e)
        PROVE  BoundaryInv'
    <3>1. n \notin DOMAIN rows /\ \A i \in DOMAIN rows : i < n /\ i \in Nat
      BY <2>3 DEF IsNextRowid, RowsInv
    <3>2. /\ \A i \in DOMAIN rows' : i = n \/ (i \in DOMAIN rows /\ rows'[i] = rows[i])
          /\ n \in DOMAIN rows' /\ \A i \in DOMAIN rows : i \in DOMAIN rows'
      BY <2>3, <3>1 DEF Put
    <3>3. \A a \in DOMAIN ctx : n >= ctx[a].min
      BY <1>1, <3>1
    <3>4. \A a \in DOMAIN ctx : Reached(ctx[a].min)'
      BY <1>1, <2>1, <3>2
    <3> QED BY <2>1, <3>2, <3>3, <3>4 DEF BoundaryInv, BoundaryAdmitsOwn
  <2> QED BY <1>4, <2>2, <2>3, IngestFields
<1>5. ASSUME NEW a \in Attempts, NEW i \in DOMAIN rows, ClaimTakes(a, i)
      PROVE  BoundaryInv'
  <2>1. a \in DOMAIN ctx /\ ctx' = [ctx EXCEPT ![a].consumed = TRUE] /\ rows' = rows
    BY <1>5 DEF ClaimTakes, Takes
  <2>2. \A b \in DOMAIN ctx' : b \in DOMAIN ctx /\ ctx'[b].min = ctx[b].min
    BY <2>1 DEF ContextInv
  <2> QED BY <1>2, <2>1, <2>2
<1>6. ASSUME NEW a \in Attempts, ExpireContext(a)
      PROVE  BoundaryInv'
  <2>1. rows' = rows /\ \A b \in DOMAIN ctx' : b \in DOMAIN ctx /\ ctx'[b] = ctx[b]
    BY <1>6 DEF ExpireContext, Drop, Restrict
  <2> QED BY <1>2, <2>1
<1>7. ASSUME NEW old \in SUBSET DOMAIN rows, PurgeEvents(old)
      PROVE  BoundaryInv'
  <2>1. ctx' = ctx /\ \E i \in DOMAIN rows : \A j \in old : i > j
    BY <1>7 DEF PurgeEvents
  <2>2. DOMAIN rows' = DOMAIN rows \ old /\ \A i \in DOMAIN rows' : rows'[i] = rows[i]
    BY <1>7 DEF PurgeEvents, Drop, Restrict
  <2>3. PICK top \in DOMAIN rows : \A j \in old : top > j
    BY <2>1
  <2>4. top \in DOMAIN rows' /\ top \in Nat /\ \A i \in DOMAIN rows : i \in Nat
    BY <2>2, <2>3 DEF RowsInv
  <2>5. ASSUME NEW a \in DOMAIN ctx, NEW i \in DOMAIN rows, i + 1 >= ctx[a].min
        PROVE  Reached(ctx[a].min)'
    <3>1. CASE i \in old
      <4>1. top + 1 >= ctx[a].min
        BY <1>1, <2>3, <2>4, <2>5, <3>1
      <4> QED BY <4>1, <2>1, <2>4
    <3>2. CASE i \notin old
      BY <2>1, <2>2, <2>5, <3>2
    <3> QED BY <3>1, <3>2
  <2>6. \A a \in DOMAIN ctx : Reached(ctx[a].min)'
    BY <1>1, <2>1, <2>5
  <2> QED BY <2>1, <2>2, <2>6 DEF BoundaryInv, BoundaryAdmitsOwn
<1>8. ASSUME \/ \E p \in Peers : PeerQuery(p)
             \/ \E x \in Exchanges, r \in Responses : Resolve(x, r)
             \/ \E p \in Peers : \E i \in DOMAIN rows : PeerTakes(p, i)
             \/ UNCHANGED dataVars
      PROVE  BoundaryInv'
  <2>1. UNCHANGED <<ctx, rows>>
    BY <1>8 DEF PeerQuery, Resolve, PeerTakes, Takes, agentVars, dataVars
  <2> QED BY <1>2, <2>1
<1> QED BY <1>3, <1>4, <1>5, <1>6, <1>7, <1>8, DataSplit

\* register_query_context and claim_registered_trace_anchor: the event of a
\* registered attempt lies at or above the attempt's boundary, so the Agent never
\* passes it over, as long as the newest row is not purged in between.
THEOREM BoundaryAlwaysAdmitsOwn ==
  ASSUME ~QuietPurge
  PROVE  Spec => []BoundaryAdmitsOwn
<1>1. Init => BoundaryInv
  BY EmptyFacts DEF Init, BoundaryInv, BoundaryAdmitsOwn
<1>2. BindingInv /\ BoundaryInv /\ [Next]_vars => BoundaryInv'
  BY BoundaryStep
<1>3. BoundaryInv => BoundaryAdmitsOwn
  BY DEF BoundaryInv
<1> QED BY <1>1, <1>2, <1>3, BindingInvariant, PTL DEF Spec

-----------------------------------------------------------------------------
(* A released answer rests on its own event.                               *)

\* Every step keeps the peers' exchanges under the IDs they chose.
LEMMA PeerStep ==
  ASSUME BindingInv, PeerInv, [Next]_vars
  PROVE  PeerInv'
<1> USE DEF BindingInv
<1>1. ASSUME NEW q \in Queries, Register(q)
      PROVE  PeerInv'
  <2>1. begun' = Put(begun, Attempt(q), tx[q]) /\ Attempt(q) \notin Peers
    BY <1>1, RegisterFields, AttemptFacts DEF WrapperType
  <2> QED BY <2>1 DEF PeerInv, Put
<1>2. ASSUME NEW p \in Peers, PeerQuery(p)
      PROVE  PeerInv'
  BY <1>2 DEF PeerQuery, PeerInv, Put
<1>3. CASE UNCHANGED begun
  BY <1>3 DEF PeerInv
<1> QED BY <1>1, <1>2, <1>3, DataSplit DEF dataVars, resolverVars, Resolve, Ingest, ClaimTakes,
           PeerTakes, Takes, ExpireContext, PurgeEvents

\* An ID stays quiet until it is used for another attempt.
LEMMA QuietKept ==
  ASSUME BindingInv, [Next]_vars, NEW i, NEW S, QuietBut(i, S),
         \A q \in Queries : Register(q) => i # tx[q] \/ Attempt(q) \in S
  PROVE  QuietBut(i, S)'
<1> USE DEF BindingInv
<1>1. CASE UNCHANGED <<begun, answered>> /\ \A e \in transit' : e \in transit
  BY <1>1 DEF QuietBut
<1>2. ASSUME NEW q \in Queries, Register(q)
      PROVE  QuietBut(i, S)'
  <2>1. begun' = Put(begun, Attempt(q), tx[q]) /\ UNCHANGED <<answered, transit>>
    BY <1>2, RegisterFields
  <2> QED BY <1>2, <2>1 DEF QuietBut, Put
<1>3. ASSUME NEW p \in Peers, PeerQuery(p)
      PROVE  QuietBut(i, S)'
  <2>1. begun' = Put(begun, p, PeerTx[p]) /\ UNCHANGED <<answered, transit>> /\ p \notin Attempts
    BY <1>3, QueryAssumption DEF PeerQuery
  <2> QED BY <2>1 DEF QuietBut, Put
<1>4. ASSUME NEW x \in Exchanges, NEW r \in Responses, Resolve(x, r)
      PROVE  QuietBut(i, S)'
  <2>1. /\ x \in DOMAIN begun /\ x \notin DOMAIN answered /\ begun' = begun
        /\ \A e \in transit' : e \in transit \/ (e.by = x /\ e.tx = begun[x])
        /\ \A b \in DOMAIN answered : b \in DOMAIN answered'
    BY <1>4 DEF Resolve, Put
  <2> QED BY <2>1 DEF QuietBut
<1>5. CASE \E e \in transit : Ingest(e)
  BY <1>1, <1>5, IngestFields
<1>6. ASSUME \/ \E a \in Attempts : \E j \in DOMAIN rows : ClaimTakes(a, j)
             \/ \E p \in Peers : \E j \in DOMAIN rows : PeerTakes(p, j)
             \/ \E a \in Attempts : ExpireContext(a)
             \/ \E old \in SUBSET DOMAIN rows : PurgeEvents(old)
             \/ UNCHANGED dataVars
      PROVE  QuietBut(i, S)'
  BY <1>1, <1>6 DEF ClaimTakes, PeerTakes, Takes, ExpireContext, PurgeEvents, dataVars, resolverVars
<1> QED BY <1>2, <1>3, <1>4, <1>5, <1>6, DataSplit

\* An attempt in hand is the one that was in hand before, or was just acquired.
LEMMA HoldingKept ==
  ASSUME WrapperType, PoolInv, [Next]_vars, NEW q \in Queries, pc'[q] \in Holding
  PROVE  /\ up'[q] = up[q]
         /\ \/ pc[q] \in Holding /\ tx'[q] = tx[q]
            \/ pc'[q] = "register" /\ tx'[q] \in Free /\ UNCHANGED resolverVars
         /\ pc'[q] \in Sent => Register(q) \/ pc[q] \in Sent
<1>1. ASSUME NEW p \in Queries, Moves(p) PROVE up' = up /\ tx' = tx
             /\ pc[q] \in Holding /\ (pc'[q] \in Sent => pc[q] \in Sent)
  BY <1>1, MovesFields DEF Holding, Sent
<1>2. ASSUME NEW p \in Queries, Acquire(p)
      PROVE  /\ up' = up
             /\ \/ pc[q] \in Holding /\ tx'[q] = tx[q] /\ (pc'[q] \in Sent => pc[q] \in Sent)
                \/ pc'[q] = "register" /\ tx'[q] \in Free /\ UNCHANGED resolverVars
  BY <1>2, AcquireFields DEF Holding, Sent
<1>3. ASSUME NEW p \in Queries, Register(p)
      PROVE  /\ up' = up /\ tx' = tx /\ pc[q] \in Holding
             /\ pc'[q] \in Sent => Register(q) \/ pc[q] \in Sent
  BY <1>3, RegisterFields DEF Holding, Sent
<1>4. ASSUME NEW p \in Queries, Ends(p)
      PROVE  q # p /\ up'[q] = up[q] /\ tx'[q] = tx[q] /\ pc'[q] = pc[q]
  BY <1>4, EndsFields DEF Holding
<1>5. CASE \E i \in TxIds : CoolDown(i)
  BY <1>5 DEF CoolDown
<1>6. CASE Restart
  BY <1>6, RestartFields
<1>7. CASE Elsewhere
  BY <1>7, ElsewhereFields DEF wrapperVars
<1> QED BY <1>1, <1>2, <1>3, <1>4, <1>5, <1>6, <1>7, NextSplit DEF Sent

\* The boundary of a context in use is not moved.
LEMMA ContextKept ==
  ASSUME BindingInv, [Next]_vars, NEW q \in Queries, ~Register(q), Attempt(q) \in DOMAIN ctx'
  PROVE  Attempt(q) \in DOMAIN ctx /\ ctx'[Attempt(q)].min = ctx[Attempt(q)].min
<1> USE DEF BindingInv
<1>1. ASSUME NEW p \in Queries, Register(p)
      PROVE  Attempt(q) \in DOMAIN ctx /\ ctx'[Attempt(q)] = ctx[Attempt(q)]
  <2>1. Attempt(p) # Attempt(q)
    BY <1>1, AttemptFacts DEF WrapperType
  <2>2. PICK n : ctx' = Put(ctx, Attempt(p), [tx |-> tx[p], min |-> n, consumed |-> FALSE])
    BY <1>1, RegisterFields
  <2> QED BY <2>1, <2>2 DEF Put
<1>2. ASSUME NEW a \in Attempts, NEW i \in DOMAIN rows, ClaimTakes(a, i)
      PROVE  Attempt(q) \in DOMAIN ctx /\ ctx'[Attempt(q)].min = ctx[Attempt(q)].min
  <2>1. a \in DOMAIN ctx /\ ctx' = [ctx EXCEPT ![a].consumed = TRUE]
    BY <1>2 DEF ClaimTakes
  <2> QED BY <2>1 DEF ContextInv
<1>3. ASSUME NEW a \in Attempts, ExpireContext(a)
      PROVE  Attempt(q) \in DOMAIN ctx /\ ctx'[Attempt(q)] = ctx[Attempt(q)]
  BY <1>3 DEF ExpireContext, Drop, Restrict
<1>4. ASSUME \/ \E p \in Peers : PeerQuery(p)
             \/ \E x \in Exchanges, r \in Responses : Resolve(x, r)
             \/ \E e \in transit : Ingest(e)
             \/ \E p \in Peers : \E i \in DOMAIN rows : PeerTakes(p, i)
             \/ \E old \in SUBSET DOMAIN rows : PurgeEvents(old)
             \/ UNCHANGED dataVars
      PROVE  UNCHANGED ctx
  BY <1>4 DEF PeerQuery, Resolve, Ingest, PeerTakes, PurgeEvents, agentVars, dataVars
<1> QED BY <1>1, <1>2, <1>3, <1>4, DataSplit

\* A row is an old row, or an event that was in transit.
LEMMA RowKept ==
  ASSUME BindingInv, [Next]_vars, NEW j \in DOMAIN rows'
  PROVE  (j \in DOMAIN rows /\ rows'[j] = rows[j]) \/ rows'[j] \in transit
<1> USE DEF BindingInv
<1>1. ASSUME NEW e \in transit, Ingest(e)
      PROVE  (j \in DOMAIN rows /\ rows'[j] = rows[j]) \/ rows'[j] \in transit
  <2>1. CASE UNCHANGED rows
    BY <2>1
  <2>2. CASE \E n \in Nat \ {0} : rows' = Put(rows, n, e)
    BY <2>2 DEF Put
  <2> QED BY <1>1, <2>1, <2>2, IngestFields
<1>2. ASSUME NEW old \in SUBSET DOMAIN rows, PurgeEvents(old)
      PROVE  j \in DOMAIN rows /\ rows'[j] = rows[j]
  BY <1>2 DEF PurgeEvents, Drop, Restrict
<1>3. ASSUME \/ \E q \in Queries : Register(q)
             \/ \E p \in Peers : PeerQuery(p)
             \/ \E x \in Exchanges, r \in Responses : Resolve(x, r)
             \/ \E a \in Attempts : \E i \in DOMAIN rows : ClaimTakes(a, i)
             \/ \E p \in Peers : \E i \in DOMAIN rows : PeerTakes(p, i)
             \/ \E a \in Attempts : ExpireContext(a)
             \/ UNCHANGED dataVars
      PROVE  rows' = rows
  BY <1>3 DEF Register, PeerQuery, Resolve, ClaimTakes, PeerTakes, Takes, ExpireContext, agentVars,
              dataVars
<1> QED BY <1>1, <1>2, <1>3, DataSplit

\* An ID that becomes free, or stays free, has nothing under way.
LEMMA FreeStep ==
  ASSUME PromptTrace, BindingInv, QuietInv, [Next]_vars, NEW i \in Free'
  PROVE  QuietBut(i, {})'
<1> USE DEF BindingInv
<1>1. CASE i \in Free
  <2>1. \A q \in Queries : Register(q) => i # tx[q]
    <3>1. \A q \in Queries : Register(q) => tx[q] # NoTx
      BY RegisterFields DEF PoolInv, Holding
    <3> QED BY <1>1, <3>1 DEF PoolInv, TxExclusive, Free
  <2> QED BY <1>1, <2>1, QuietKept DEF QuietInv
<1>2. CASE i \notin Free
  <2>1. i \in TxIds /\ i \in active \cup cooling /\ i \notin active' \cup cooling'
    BY <1>2 DEF Free
  <2>2. ASSUME NEW q \in Queries, Moves(q) \/ Acquire(q) \/ Register(q)
        PROVE  active \subseteq active' /\ cooling' = cooling
    BY <2>2, MovesFields, AcquireFields, RegisterFields
  <2>3. ASSUME NEW q \in Queries, Ends(q)
        PROVE  active' \cup cooling' = active \cup cooling \cup {tx[q]}
    BY <2>3, EndsFields
  <2>4. ASSUME Elsewhere PROVE UNCHANGED <<active, cooling>>
    BY <2>4, ElsewhereFields DEF wrapperVars
  <2>5. Settled(i) /\ UNCHANGED resolverVars
    <3>1. CASE \E j \in TxIds : CoolDown(j)
      BY <2>1, <3>1 DEF CoolDown
    <3>2. CASE Restart
      BY <2>1, <3>2 DEF Restart
    <3> QED BY <2>1, <2>2, <2>3, <2>4, <3>1, <3>2, NextSplit
  <2> QED BY <2>5 DEF Settled, QuietBut, resolverVars
<1> QED BY <1>1, <1>2

\* Every step keeps the IDs that are free quiet.
LEMMA QuietStep ==
  ASSUME PromptTrace, BindingInv, QuietInv, [Next]_vars
  PROVE  QuietInv'
<1> USE DEF BindingInv
<1>1. ASSUME NEW q \in Queries, pc'[q] \in Holding
      PROVE  QuietBut(tx[q], {Attempt(q)})'
  <2>1. up'[q] = up[q] /\ Attempt(q)' = Attempt(q)
    BY <1>1, HoldingKept DEF Attempt
  <2>2. CASE pc[q] \in Holding /\ tx'[q] = tx[q]
    <3>1. \A p \in Queries : Register(p) => tx[q] # tx[p] \/ Attempt(p) \in {Attempt(q)}
      BY <2>2 DEF PoolInv, TxExclusive
    <3>2. QuietBut(tx[q], {Attempt(q)})
      BY <2>2 DEF QuietInv
    <3> DEFINE i == tx[q]
               S == {Attempt(q)}
    <3>3. /\ \A e \in transit' : e.tx = i /\ e.by \in Attempts => e.by \in S
          /\ \A b \in DOMAIN begun' :
               b \in Attempts /\ begun'[b] = i /\ b \notin S => b \in DOMAIN answered'
      <4> HIDE DEF i, S
      <4>1. QuietBut(i, S) /\ \A p \in Queries : Register(p) => i # tx[p] \/ Attempt(p) \in S
        BY <3>1, <3>2 DEF i, S
      <4> QED BY <4>1, QuietKept DEF QuietBut
    <3> QED BY <2>1, <2>2, <3>3 DEF QuietBut
  <2>3. CASE tx'[q] \in Free /\ UNCHANGED resolverVars
    <3>1. QuietBut(tx'[q], {})
      BY <2>3 DEF QuietInv
    <3> QED BY <2>3, <3>1 DEF QuietBut, resolverVars
  <2> QED BY <1>1, <2>2, <2>3, HoldingKept
<1>2. ASSUME NEW q \in Queries, pc'[q] \in Sent, Attempt(q)' \in DOMAIN ctx',
             NEW j \in DOMAIN rows', rows'[j].tx = tx'[q], rows'[j].by \in Attempts,
             rows'[j].by # Attempt(q)'
      PROVE  j < ctx'[Attempt(q)'].min
  <2>1. pc'[q] \in Holding /\ pc'[q] # "register"
    BY <1>2 DEF Holding, Sent
  <2>2. Attempt(q)' = Attempt(q)
    BY <2>1, HoldingKept DEF Attempt
  <2>3. tx'[q] = tx[q] /\ pc[q] \in Holding
    BY <2>1, HoldingKept
  <2>4. CASE Register(q)
    <3>1. PICK n \in Nat \ {0} :
            /\ IsNextRowid(n)
            /\ ctx' = Put(ctx, Attempt(q), [tx |-> tx[q], min |-> n, consumed |-> FALSE])
      BY <2>4, RegisterFields
    <3>2. rows' = rows /\ ctx'[Attempt(q)].min = n
      BY <2>4, <3>1, RegisterFields DEF Put
    <3> QED BY <2>2, <3>1, <3>2 DEF IsNextRowid
  <2>5. CASE ~Register(q)
    <3>1. pc[q] \in Sent
      BY <1>2, <2>1, <2>5, HoldingKept
    <3>2. Attempt(q) \in DOMAIN ctx /\ ctx'[Attempt(q)].min = ctx[Attempt(q)].min
      BY <1>2, <2>2, <2>5, ContextKept
    <3>3. rows'[j] \notin transit
      BY <1>2, <2>2, <2>3 DEF QuietInv, QuietBut
    <3>4. j \in DOMAIN rows /\ rows'[j] = rows[j]
      BY <3>3, RowKept
    <3> QED BY <1>2, <2>2, <2>3, <3>1, <3>2, <3>4 DEF QuietInv
  <2> QED BY <2>4, <2>5
<1>3. \A i \in Free' : QuietBut(i, {})'
  BY FreeStep
<1> QED BY <1>1, <1>2, <1>3 DEF QuietInv

\* What is claimed for an attempt in hand is its own event: it carries the ID of
\* the attempt, lies at or above its boundary, and is no peer's.
LEMMA ClaimOwn ==
  ASSUME PeersApart, BindingInv, PeerInv, QuietInv, NEW q \in Queries, pc[q] = "verify",
         NEW i \in DOMAIN rows, ClaimTakes(Attempt(q), i)
  PROVE  rows[i].by = Attempt(q)
<1> USE DEF BindingInv
<1> DEFINE a == Attempt(q)
<1>1. a \in DOMAIN ctx /\ i >= ctx[a].min /\ Matches(rows[i], a, ctx[a].tx)
  BY DEF ClaimTakes, Candidate
<1>2. pc[q] \in Sent /\ pc[q] \in Holding /\ tx[q] \in TxIds /\ a \in Attempts
  BY AttemptFacts DEF Sent, Holding, PoolInv, WrapperType
<1>3. ctx[a].tx = tx[q] /\ ctx[a].min \in Nat /\ i \in Nat
  BY <1>1, <1>2 DEF ContextInv, BegunInv, RowsInv
<1>4. rows[i].tx = tx[q] /\ Question(rows[i].by) = Question(a)
  BY <1>1, <1>3 DEF Matches
<1>5. rows[i].by \in DOMAIN begun /\ rows[i].tx = begun[rows[i].by]
  BY DEF EventInv, Reported, EventOf, ResolverType
<1>6. rows[i].by \in Attempts
  <2> SUFFICES ASSUME rows[i].by \notin Attempts PROVE FALSE
    OBVIOUS
  <2>1. rows[i].by \in Peers
    BY <1>5 DEF ResolverType, Exchanges
  <2>2. PeerTx[rows[i].by] \in TxIds
    BY <1>2, <1>4, <1>5, <2>1 DEF PeerInv
  <2>3. Question(rows[i].by) = QuestionOf[rows[i].by] /\ Question(a) = QuestionOf[q]
    BY <1>2 DEF Question, Attempt
  <2> QED BY <1>4, <2>1, <2>2, <2>3 DEF PeersApart
<1>7. ~(i < ctx[a].min)
  BY <1>1, <1>3
<1> QED BY <1>1, <1>2, <1>4, <1>6, <1>7 DEF QuietInv

\* How the Agent's work for an attempt and what it claimed may change.
LEMMA AgentKept ==
  ASSUME BindingInv, [Next]_vars, NEW a \in Attempts
  PROVE  /\ agent'[a] = "claimed" =>
              \/ /\ agent[a] = "claimed"
                 /\ a \in DOMAIN anchor => a \in DOMAIN anchor' /\ anchor'[a] = anchor[a]
              \/ \E i \in DOMAIN rows : ClaimTakes(a, i)
         /\ agent[a] = "claimed" /\ agent'[a] # "claimed" =>
              \E q \in Queries : pc[q] = "permit" /\ a = Attempt(q)
<1> USE DEF BindingInv
<1> DEFINE Same == agent'[a] = agent[a] /\ (a \in DOMAIN anchor => a \in DOMAIN anchor' /\ anchor'[a] = anchor[a])
<1>0. a \in Exchanges /\ a \notin Peers
  BY QueryAssumption DEF Exchanges
<1>1. ASSUME NEW q \in Queries, Moves(q)
      PROVE  Same \/ (agent'[a] = "polling" /\ pc[q] = "permit" /\ a = Attempt(q))
  <2>1. anchor' = anchor
    BY <1>1, MovesFields
  <2>2. CASE agent' = agent
    BY <2>1, <2>2
  <2>3. CASE pc[q] = "permit" /\ agent' = [agent EXCEPT ![Attempt(q)] = "polling"]
    BY <1>0, <2>1, <2>3 DEF AgentType
  <2> QED BY <1>1, <2>2, <2>3, MovesFields
<1>2. ASSUME NEW q \in Queries, Acquire(q) \/ Register(q) \/ Ends(q)
      PROVE  Same
  BY <1>2, AcquireFields, RegisterFields, EndsFields DEF agentVars
<1>3. ASSUME (\E i \in TxIds : CoolDown(i)) \/ Restart \/ UNCHANGED vars
      PROVE  Same
  BY <1>3 DEF CoolDown, Restart, vars, agentVars
<1>4. ASSUME NEW x \in Exchanges, x # a, NEW i \in DOMAIN rows, Takes(x, i)
      PROVE  Same
  BY <1>0, <1>4 DEF Takes, Put, AgentType
<1>5. ASSUME NEW x \in Exchanges, agent[x] = "polling", Fail(x)
      PROVE  \/ Same
             \/ agent[a] = "polling" /\ agent'[a] = "failed"
  BY <1>0, <1>5 DEF Fail, AgentType
<1>6. ASSUME NEW b \in Attempts, Claim(b)
      PROVE  \/ Same
             \/ agent[a] = "polling" /\ agent'[a] = "failed"
             \/ agent[a] = "polling" /\ \E i \in DOMAIN rows : ClaimTakes(a, i)
  <2>1. CASE Fail(b)
    BY <1>5, <1>6, <2>1 DEF Claim, Exchanges
  <2>2. CASE \E i \in DOMAIN rows : ClaimTakes(b, i)
    BY <1>4, <2>2 DEF ClaimTakes, Takes, Exchanges
  <2> QED BY <1>6, <2>1, <2>2 DEF Claim, ClaimTakes, Takes
<1>7. ASSUME NEW x \in Exchanges, GiveUp(x)
      PROVE  \/ Same
             \/ agent[a] = "polling" /\ agent'[a] = "failed"
  BY <1>5, <1>7 DEF GiveUp
<1>8. ASSUME NEW p \in Peers, PeerRequest(p) \/ PeerClaim(p) \/ PeerQuery(p)
      PROVE  Same
  <2>1. CASE PeerRequest(p)
    BY <1>0, <2>1 DEF PeerRequest, AgentType
  <2>2. CASE PeerClaim(p)
    <3>1. \E i \in DOMAIN rows : Takes(p, i)
      BY <2>2 DEF PeerClaim, PeerCandidate, Takes
    <3> QED BY <1>0, <1>4, <3>1 DEF Exchanges
  <2>3. CASE PeerQuery(p)
    BY <2>3 DEF PeerQuery, agentVars
  <2> QED BY <1>8, <2>1, <2>2, <2>3
<1>9. ASSUME \/ \E x \in Exchanges : \E r \in Responses : Resolve(x, r)
             \/ \E e \in transit : Ingest(e)
             \/ \E b \in Attempts : ExpireContext(b)
             \/ \E old \in SUBSET DOMAIN rows : PurgeEvents(old)
      PROVE  Same
  BY <1>9 DEF Resolve, Ingest, ExpireContext, PurgeEvents, agentVars
<1>10. \/ Same
       \/ agent[a] = "polling" /\ agent'[a] = "failed"
       \/ agent[a] = "polling" /\ \E i \in DOMAIN rows : ClaimTakes(a, i)
       \/ agent'[a] = "polling" /\ \E q \in Queries : pc[q] = "permit" /\ a = Attempt(q)
  <2> HIDE DEF Same
  <2> QED BY <1>1, <1>2, <1>3, <1>6, <1>7, <1>8, <1>9, NextSplit DEF Elsewhere
<1> QED BY <1>10

\* Every step keeps what was claimed for an attempt the attempt's own event.
LEMMA AnchorStep ==
  ASSUME PeersApart, BindingInv, OwnInv, [Next]_vars
  PROVE  AnchorInv'
<1> USE DEF BindingInv, OwnInv
<1>1. ASSUME NEW q \in Queries, pc'[q] \in {"verify", "released"}
      PROVE  \/ up'[q] = up[q] /\ pc[q] = pc'[q]
             \/ up'[q] = up[q] /\ pc[q] = "verify" /\ pc'[q] = "released" /\ agent[Attempt(q)] = "claimed"
                /\ agent' = agent
             \/ up'[q] = up[q] /\ pc'[q] = "verify" /\ agent'[Attempt(q)] = "polling"
  <2>1. ASSUME NEW p \in Queries, Moves(p)
        PROVE  \/ pc[q] = pc'[q] \/ (pc'[q] = "verify" /\ agent'[Attempt(q)] = "polling")
    <3>1. Attempt(q) \in Exchanges
      BY AttemptFacts DEF WrapperType
    <3> QED BY <1>1, <2>1, <3>1, MovesFields DEF AgentType
  <2>2. ASSUME NEW p \in Queries, Acquire(p) \/ Register(p)
        PROVE  pc[q] = pc'[q] /\ up' = up
    BY <1>1, <2>2, AcquireFields, RegisterFields
  <2>3. ASSUME NEW p \in Queries, Ends(p)
        PROVE  \/ up'[q] = up[q] /\ pc[q] = pc'[q]
               \/ up'[q] = up[q] /\ pc[q] = "verify" /\ pc'[q] = "released" /\ agent[Attempt(q)] = "claimed"
                  /\ agent' = agent
    BY <1>1, <2>3, EndsFields DEF agentVars
  <2>4. CASE \E i \in TxIds : CoolDown(i)
    BY <2>4 DEF CoolDown
  <2>5. CASE Restart
    BY <1>1, <2>5, RestartFields
  <2>6. CASE Elsewhere
    BY <2>6, ElsewhereFields DEF wrapperVars
  <2>7. ASSUME NEW p \in Queries, Moves(p) PROVE up' = up
    BY <2>7, MovesFields
  <2> QED BY <2>1, <2>2, <2>3, <2>4, <2>5, <2>6, <2>7, NextSplit
<1>2. \A q \in Queries : pc'[q] \in {"verify", "released"} => Attempt(q)' = Attempt(q)
  BY <1>1 DEF Attempt
<1>3. \A q \in Queries : Attempt(q) \in Attempts
  BY AttemptFacts DEF WrapperType
<1>4. ASSUME NEW q \in Queries, pc'[q] = "released"
      PROVE  agent'[Attempt(q)] = "claimed"
  <2>1. agent[Attempt(q)] = "claimed" /\ pc[q] # "permit"
    BY <1>1, <1>4 DEF AnchorInv
  <2>2. \A p \in Queries : pc[p] = "permit" => Attempt(p) # Attempt(q)
    BY <2>1, AttemptFacts DEF WrapperType
  <2> QED BY <1>3, <2>1, <2>2, AgentKept
<1>5. ASSUME NEW q \in Queries, pc'[q] \in {"verify", "released"}, agent'[Attempt(q)] = "claimed"
      PROVE  Attempt(q) \in DOMAIN anchor' /\ anchor'[Attempt(q)].by = Attempt(q)
  <2>1. pc[q] \in {"verify", "released"}
    BY <1>1, <1>5
  <2>2. CASE agent[Attempt(q)] = "claimed"
    <3>1. Attempt(q) \in DOMAIN anchor /\ anchor[Attempt(q)].by = Attempt(q)
      BY <2>1, <2>2 DEF AnchorInv
    <3>2. ~\E i \in DOMAIN rows : ClaimTakes(Attempt(q), i)
      BY <2>2 DEF ClaimTakes, Takes
    <3> QED BY <1>3, <1>5, <3>1, <3>2, AgentKept
  <2>3. CASE agent[Attempt(q)] # "claimed"
    <3>1. pc[q] = "verify"
      BY <2>1, <2>3 DEF AnchorInv
    <3>2. PICK i \in DOMAIN rows : ClaimTakes(Attempt(q), i)
      BY <1>3, <1>5, <2>3, AgentKept
    <3>3. rows[i].by = Attempt(q)
      BY <3>1, <3>2, ClaimOwn
    <3>4. anchor' = Put(anchor, Attempt(q), rows[i])
      BY <3>2 DEF ClaimTakes, Takes
    <3> QED BY <3>3, <3>4 DEF Put
  <2> QED BY <2>2, <2>3
<1> QED BY <1>2, <1>4, <1>5 DEF AnchorInv

\* The Wrapper with the Agent: the answer a client gets was released on the
\* terminal event of its own resolution, not of an identical concurrent query, an
\* earlier user of the transaction ID, an earlier attempt of the same query or a
\* peer's query; for any number of queries, upstreams, IDs and restarts.
THEOREM AlwaysOwnEvidence ==
  ASSUME PromptTrace, PeersApart
  PROVE  Spec => []OwnEvidence
<1>1. Init => OwnInv
  BY EmptyFacts DEF Init, OwnInv, PeerInv, QuietInv, AnchorInv, QuietBut, Holding, Sent
<1>2. BindingInv /\ OwnInv /\ [Next]_vars => OwnInv'
  BY PeerStep, QuietStep, AnchorStep DEF OwnInv
<1>3. OwnInv => OwnEvidence
  BY DEF OwnInv, AnchorInv, OwnEvidence
<1> QED BY <1>1, <1>2, <1>3, BindingInvariant, PTL DEF Spec
==============================================================================
