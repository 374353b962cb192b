------------------------- MODULE ChainEvidenceProofs -------------------------
(***************************************************************************)
(* Proofs about ChainEvidence, for every set of resolvers, endpoints and   *)
(* queries, every sequence of configurations, and all bounds: an answer is *)
(* released only over a chain that leaves out no upstream, and the Wrapper *)
(* accepts what an Agent builds without an error.                          *)
(*                                                                         *)
(* A chain is a preorder sequence of nodes with their depths, so that what *)
(* is below a node is a stretch of the sequence, and no step of the        *)
(* argument needs an induction over trees.                                 *)
(***************************************************************************)
EXTENDS ChainEvidence, SequenceTheorems, WellFoundedInduction, TLAPS

-----------------------------------------------------------------------------
(* Types                                                                   *)

Owners == {Owner[e] : e \in Endpoint}
EvidenceRecord == [from : Resolver, to : Endpoint, id : Owners, verified : BOOLEAN, key : BOOLEAN]
HopRecord == [from : Resolver, to : Endpoint, id : Owners, accepted : BOOLEAN,
              evidence : EvidenceRecord, signer : Resolver]
Node == [id : Resolver, signer : Resolver, endpoint : Endpoint, version : Nat, challenge : Query,
         hops : Seq(HopRecord), terminal : Seq(Endpoint), errors : BOOLEAN, final : BOOLEAN]
Item == [depth : Nat, node : Node]
Frame == [agent : Resolver, pos : Nat, hops : Seq(HopRecord), downs : Seq(Item),
          terminal : Seq(Endpoint), errors : BOOLEAN]
Step == {"none", "first", "fetch", "check", "record", "done", "failed"}
Thread == [step : Step, stack : Seq(Frame), payload : Seq(Item), previous : Seq(Item), gen : Nat]
State == {"new", "observe", "verify", "released", "servfail", "lost"}
QueryRecord == [at : Nat, state : State, chain : Seq(Item)]

TypeInv ==
    /\ version \in [Resolver -> Nat] /\ \A r \in Resolver : version[r] \in DOMAIN Configs[r]
    /\ active \subseteq Resolver /\ since \in [Query -> SUBSET Resolver]
    /\ query \in [Query -> QueryRecord]
    /\ thread \in [Threads -> Thread]
    /\ context \in [Elements(First) -> Seq(Item)]
    /\ generation \in Nat

-----------------------------------------------------------------------------
(* Chains that were built without an error                                 *)

\* The endpoint is the one of a chain directly below the node.
Below(C, i, e) == \E d \in Downs(C, i) : C[d].node.endpoint = e

\* A hop of Agent r that was verified, to an Agent with a key.
Fine(r, h) == h = Hop(r, h.to, TRUE) /\ Owner[h.to] \in Keyed

\* A node as an Agent without an error makes it: of its configuration nothing is
\* left out, and every hop leads to a chain below it.
NodeGood(n, C, q, i) ==
    LET c == Configs[n.id][n.version] IN
    /\ n.final /\ ~n.errors /\ n.challenge = q /\ n.signer = n.id /\ n.endpoint = Home[n.id]
    /\ \A m \in DOMAIN n.hops : Fine(n.id, n.hops[m]) /\ Below(C, i, n.hops[m].to)
    /\ \A d \in Downs(C, i) : \E m \in DOMAIN n.hops : n.hops[m].to = C[d].node.endpoint
    /\ \A m \in DOMAIN n.hops : n.hops[m].to \notin c.terminal
    /\ \A m \in DOMAIN n.terminal : n.terminal[m] \in c.terminal
    /\ \A e \in Elements(c.upstreams) \ c.terminal : Below(C, i, e)
Good(C, q, i) == NodeGood(C[i].node, C, q, i)

\* No resolver is below itself.
Apart(C) == \A i, j \in DOMAIN C : Within(C, i, j) => C[i].node.id # C[j].node.id

\* Downstream chains one after another, all of them accepted.
Forest(F, q) ==
    /\ F # <<>> => F[1].depth = 0
    /\ \A i \in DOMAIN F : Good(F, q, i) /\ Shape(F, i) /\ F[i].node.id \in since[q]
    /\ Apart(F)

\* What an Agent answers.
Built(C, q) ==
    /\ C # <<>> /\ C[1].depth = 0 /\ \A i \in DOMAIN C : i # 1 => C[i].depth > 0
    /\ C[1].node.final =>
          /\ \A i \in DOMAIN C : Good(C, q, i)
          /\ \A i \in DOMAIN C : i # 1 => Shape(C, i) /\ C[i].node.id \in since[q]
          /\ Apart(C)
          /\ Distinct(Configs[C[1].node.id][C[1].node.version].upstreams) => Shape(C, 1)

-----------------------------------------------------------------------------
(* Agents at work                                                          *)

\* The last n hops of a call have no chain yet.
Settled(f, n) == 1 .. (Len(f.hops) - n)
Rooted(f, e) == \E d \in DOMAIN f.downs :
                   f.downs[d].depth = 0 /\ f.downs[d].node.endpoint = e /\ f.downs[d].node.id = Url[e]

\* The downstream chains are of different resolvers, the terminals different.
Different(f) ==
    /\ \A j, k \in DOMAIN f.hops : f.hops[j].to = f.hops[k].to => j = k
    /\ Distinct(f.terminal)
    /\ \A c, d \in DOMAIN f.downs :
          f.downs[c].depth = 0 /\ f.downs[d].depth = 0
            /\ f.downs[c].node.endpoint = f.downs[d].node.endpoint => c = d

\* What a call without an error has done so far.
SoundWith(c, f, q, n) ==
    /\ Forest(f.downs, q)
    /\ \A p \in 1 .. (f.pos - 1) : c.upstreams[p] \in c.terminal \/ Rooted(f, c.upstreams[p])
    /\ \A m \in DOMAIN f.hops :
          /\ Fine(f.agent, f.hops[m]) /\ f.hops[m].to \notin c.terminal
          /\ m \in Settled(f, n) => /\ Rooted(f, f.hops[m].to)
                                    /\ \E p \in 1 .. (f.pos - 1) : c.upstreams[p] = f.hops[m].to
    /\ \A m \in DOMAIN f.terminal :
          /\ f.terminal[m] \in c.terminal
          /\ \E p \in 1 .. (f.pos - 1) : c.upstreams[p] = f.terminal[m]
    /\ \A d \in DOMAIN f.downs : f.downs[d].depth = 0 =>
          \E m \in Settled(f, n) : f.hops[m].to = f.downs[d].node.endpoint
    /\ Distinct(c.upstreams) => Different(f)
Sound(f, q, n) == SoundWith(Config(f.agent), f, q, n)

CallInv(f, q, n) ==
    /\ f.pos \in 1 .. (Len(Config(f.agent).upstreams) + 1)
    /\ ~f.errors => Sound(f, q, n)

\* A call that waits for the chain of its upstream, which is g.
WaitingWith(c, e, f, g, q) ==
    /\ f.pos \in 1 .. Len(c.upstreams)
    /\ e \notin c.terminal /\ Owner[e] \in since[q] /\ e # Home[f.agent]
    /\ g.agent = Url[e]
    /\ f.hops # <<>> /\ f.hops[Len(f.hops)] = Hop(f.agent, e, TRUE) /\ Owner[e] \in Keyed
Waiting(f, g, q) ==
    WaitingWith(Config(f.agent), Config(f.agent).upstreams[f.pos], f, g, q)

\* No resolver of a chain without an error is one of the Agents that wait.
NoneWaits(s, k) ==
    ~s[k].errors => \A d \in DOMAIN s[k].downs, j \in 1 .. k : s[k].downs[d].node.id # s[j].agent

StackInv(s, q) ==
    /\ s # <<>>
    /\ \A k \in 1 .. Len(s) : NoneWaits(s, k) /\ CallInv(s[k], q, IF k = Len(s) THEN 0 ELSE 1)
    /\ \A k \in 1 .. (Len(s) - 1) : Waiting(s[k], s[k + 1], q)

\* A thread of query q that observes the upstream at e.
ThreadWith(t, q, e) ==
    /\ t.step # "none" => active \subseteq since[q]
    /\ t.step \in {"fetch", "check", "record", "done"} => Owner[e] \in since[q]
    /\ t.step # "fetch" => t.stack = <<>>
    /\ t.step = "fetch" => StackInv(t.stack, q)
    /\ t.step \in {"check", "record", "done"} => Built(t.payload, q)
    /\ t.step \in {"record", "done"} => PayloadValid(t.payload, e, q)
ThreadInv(x) == ThreadWith(thread[x], x[1], First[x[2]])

\* A query, and the threads that were started for it.
QueryWith(r, q) ==
    /\ r.state = "new" => r.at = 0
    /\ \A i \in DOMAIN First : i > r.at => thread[<<q, i>>].step = "none"
    /\ r.state \in {"observe", "verify"} =>
          r.at \in DOMAIN First /\ thread[<<q, r.at>>].step # "none"
    /\ r.state = "verify" => thread[<<q, r.at>>].step = "done"
    /\ r.state = "released" =>
          r.chain # <<>> /\ r.chain[1].node.id = Owner[First[r.at]] /\ Covered(r.chain, q)
QueryInv(q) == QueryWith(query[q], q)

ChainInv ==
    /\ TypeInv
    /\ \A x \in Threads : ThreadInv(x)
    /\ \A q \in Query : QueryInv(q)

-----------------------------------------------------------------------------
(* A chain inside another one                                              *)

\* From n on, G holds F, every node by c deeper, and then nothing of F's depth.
Embeds(F, G, n, c) ==
    /\ n + Len(F) <= Len(G)
    /\ \A j \in 1 .. Len(F) : G[n + j].node = F[j].node /\ G[n + j].depth = F[j].depth + c
    /\ n + Len(F) < Len(G) => G[n + Len(F) + 1].depth <= c

\* The entries of a chain.
LEMMA ItemAt ==
    ASSUME NEW F \in Seq(Item), NEW k \in 1 .. Len(F)
    PROVE  F[k] \in Item /\ F[k].depth \in Nat /\ F[k].node \in Node
<1>1. F[k] \in Item
  OBVIOUS
<1> QED
  BY <1>1 DEF Item

\* The entries of an embedded chain.
LEMMA EmbedAt ==
    ASSUME NEW F \in Seq(Item), NEW G, NEW n \in Nat, NEW c \in Nat,
           Embeds(F, G, n, c), NEW k \in 1 .. Len(F)
    PROVE  /\ G[n + k].node = F[k].node /\ G[n + k].depth = F[k].depth + c
           /\ F[k].depth \in Nat
BY ItemAt DEF Embeds

\* Depths compare as they did.
LEMMA EmbedCompare ==
    ASSUME NEW F \in Seq(Item), NEW G, NEW n \in Nat, NEW c \in Nat,
           Embeds(F, G, n, c), NEW a \in 1 .. Len(F), NEW b \in 1 .. Len(F)
    PROVE  /\ G[n + a].depth > G[n + b].depth <=> F[a].depth > F[b].depth
           /\ G[n + a].depth = G[n + b].depth + 1 <=> F[a].depth = F[b].depth + 1
<1>0. ASSUME NEW k \in 1 .. Len(F) PROVE G[n + k].depth = F[k].depth + c /\ F[k].depth \in Nat
  BY EmbedAt
<1>1. PICK x, y, u, v : /\ x = G[n + a].depth /\ y = G[n + b].depth
                        /\ u = F[a].depth /\ v = F[b].depth
  OBVIOUS
<1>2. G[n + a].depth = F[a].depth + c /\ F[a].depth \in Nat
  BY <1>0
<1>3. G[n + b].depth = F[b].depth + c /\ F[b].depth \in Nat
  BY <1>0
<1>4. x = u + c /\ u \in Nat /\ y = v + c /\ v \in Nat
  BY <1>1, <1>2, <1>3, Zenon
<1>5. (x > y <=> u > v) /\ (x = y + 1 <=> u = v + 1)
  BY <1>4
<1> QED
  BY <1>1, <1>5, Zenon

\* What is nested in a node stays nested in it.
LEMMA EmbedWithin ==
    ASSUME NEW F \in Seq(Item), NEW G \in Seq(Item), NEW n \in Nat, NEW c \in Nat,
           Embeds(F, G, n, c), NEW i \in 1 .. Len(F), NEW j \in 1 .. Len(F)
    PROVE  Within(G, n + i, n + j) <=> Within(F, i, j)
<1>1. ASSUME NEW a \in 1 .. Len(F), NEW b \in 1 .. Len(F)
      PROVE  /\ G[n + a].depth > G[n + b].depth <=> F[a].depth > F[b].depth
             /\ G[n + a].depth = G[n + b].depth + 1 <=> F[a].depth = F[b].depth + 1
  BY EmbedCompare
<1>3. ASSUME Within(F, i, j) PROVE Within(G, n + i, n + j)
  <2>1. ASSUME NEW k \in (n + i + 1) .. (n + j) PROVE G[k].depth > G[n + i].depth
    <3>1. PICK m \in (i + 1) .. j : k = n + m
      <4>1. k - n \in (i + 1) .. j /\ k = n + (k - n)
        OBVIOUS
      <4> QED
        BY <4>1
    <3>2. m \in 1 .. Len(F)
      OBVIOUS
    <3>3. F[m].depth > F[i].depth
      BY <1>3, Zenon DEF Within
    <3>4. G[n + m].depth > G[n + i].depth
      BY <1>1, <3>2, <3>3
    <3> QED
      BY <3>1, <3>4
  <2> QED
    BY <1>3, <2>1 DEF Within
<1>4. ASSUME Within(G, n + i, n + j) PROVE Within(F, i, j)
  <2>1. ASSUME NEW k \in (i + 1) .. j PROVE F[k].depth > F[i].depth
    <3>1. n + k \in (n + i + 1) .. (n + j) /\ k \in 1 .. Len(F)
      OBVIOUS
    <3>2. G[n + k].depth > G[n + i].depth
      BY <1>4, <3>1 DEF Within
    <3> QED
      BY <1>1, <3>1, <3>2
  <2> QED
    BY <1>4, <2>1 DEF Within
<1> QED
  BY <1>3, <1>4

\* The chains directly below a node stay the ones directly below it.
LEMMA EmbedDowns ==
    ASSUME NEW F \in Seq(Item), NEW G \in Seq(Item), NEW n \in Nat, NEW c \in Nat,
           Embeds(F, G, n, c), NEW i \in 1 .. Len(F)
    PROVE  /\ \A d \in Downs(F, i) : d \in 1 .. Len(F) /\ n + d \in Downs(G, n + i)
           /\ \A k \in Downs(G, n + i) : \E d \in Downs(F, i) : k = n + d
<1>1. ASSUME NEW a \in 1 .. Len(F), NEW b \in 1 .. Len(F)
      PROVE  /\ G[n + a].depth > G[n + b].depth <=> F[a].depth > F[b].depth
             /\ G[n + a].depth = G[n + b].depth + 1 <=> F[a].depth = F[b].depth + 1
  BY EmbedCompare
<1>3. ASSUME NEW d \in Downs(F, i) PROVE d \in 1 .. Len(F) /\ n + d \in Downs(G, n + i)
  <2>1. d \in 1 .. Len(F) /\ Within(F, i, d) /\ F[d].depth = F[i].depth + 1
    BY DEF Downs
  <2>2. Within(G, n + i, n + d) /\ G[n + d].depth = G[n + i].depth + 1
    BY <1>1, <2>1, EmbedWithin
  <2>3. n + d \in DOMAIN G
    BY <2>1 DEF Embeds
  <2> QED
    BY <2>1, <2>2, <2>3 DEF Downs
<1>4. ASSUME NEW k \in Downs(G, n + i) PROVE \E d \in Downs(F, i) : k = n + d
  <2>1. k \in 1 .. Len(G) /\ Within(G, n + i, k) /\ G[k].depth = G[n + i].depth + 1
    BY DEF Downs
  <2>2. k > n + i
    BY <2>1 DEF Within
  <2>3. k <= n + Len(F)
    <3>1. SUFFICES ASSUME k > n + Len(F) PROVE FALSE
      BY <2>1
    <3> DEFINE z == n + Len(F) + 1
    <3>2. z \in (n + i + 1) .. k /\ n + Len(F) < Len(G)
      BY <2>1, <3>1
    <3>3. G[z].depth <= c /\ G[z].depth > G[n + i].depth
      BY <2>1, <3>2 DEF Embeds, Within
    <3>4. G[n + i].depth = F[i].depth + c /\ F[i].depth \in Nat
      BY EmbedAt
    <3>5. G[z].depth \in Nat
      <4>1. z \in 1 .. Len(G)
        BY <2>1, <3>2
      <4> HIDE DEF z
      <4> QED
        BY <4>1, ItemAt
    <3> DEFINE x == G[z].depth
               y == G[n + i].depth
               u == F[i].depth
    <3>6. x <= c /\ x > y /\ y = u + c /\ u \in Nat /\ x \in Nat
      BY <3>3, <3>4, <3>5
    <3> HIDE DEF x, y, u
    <3> QED
      BY <3>6
  <2>4. PICK d \in 1 .. Len(F) : k = n + d
    <3>1. k - n \in 1 .. Len(F) /\ k = n + (k - n)
      BY <2>1, <2>2, <2>3
    <3> QED
      BY <3>1
  <2>5. Within(F, i, d)
    BY <2>1, <2>4, EmbedWithin
  <2>6. F[d].depth = F[i].depth + 1
    BY <1>1, <2>1, <2>4
  <2>7. d \in Downs(F, i)
    BY <2>5, <2>6 DEF Downs
  <2> QED
    BY <2>4, <2>7
<1> QED
  BY <1>3, <1>4

\* A node that is good stays good.
LEMMA EmbedGood ==
    ASSUME NEW F \in Seq(Item), NEW G \in Seq(Item), NEW n \in Nat, NEW c \in Nat,
           Embeds(F, G, n, c), NEW i \in 1 .. Len(F), NEW q, Good(F, q, i)
    PROVE  Good(G, q, n + i)
<1>1. /\ \A d \in Downs(F, i) : d \in 1 .. Len(F) /\ n + d \in Downs(G, n + i)
      /\ \A k \in Downs(G, n + i) : \E d \in Downs(F, i) : k = n + d
  BY EmbedDowns
<1>2. \A k \in 1 .. Len(F) : G[n + k].node = F[k].node
  BY DEF Embeds
<1>3. \A e : Below(F, i, e) => Below(G, n + i, e)
  BY <1>1, <1>2 DEF Below
<1>4. \A k \in Downs(G, n + i) : \E d \in Downs(F, i) : G[k].node = F[d].node
  BY <1>1, <1>2
<1>5. G[n + i].node = F[i].node
  BY <1>2
<1> DEFINE a == F[i].node
           t == Configs[a.id][a.version]
<1>6. /\ a.final /\ ~a.errors /\ a.challenge = q /\ a.signer = a.id /\ a.endpoint = Home[a.id]
      /\ \A m \in DOMAIN a.hops : Fine(a.id, a.hops[m]) /\ Below(F, i, a.hops[m].to)
      /\ \A d \in Downs(F, i) : \E m \in DOMAIN a.hops : a.hops[m].to = F[d].node.endpoint
      /\ \A m \in DOMAIN a.hops : a.hops[m].to \notin t.terminal
      /\ \A m \in DOMAIN a.terminal : a.terminal[m] \in t.terminal
      /\ \A e \in Elements(t.upstreams) \ t.terminal : Below(F, i, e)
  BY Zenon DEF Good, NodeGood
<1> HIDE DEF a, t
<1>7. /\ \A m \in DOMAIN a.hops : Below(G, n + i, a.hops[m].to)
      /\ \A e \in Elements(t.upstreams) \ t.terminal : Below(G, n + i, e)
  BY <1>3, <1>6
<1>8. \A k \in Downs(G, n + i) : \E m \in DOMAIN a.hops : a.hops[m].to = G[k].node.endpoint
  BY <1>4, <1>6
<1>9. G[n + i].node = a /\ t = Configs[a.id][a.version]
  BY <1>5 DEF a, t
<1>10. NodeGood(a, G, q, n + i)
  BY <1>6, <1>7, <1>8, <1>9 DEF NodeGood
<1> QED
  BY <1>9, <1>10 DEF Good

\* The shape of a node is what it was.
LEMMA EmbedShape ==
    ASSUME NEW F \in Seq(Item), NEW G \in Seq(Item), NEW n \in Nat, NEW c \in Nat,
           Embeds(F, G, n, c), NEW i \in 1 .. Len(F), Shape(F, i)
    PROVE  Shape(G, n + i)
<1> DEFINE a == F[i].node
           D == Downs(F, i)
           E == Downs(G, n + i)
<1>1. /\ \A d \in D : d \in 1 .. Len(F) /\ n + d \in E
      /\ \A k \in E : \E d \in D : k = n + d
  BY EmbedDowns
<1>2. \A k \in 1 .. Len(F) : G[n + k].node = F[k].node
  BY DEF Embeds
<1>3. G[n + i].node = a
  BY <1>2
<1>4. /\ \A h \in Elements(a.hops) : h.from = a.id
      /\ \A j, k \in DOMAIN a.hops :
            a.hops[j].to = a.hops[k].to /\ a.hops[j].id = a.hops[k].id => j = k
      /\ \A j, k \in DOMAIN a.hops :
            a.hops[j].accepted /\ a.hops[k].accepted /\ a.hops[j].id = a.hops[k].id => j = k
      /\ Distinct(a.terminal)
      /\ Elements(a.terminal) \cap {h.to : h \in Elements(a.hops)} = {}
      /\ Elements(a.terminal) \cap {F[d].node.endpoint : d \in D} = {}
      /\ \A b, d \in D : F[b].node.id = F[d].node.id => b = d
      /\ \A d \in D :
            /\ F[d].node.challenge = a.challenge
            /\ \E h \in Accepted(a) : h.id = F[d].node.id /\ h.to = F[d].node.endpoint
      /\ \A h \in Accepted(a) : h.evidence.key => \E d \in D : F[d].node.id = h.id
  BY DEF Shape
<1> HIDE DEF a, D, E
<1>5. \A k \in E : \E d \in D : k = n + d /\ G[k].node = F[d].node
  BY <1>1, <1>2
<1>6. Elements(a.terminal) \cap {G[d].node.endpoint : d \in E} = {}
  BY <1>4, <1>5
<1>7. ASSUME NEW b \in E, NEW d \in E, G[b].node.id = G[d].node.id PROVE b = d
  <2>1. PICK bb \in D : b = n + bb /\ G[b].node = F[bb].node
    BY <1>5
  <2>2. PICK dd \in D : d = n + dd /\ G[d].node = F[dd].node
    BY <1>5
  <2>3. bb = dd
    BY <1>4, <1>7, <2>1, <2>2
  <2> QED
    BY <2>1, <2>2, <2>3
<1>8. ASSUME NEW d \in E
      PROVE  /\ G[d].node.challenge = a.challenge
             /\ \E h \in Accepted(a) : h.id = G[d].node.id /\ h.to = G[d].node.endpoint
  BY <1>4, <1>5
<1>9. ASSUME NEW h \in Accepted(a), h.evidence.key PROVE \E d \in E : G[d].node.id = h.id
  <2>1. PICK d \in D : F[d].node.id = h.id
    BY <1>4, <1>9
  <2>2. n + d \in E /\ G[n + d].node = F[d].node
    BY <1>1, <1>2
  <2> QED
    BY <2>1, <2>2
<1> QED
  BY <1>3, <1>4, <1>6, <1>7, <1>8, <1>9 DEF Shape, E

\* The first of two sequences, where the second begins at depth 0.
LEMMA EmbedLeft ==
    ASSUME NEW F \in Seq(Item), NEW C \in Seq(Item), C # <<>> => C[1].depth = 0
    PROVE  Embeds(F, F \o C, 0, 0)
<1>1. \A j \in 1 .. Len(F) : (F \o C)[j] = F[j] /\ F[j].depth \in Nat
  BY ItemAt
<1>2. Len(F \o C) = Len(F) + Len(C) /\ Len(F) \in Nat /\ Len(C) \in Nat
  OBVIOUS
<1>3. Len(C) > 0 => (F \o C)[Len(F) + 1] = C[1] /\ C[1].depth = 0
  BY <1>2
<1> QED
  BY <1>1, <1>2, <1>3 DEF Embeds

\* The second of two sequences.
LEMMA EmbedRight ==
    ASSUME NEW F \in Seq(Item), NEW C \in Seq(Item)
    PROVE  Embeds(C, F \o C, Len(F), 0)
<1>1. Len(F \o C) = Len(F) + Len(C) /\ Len(F) \in Nat /\ Len(C) \in Nat
  OBVIOUS
<1>2. \A j \in 1 .. Len(C) : (F \o C)[Len(F) + j] = C[j]
  BY <1>1
<1>3. \A j \in 1 .. Len(C) : C[j].depth \in Nat
  BY ItemAt
<1>4. Embeds(C, F \o C, Len(F), 0) <=>
        /\ Len(F) + Len(C) <= Len(F \o C)
        /\ \A j \in 1 .. Len(C) : /\ (F \o C)[Len(F) + j].node = C[j].node
                                 /\ (F \o C)[Len(F) + j].depth = C[j].depth + 0
        /\ Len(F) + Len(C) < Len(F \o C) => (F \o C)[Len(F) + Len(C) + 1].depth <= 0
  BY Zenon DEF Embeds
<1> QED
  BY <1>1, <1>2, <1>3, <1>4

-----------------------------------------------------------------------------
(* The chain an Agent builds                                               *)

\* A node over downstream chains.
LEMMA NestShape ==
    ASSUME NEW node \in Node, NEW F \in Seq(Item), NEW C, C = Nest(node, F)
    PROVE  /\ C \in Seq(Item) /\ Len(C) = Len(F) + 1
           /\ C[1].node = node /\ C[1].depth = 0
           /\ \A j \in 1 .. Len(F) :
                 C[1 + j].node = F[j].node /\ C[1 + j].depth = F[j].depth + 1
<1> DEFINE deeper(i) == [depth |-> F[i].depth + 1, node |-> F[i].node]
           root == [depth |-> 0, node |-> node]
           T == [i \in 1 .. Len(F) |-> deeper(i)]
<1>1. root \in Item
  BY DEF Item
<1>2. \A i \in 1 .. Len(F) : deeper(i) \in Item
  <2>1. \A i \in 1 .. Len(F) : F[i].depth + 1 \in Nat /\ F[i].node \in Node
    BY ItemAt
  <2> QED
    BY <2>1 DEF Item
<1>3. C = <<root>> \o T
  <2>1. DOMAIN F = 1 .. Len(F)
    OBVIOUS
  <2> QED
    BY <2>1, Zenon DEF Nest
<1>4. \A i \in 1 .. Len(F) : T[i].node = F[i].node /\ T[i].depth = F[i].depth + 1
  OBVIOUS
<1>5. root.node = node /\ root.depth = 0
  OBVIOUS
<1>6. T \in Seq(Item) /\ Len(T) = Len(F)
  <2> HIDE DEF deeper
  <2> QED
    BY <1>2
<1> HIDE DEF root, T
<1>7. C \in Seq(Item) /\ Len(C) = Len(F) + 1 /\ C[1] = root
  BY <1>1, <1>3, <1>6
<1>8. \A j \in 1 .. Len(F) : C[1 + j] = T[j]
  BY <1>1, <1>3, <1>6
<1> QED
  BY <1>4, <1>5, <1>7, <1>8

\* All of the downstream chains are in the chain.
LEMMA NestEmbeds ==
    ASSUME NEW node \in Node, NEW F \in Seq(Item), NEW C, C = Nest(node, F)
    PROVE  Embeds(F, C, 1, 1)
BY NestShape DEF Embeds

\* Everything is nested in the first node; directly, the downstream chains.
LEMMA NestDowns ==
    ASSUME NEW node \in Node, NEW F \in Seq(Item), NEW C, C = Nest(node, F)
    PROVE  /\ \A j \in 1 .. Len(F) : Within(C, 1, 1 + j) /\ (F[j].depth = 0 => 1 + j \in Downs(C, 1))
           /\ \A k \in Downs(C, 1) : \E j \in 1 .. Len(F) : k = 1 + j /\ F[j].depth = 0
<1>1. /\ C \in Seq(Item) /\ Len(C) = Len(F) + 1 /\ C[1].depth = 0
      /\ \A j \in 1 .. Len(F) : C[1 + j].depth = F[j].depth + 1
  BY NestShape
<1>2. \A j \in 1 .. Len(F) : F[j].depth \in Nat
  BY ItemAt
<1>3. ASSUME NEW k \in 2 .. Len(C)
      PROVE  \E j \in 1 .. Len(F) : k = 1 + j /\ C[k].depth = F[j].depth + 1
  <2>1. k - 1 \in 1 .. Len(F) /\ k = 1 + (k - 1)
    BY <1>1
  <2>2. PICK j \in 1 .. Len(F) : k = 1 + j
    BY <2>1
  <2> QED
    BY <1>1, <2>2
<1>4. ASSUME NEW k \in 2 .. Len(C) PROVE C[k].depth > 0
  <2>1. PICK j \in 1 .. Len(F) : k = 1 + j /\ C[k].depth = F[j].depth + 1
    BY <1>3
  <2>2. F[j].depth \in Nat
    BY <1>2
  <2> QED
    BY <2>1, <2>2
<1>5. ASSUME NEW j \in 1 .. Len(F) PROVE Within(C, 1, 1 + j)
  <2>1. \A k \in (1 + 1) .. (1 + j) : k \in 2 .. Len(C)
    BY <1>1
  <2> QED
    BY <1>1, <1>4, <2>1 DEF Within
<1>6. ASSUME NEW j \in 1 .. Len(F), F[j].depth = 0 PROVE 1 + j \in Downs(C, 1)
  <2>1. C[1 + j].depth = C[1].depth + 1 /\ 1 + j \in DOMAIN C
    BY <1>1, <1>6
  <2> QED
    BY <1>5, <2>1 DEF Downs
<1>7. ASSUME NEW k \in Downs(C, 1) PROVE \E j \in 1 .. Len(F) : k = 1 + j /\ F[j].depth = 0
  <2>1. k \in 2 .. Len(C) /\ C[k].depth = C[1].depth + 1
    BY <1>1 DEF Downs, Within
  <2>2. PICK j \in 1 .. Len(F) : k = 1 + j /\ C[k].depth = F[j].depth + 1
    BY <1>3, <2>1
  <2>3. F[j].depth \in Nat
    BY <1>2
  <2> QED
    BY <1>1, <2>1, <2>2, <2>3
<1> QED
  BY <1>5, <1>6, <1>7

\* A hop that was verified, to an Agent with a key.
LEMMA FineFields ==
    ASSUME NEW r, NEW h, Fine(r, h)
    PROVE  /\ h.from = r /\ h.id = Owner[h.to] /\ h.accepted /\ h.signer = r
           /\ h.evidence.key /\ EvidenceValid(h)
<1> DEFINE e == h.to
<1>1. h = Hop(r, e, TRUE) /\ Owner[e] \in Keyed
  BY DEF Fine
<1> HIDE DEF e
<1>2. /\ h.from = r /\ h.to = e /\ h.id = Owner[e] /\ h.accepted = TRUE /\ h.signer = r
      /\ h.evidence = Evidence(r, e, TRUE)
  BY <1>1 DEF Hop, Signed, HopVerificationResult
<1>3. /\ h.evidence.from = r /\ h.evidence.to = e /\ h.evidence.id = Owner[e]
      /\ h.evidence.verified = TRUE /\ h.evidence.key = (TRUE /\ Owner[e] \in Keyed)
  BY <1>2 DEF Evidence
<1> QED
  BY <1>1, <1>2, <1>3, Zenon DEF EvidenceValid

\* A hop is a record of its type.
LEMMA HopType ==
    ASSUME NEW r \in Resolver, NEW e \in Endpoint, NEW ok \in BOOLEAN
    PROVE  Hop(r, e, ok) \in HopRecord
<1>1. Evidence(r, e, ok) \in EvidenceRecord
  BY DEF Evidence, EvidenceRecord, Owners
<1>2. Owner[e] \in Owners
  BY DEF Owners
<1>3. Hop(r, e, ok) = [from |-> r, to |-> e, id |-> Owner[e], accepted |-> ok,
                       evidence |-> Evidence(r, e, ok), signer |-> r]
  BY DEF Hop, Signed, HopVerificationResult
<1> QED
  BY <1>1, <1>2, <1>3 DEF HopRecord

\* The fields of a call.
LEMMA FrameFields ==
    ASSUME NEW f \in Frame
    PROVE  /\ f.agent \in Resolver /\ f.pos \in Nat /\ f.hops \in Seq(HopRecord)
           /\ f.downs \in Seq(Item) /\ f.terminal \in Seq(Endpoint) /\ f.errors \in BOOLEAN
BY DEF Frame

\* What an Agent says of itself.
NodeOfCall(f, q) ==
    Signed(VerificationChain(f, q, f.errors, AllFine(f) /\ ~f.errors), f.agent)

\* The parts of that node are those of the call.
LEMMA NodeOfCallFields ==
    ASSUME TypeInv, NEW f \in Frame, NEW q \in Query, NEW node, node = NodeOfCall(f, q)
    PROVE  /\ node \in Node
           /\ node.id = f.agent /\ node.signer = f.agent /\ node.endpoint = Home[f.agent]
           /\ node.version = version[f.agent] /\ node.challenge = q
           /\ node.hops = f.hops /\ node.terminal = f.terminal /\ node.errors = f.errors
           /\ node.final = (AllFine(f) /\ ~f.errors)
<1> DEFINE fine == AllFine(f) /\ ~f.errors
           home == Home[f.agent]
           now == version[f.agent]
<1>1. fine \in BOOLEAN
  OBVIOUS
<1>2. /\ f.agent \in Resolver /\ f.hops \in Seq(HopRecord)
      /\ f.terminal \in Seq(Endpoint) /\ f.errors \in BOOLEAN
  BY FrameFields
<1>3. home \in Endpoint /\ now \in Nat
  BY <1>2, Parameters DEF TypeInv
<1>4. node = [id |-> f.agent, signer |-> f.agent, endpoint |-> home, version |-> now,
              challenge |-> q, hops |-> f.hops, terminal |-> f.terminal, errors |-> f.errors,
              final |-> fine]
  BY DEF NodeOfCall, Signed, VerificationChain
<1> HIDE DEF fine, home, now
<1>5. node \in Node
  BY <1>1, <1>2, <1>3, <1>4 DEF Node
<1>6. /\ node.id = f.agent /\ node.signer = f.agent /\ node.endpoint = home
      /\ node.version = now /\ node.challenge = q
      /\ node.hops = f.hops /\ node.terminal = f.terminal /\ node.errors = f.errors
      /\ node.final = fine
  BY <1>4
<1> QED
  BY <1>5, <1>6 DEF fine, home, now

\* A resolver and its endpoint.
LEMMA OwnerOfHome ==
    ASSUME NEW r \in Resolver
    PROVE  Home[r] \in Endpoint /\ Owner[Home[r]] = r
BY Parameters

\* The resolvers of accepted chains speak for their own endpoints.
LEMMA ForestNode ==
    ASSUME NEW q, NEW F \in Seq(Item), Forest(F, q), NEW i \in 1 .. Len(F)
    PROVE  /\ F[i].node.id \in Resolver /\ F[i].node.endpoint = Home[F[i].node.id]
           /\ Owner[F[i].node.endpoint] = F[i].node.id /\ F[i].node.challenge = q
           /\ F[i].node.final
<1>1. F[i].node \in Node
  BY ItemAt
<1>2. F[i].node.id \in Resolver
  BY <1>1 DEF Node
<1>3. Good(F, q, i)
  BY DEF Forest
<1>4. F[i].node.endpoint = Home[F[i].node.id] /\ F[i].node.challenge = q /\ F[i].node.final
  BY <1>3, Zenon DEF Good, NodeGood
<1> QED
  BY <1>2, <1>4, OwnerOfHome

\* The configuration an Agent runs with.
LEMMA ConfigType ==
    ASSUME TypeInv, NEW r \in Resolver
    PROVE  Config(r).upstreams \in Seq(Endpoint) /\ Config(r).terminal \in SUBSET Endpoint
<1> DEFINE R == [upstreams : Seq(Endpoint), terminal : SUBSET Endpoint]
<1>1. Configs[r] \in Seq(R) /\ version[r] \in DOMAIN Configs[r]
  BY Parameters DEF TypeInv
<1>2. Configs[r][version[r]] \in R
  <2> HIDE DEF R
  <2> QED
    BY <1>1
<1> QED
  BY <1>2 DEF Config

\* The Agent's own node leaves out nothing of its configuration.
LEMMA OwnNodeGood ==
    ASSUME TypeInv, NEW f \in Frame, NEW q \in Query, Sound(f, q, 0), ~f.errors, AllFine(f),
           f.pos = Len(Config(f.agent).upstreams) + 1,
           NEW node, node = NodeOfCall(f, q), NEW C, C = Nest(node, f.downs)
    PROVE  Good(C, q, 1)
<1> DEFINE F == f.downs
           hops == f.hops
           c == Config(f.agent)
<1>1. /\ f.agent \in Resolver /\ f.pos \in Nat /\ hops \in Seq(HopRecord)
      /\ F \in Seq(Item) /\ f.terminal \in Seq(Endpoint)
  BY FrameFields
<1>2. /\ node \in Node
      /\ node.id = f.agent /\ node.signer = f.agent /\ node.endpoint = Home[f.agent]
      /\ node.version = version[f.agent] /\ node.challenge = q
      /\ node.hops = hops /\ node.terminal = f.terminal /\ node.errors = f.errors
      /\ node.final = (AllFine(f) /\ ~f.errors)
  BY NodeOfCallFields
<1>3. /\ C[1].node = node
      /\ \A j \in 1 .. Len(F) : C[1 + j].node = F[j].node
  BY <1>1, <1>2, NestShape
<1>4. /\ \A j \in 1 .. Len(F) :
            Within(C, 1, 1 + j) /\ (F[j].depth = 0 => 1 + j \in Downs(C, 1))
      /\ \A k \in Downs(C, 1) : \E j \in 1 .. Len(F) : k = 1 + j /\ F[j].depth = 0
  <2>1. C = Nest(node, F)
    OBVIOUS
  <2> HIDE DEF F
  <2> QED
    BY <1>1, <1>2, <2>1, NestDowns
<1>5. c = Configs[node.id][node.version]
  BY <1>2 DEF Config
<1>6. c.upstreams \in Seq(Endpoint)
  BY <1>1, ConfigType
<1>7. /\ \A p \in 1 .. (f.pos - 1) : c.upstreams[p] \in c.terminal \/ Rooted(f, c.upstreams[p])
      /\ \A m \in DOMAIN hops : /\ Fine(f.agent, hops[m]) /\ hops[m].to \notin c.terminal
                                /\ m \in Settled(f, 0) => Rooted(f, hops[m].to)
      /\ \A m \in DOMAIN f.terminal : f.terminal[m] \in c.terminal
      /\ \A d \in DOMAIN F : F[d].depth = 0 =>
            \E m \in Settled(f, 0) : hops[m].to = F[d].node.endpoint
  BY DEF Sound, SoundWith
<1>8. DOMAIN hops = Settled(f, 0) /\ DOMAIN F = 1 .. Len(F)
  BY <1>1 DEF Settled
<1>9. ASSUME NEW e, Rooted(f, e) PROVE Below(C, 1, e)
  <2>1. PICK d \in DOMAIN F : F[d].depth = 0 /\ F[d].node.endpoint = e
    BY <1>9 DEF Rooted
  <2>2. 1 + d \in Downs(C, 1) /\ C[1 + d].node = F[d].node
    BY <1>3, <1>4, <1>8, <2>1
  <2> QED
    BY <2>1, <2>2 DEF Below
<1>10. ASSUME NEW e \in Elements(c.upstreams) \ c.terminal PROVE Below(C, 1, e)
  <2>1. PICK p \in DOMAIN c.upstreams : c.upstreams[p] = e
    BY DEF Elements
  <2>2. p \in 1 .. (f.pos - 1)
    <3> HIDE DEF c
    <3>1. DOMAIN c.upstreams = 1 .. Len(c.upstreams) /\ f.pos = Len(c.upstreams) + 1
      BY <1>6 DEF c
    <3> QED
      BY <1>6, <2>1, <3>1
  <2> QED
    BY <1>7, <1>9, <2>1, <2>2
<1> HIDE DEF c
<1>11. ASSUME NEW k \in Downs(C, 1) PROVE \E m \in DOMAIN hops : hops[m].to = C[k].node.endpoint
  <2>1. PICK j \in 1 .. Len(F) : k = 1 + j /\ F[j].depth = 0
    BY <1>4
  <2>2. C[k].node = F[j].node
    BY <1>3, <2>1
  <2> QED
    BY <1>7, <1>8, <2>1, <2>2
<1>12. \A m \in DOMAIN hops : Fine(f.agent, hops[m]) /\ Below(C, 1, hops[m].to)
  BY <1>7, <1>8, <1>9
<1>13. node.final /\ ~node.errors
  BY <1>2
<1>14. /\ \A m \in DOMAIN node.hops : Fine(node.id, node.hops[m]) /\ Below(C, 1, node.hops[m].to)
       /\ \A d \in Downs(C, 1) : \E m \in DOMAIN node.hops : node.hops[m].to = C[d].node.endpoint
       /\ \A m \in DOMAIN node.hops : node.hops[m].to \notin c.terminal
       /\ \A m \in DOMAIN node.terminal : node.terminal[m] \in c.terminal
  <2> HIDE DEF F, hops
  <2> QED
    BY <1>2, <1>7, <1>11, <1>12
<1>15. node.challenge = q /\ node.signer = node.id /\ node.endpoint = Home[node.id]
  BY <1>2
<1>16. NodeGood(node, C, q, 1)
  BY <1>5, <1>10, <1>13, <1>14, <1>15 DEF NodeGood
<1> QED
  BY <1>3, <1>16 DEF Good

\* The hops lead to different endpoints, the chains below a node are of
\* different ones, and they are of the resolvers of these.
HopsDiffer(n) == \A j, k \in DOMAIN n.hops : n.hops[j].to = n.hops[k].to => j = k
DownsDiffer(C, i) ==
    \A a, b \in Downs(C, i) : C[a].node.endpoint = C[b].node.endpoint => a = b
DownsOwn(C, i, q) ==
    \A d \in Downs(C, i) : /\ C[d].node.id \in Resolver /\ C[d].node.challenge = q
                           /\ C[d].node.endpoint = Home[C[d].node.id]

\* The shape of a node that is good, when it has no upstream twice.
LEMMA GoodShape ==
    ASSUME NEW C, NEW i, NEW q, NEW n, n = C[i].node, NodeGood(n, C, q, i),
           HopsDiffer(n), Distinct(n.terminal), DownsOwn(C, i, q), DownsDiffer(C, i)
    PROVE  Shape(C, i)
<1> DEFINE D == Downs(C, i)
           hops == n.hops
           c == Configs[n.id][n.version]
<1>1. /\ \A m \in DOMAIN hops : Fine(n.id, hops[m]) /\ Below(C, i, hops[m].to)
      /\ \A d \in D : \E m \in DOMAIN hops : hops[m].to = C[d].node.endpoint
      /\ \A m \in DOMAIN hops : hops[m].to \notin c.terminal
      /\ \A m \in DOMAIN n.terminal : n.terminal[m] \in c.terminal
      /\ n.challenge = q
  BY Zenon DEF NodeGood
<1>2. \A m \in DOMAIN hops : /\ hops[m].from = n.id /\ hops[m].id = Owner[hops[m].to]
                             /\ hops[m].accepted /\ hops[m].evidence.key
  BY <1>1, FineFields
<1>3. \A d \in D : Owner[C[d].node.endpoint] = C[d].node.id
  BY OwnerOfHome DEF DownsOwn
<1>4. ASSUME NEW m \in DOMAIN hops
      PROVE  \E d \in D : C[d].node.endpoint = hops[m].to /\ C[d].node.id = hops[m].id
  <2>1. PICK d \in D : C[d].node.endpoint = hops[m].to
    BY <1>1 DEF Below
  <2> QED
    BY <1>2, <1>3, <2>1
<1>5. ASSUME NEW j \in DOMAIN hops, NEW k \in DOMAIN hops, hops[j].id = hops[k].id PROVE j = k
  <2>1. PICK a \in D : C[a].node.endpoint = hops[j].to /\ C[a].node.id = hops[j].id
    BY <1>4
  <2>2. PICK b \in D : C[b].node.endpoint = hops[k].to /\ C[b].node.id = hops[k].id
    BY <1>4
  <2>3. hops[j].to = hops[k].to
    BY <1>5, <2>1, <2>2 DEF DownsOwn
  <2> QED
    BY <2>3 DEF HopsDiffer
<1>6. Elements(n.terminal) \cap {h.to : h \in Elements(hops)} = {}
  BY <1>1 DEF Elements
<1>7. Elements(n.terminal) \cap {C[d].node.endpoint : d \in D} = {}
  BY <1>1 DEF Elements
<1>8. ASSUME NEW d \in D
      PROVE  /\ C[d].node.challenge = n.challenge
             /\ \E h \in Accepted(n) : h.id = C[d].node.id /\ h.to = C[d].node.endpoint
  <2>1. PICK m \in DOMAIN hops : hops[m].to = C[d].node.endpoint
    BY <1>1
  <2>2. hops[m] \in Accepted(n) /\ hops[m].id = C[d].node.id
    BY <1>2, <1>3, <2>1 DEF Accepted, Elements
  <2> QED
    BY <1>1, <2>1, <2>2 DEF DownsOwn
<1>9. ASSUME NEW h \in Accepted(n) PROVE \E d \in D : C[d].node.id = h.id
  <2>1. PICK m \in DOMAIN hops : h = hops[m]
    BY DEF Accepted, Elements
  <2> QED
    BY <1>4, <2>1
<1>10. \A a, b \in D : C[a].node.id = C[b].node.id => a = b
  BY DEF DownsOwn, DownsDiffer
<1>11. \A h \in Elements(hops) : h.from = n.id
  BY <1>2 DEF Elements
<1> HIDE DEF D, hops, c
<1>12. D = Downs(C, i) /\ hops = C[i].node.hops /\ n = C[i].node
  BY DEF D, hops
<1>13. \A j, k \in DOMAIN hops : hops[j].to = hops[k].to /\ hops[j].id = hops[k].id => j = k
  BY <1>5
<1>14. \A j, k \in DOMAIN hops :
          hops[j].accepted /\ hops[k].accepted /\ hops[j].id = hops[k].id => j = k
  BY <1>5
<1> QED
  BY <1>6, <1>7, <1>8, <1>9, <1>10, <1>11, <1>12, <1>13, <1>14 DEF Shape

\* What an Agent answers is as promised.
LEMMA BuiltLemma ==
    ASSUME TypeInv, NEW f \in Frame, NEW q \in Query, ~f.errors => Sound(f, q, 0),
           f.pos = Len(Config(f.agent).upstreams) + 1,
           ~f.errors => \A d \in DOMAIN f.downs : f.downs[d].node.id # f.agent,
           NEW C, C = BuiltFrom(f, q)
    PROVE  /\ C \in Seq(Item) /\ Built(C, q)
           /\ C[1].node.id = f.agent /\ C[1].node.endpoint = Home[f.agent]
           /\ C[1].node.version = version[f.agent]
           /\ C[1].node.final => ~f.errors
           /\ Len(C) = Len(f.downs) + 1
           /\ \A j \in 1 .. Len(f.downs) : C[1 + j].node = f.downs[j].node
<1> DEFINE F == f.downs
           node == NodeOfCall(f, q)
<1>1. C = Nest(node, F)
  BY DEF BuiltFrom, NodeOfCall
<1>2. F \in Seq(Item) /\ f.agent \in Resolver /\ f.hops \in Seq(HopRecord) /\ f.errors \in BOOLEAN
  BY FrameFields
<1>3. /\ node \in Node
      /\ node.id = f.agent /\ node.signer = f.agent /\ node.endpoint = Home[f.agent]
      /\ node.version = version[f.agent] /\ node.challenge = q
      /\ node.hops = f.hops /\ node.terminal = f.terminal /\ node.errors = f.errors
      /\ node.final = (AllFine(f) /\ ~f.errors)
  BY NodeOfCallFields
<1> HIDE DEF F, node
<1>4. /\ C \in Seq(Item) /\ Len(C) = Len(F) + 1
      /\ C[1].node = node /\ C[1].depth = 0
      /\ \A j \in 1 .. Len(F) : C[1 + j].node = F[j].node /\ C[1 + j].depth = F[j].depth + 1
  BY <1>1, <1>2, <1>3, NestShape
<1>5. ASSUME NEW i \in DOMAIN C, i # 1 PROVE \E j \in 1 .. Len(F) : i = 1 + j
  <2>1. i - 1 \in 1 .. Len(F) /\ i = 1 + (i - 1)
    BY <1>2, <1>4, <1>5
  <2> QED
    BY <2>1
<1>6. C # <<>> /\ \A i \in DOMAIN C : i # 1 => C[i].depth > 0
  <2>1. \A j \in 1 .. Len(F) : F[j].depth \in Nat
    BY <1>2, ItemAt
  <2>2. ASSUME NEW i \in DOMAIN C, i # 1 PROVE C[i].depth > 0
    <3>1. PICK j \in 1 .. Len(F) : i = 1 + j
      BY <1>5, <2>2
    <3>2. C[i].depth = F[j].depth + 1 /\ F[j].depth \in Nat
      BY <1>4, <2>1, <3>1
    <3> QED
      BY <3>2
  <2> QED
    BY <1>2, <1>4, <2>2
<1>7. Embeds(F, C, 1, 1)
  BY <1>1, <1>2, <1>3, NestEmbeds
<1>8. ASSUME C[1].node.final
      PROVE  /\ \A i \in DOMAIN C : Good(C, q, i)
             /\ \A i \in DOMAIN C : i # 1 => Shape(C, i) /\ C[i].node.id \in since[q]
             /\ Apart(C)
             /\ Distinct(Configs[C[1].node.id][C[1].node.version].upstreams) => Shape(C, 1)
  <2>1. AllFine(f) /\ ~f.errors
    BY <1>3, <1>4, <1>8
  <2>2. Sound(f, q, 0)
    BY <2>1
  <2>3. Forest(F, q)
    BY <2>2 DEF Sound, SoundWith, F
  <2>4. Good(C, q, 1)
    BY <1>1, <2>1, <2>2, OwnNodeGood DEF F, node
  <2>5. ASSUME NEW i \in DOMAIN C, i # 1
        PROVE  Good(C, q, i) /\ Shape(C, i) /\ C[i].node.id \in since[q]
    <3>1. PICK j \in 1 .. Len(F) : i = 1 + j
      BY <1>5, <2>5
    <3>2. Good(F, q, j) /\ Shape(F, j) /\ F[j].node.id \in since[q]
      BY <1>2, <2>3 DEF Forest
    <3>3. Good(C, q, 1 + j) /\ Shape(C, 1 + j)
      BY <1>2, <1>4, <1>7, <3>2, EmbedGood, EmbedShape
    <3> QED
      BY <1>4, <3>1, <3>2, <3>3
  <2>6. ASSUME NEW i \in DOMAIN C, NEW j \in DOMAIN C, Within(C, i, j)
        PROVE  C[i].node.id # C[j].node.id
    <3>1. i < j /\ i \in Nat /\ j \in Nat /\ i >= 1
      BY <1>4, <2>6 DEF Within
    <3>2. PICK b \in 1 .. Len(F) : j = 1 + b
      BY <1>5, <3>1
    <3>3. CASE i = 1
      <4>1. F[b].node.id # f.agent
        BY <1>2, <2>1 DEF F
      <4> QED
        BY <1>3, <1>4, <3>2, <3>3, <4>1
    <3>4. CASE i # 1
      <4>1. PICK a \in 1 .. Len(F) : i = 1 + a
        BY <1>5, <3>4
      <4>2. Within(F, a, b)
        BY <1>2, <1>4, <1>7, <2>6, <3>2, <4>1, EmbedWithin
      <4>3. F[a].node.id # F[b].node.id
        BY <1>2, <2>3, <4>2 DEF Forest, Apart
      <4> QED
        BY <1>4, <3>2, <4>1, <4>3
    <3> QED
      BY <3>3, <3>4
  <2>7. ASSUME Distinct(Configs[C[1].node.id][C[1].node.version].upstreams) PROVE Shape(C, 1)
    <3>1. Different(f)
      <4>1. Config(f.agent) = Configs[C[1].node.id][C[1].node.version]
        BY <1>3, <1>4 DEF Config
      <4>2. Distinct(Config(f.agent).upstreams)
        <5> DEFINE u == Config(f.agent).upstreams
                   v == Configs[C[1].node.id][C[1].node.version].upstreams
        <5>1. u = v
          BY <4>1
        <5>2. Distinct(v)
          BY <2>7
        <5> HIDE DEF u, v
        <5>3. Distinct(u)
          BY <5>1, <5>2
        <5> QED
          BY <5>3 DEF u
      <4> QED
        BY <2>2, <4>2 DEF Sound, SoundWith
    <3>2. /\ \A k \in Downs(C, 1) : \E j \in 1 .. Len(F) : k = 1 + j /\ F[j].depth = 0
          /\ \A j \in 1 .. Len(F) :
                Within(C, 1, 1 + j) /\ (F[j].depth = 0 => 1 + j \in Downs(C, 1))
      BY <1>1, <1>2, <1>3, NestDowns
    <3>3. NodeGood(node, C, q, 1)
      BY <1>4, <2>4 DEF Good
    <3>4. HopsDiffer(node) /\ Distinct(node.terminal)
      BY <1>3, <3>1 DEF Different, HopsDiffer
    <3>5. ASSUME NEW d \in Downs(C, 1)
          PROVE  /\ C[d].node.id \in Resolver /\ C[d].node.challenge = q
                 /\ C[d].node.endpoint = Home[C[d].node.id]
      <4>1. PICK j \in 1 .. Len(F) : d = 1 + j
        BY <3>2
      <4>2. /\ F[j].node.id \in Resolver /\ F[j].node.endpoint = Home[F[j].node.id]
            /\ F[j].node.challenge = q
        BY <1>2, <2>3, ForestNode
      <4> QED
        BY <1>4, <4>1, <4>2
    <3>6. ASSUME NEW a \in Downs(C, 1), NEW b \in Downs(C, 1),
                 C[a].node.endpoint = C[b].node.endpoint
          PROVE  a = b
      <4>1. PICK x \in 1 .. Len(F) : a = 1 + x /\ F[x].depth = 0
        BY <3>2
      <4>2. PICK y \in 1 .. Len(F) : b = 1 + y /\ F[y].depth = 0
        BY <3>2
      <4>3. F[x].node.endpoint = F[y].node.endpoint
        BY <1>4, <3>6, <4>1, <4>2
      <4>4. x = y
        BY <1>2, <3>1, <4>1, <4>2, <4>3 DEF Different, F
      <4> QED
        BY <4>1, <4>2, <4>4
    <3>7. node = C[1].node /\ DownsOwn(C, 1, q) /\ DownsDiffer(C, 1)
      BY <1>4, <3>5, <3>6 DEF DownsOwn, DownsDiffer
    <3> QED
      BY <3>3, <3>4, <3>7, GoodShape
  <2> QED
    BY <2>4, <2>5, <2>6, <2>7 DEF Apart
<1>9. Built(C, q)
  BY <1>4, <1>6, <1>8 DEF Built
<1>10. C[1].node.final => ~f.errors
  BY <1>3, <1>4
<1> QED
  BY <1>3, <1>4, <1>9, <1>10 DEF F

\* A chain that was accepted joins the others.
LEMMA ForestJoin ==
    ASSUME NEW q, NEW F \in Seq(Item), Forest(F, q), NEW C \in Seq(Item), Built(C, q),
           C[1].node.final, Shape(C, 1), C[1].node.id \in since[q], NEW G, G = F \o C
    PROVE  G \in Seq(Item) /\ Forest(G, q)
<1>1. /\ C # <<>> /\ C[1].depth = 0
      /\ \A i \in DOMAIN C : Good(C, q, i) /\ Shape(C, i) /\ C[i].node.id \in since[q]
      /\ Apart(C)
  BY DEF Built
<1>2. Embeds(F, G, 0, 0) /\ Embeds(C, G, Len(F), 0)
  BY <1>1, EmbedLeft, EmbedRight
<1>3. /\ G \in Seq(Item) /\ Len(G) = Len(F) + Len(C) /\ Len(F) \in Nat /\ Len(C) \in Nat
      /\ Len(C) > 0
  BY <1>1
<1>4. /\ \A j \in 1 .. Len(F) : G[j] = F[j]
      /\ \A j \in 1 .. Len(C) : G[Len(F) + j] = C[j]
  BY <1>3
<1> DEFINE n == Len(F)
<1>5. ASSUME NEW i \in DOMAIN G
      PROVE  \/ i \in 1 .. Len(F)
             \/ \E j \in 1 .. Len(C) : i = n + j
  <2>1. ASSUME i \notin 1 .. Len(F) PROVE i - n \in 1 .. Len(C) /\ i = n + (i - n)
    BY <1>3, <2>1
  <2> QED
    BY <2>1
<1> HIDE DEF n
<1>6. n \in Nat /\ n = Len(F) /\ Embeds(C, G, n, 0)
  BY <1>2, <1>3 DEF n
<1>7. ASSUME NEW i \in DOMAIN G
      PROVE  Good(G, q, i) /\ Shape(G, i) /\ G[i].node.id \in since[q]
  <2>1. CASE i \in 1 .. Len(F)
    <3>1. Good(F, q, i) /\ Shape(F, i) /\ F[i].node.id \in since[q]
      BY <2>1 DEF Forest
    <3>2. Good(G, q, 0 + i) /\ Shape(G, 0 + i)
      BY <1>2, <1>3, <2>1, <3>1, EmbedGood, EmbedShape
    <3>3. 0 + i = i
      BY <2>1
    <3> QED
      BY <1>4, <2>1, <3>1, <3>2, <3>3
  <2>2. CASE \E j \in 1 .. Len(C) : i = n + j
    <3>1. PICK j \in 1 .. Len(C) : i = n + j
      BY <2>2
    <3>2. Good(C, q, j) /\ Shape(C, j) /\ C[j].node.id \in since[q]
      BY <1>1
    <3>3. Good(G, q, n + j) /\ Shape(G, n + j)
      BY <1>3, <1>6, <3>2, EmbedGood, EmbedShape
    <3> QED
      BY <1>4, <1>6, <3>1, <3>2, <3>3
  <2> QED
    BY <1>5, <2>1, <2>2
<1>8. ASSUME NEW i \in DOMAIN G, NEW j \in DOMAIN G, Within(G, i, j)
      PROVE  G[i].node.id # G[j].node.id
  <2>1. i < j /\ i \in Nat /\ j \in Nat
    BY <1>3, <1>8 DEF Within
  <2>2. CASE i \in 1 .. Len(F) /\ j \in 1 .. Len(F)
    <3>1. Within(F, i, j)
      <4>1. Within(G, 0 + i, 0 + j) <=> Within(F, i, j)
        BY <1>2, <1>3, <2>2, EmbedWithin
      <4>2. 0 + i = i /\ 0 + j = j
        BY <2>1
      <4> QED
        BY <1>8, <4>1, <4>2
    <3> QED
      BY <1>4, <2>2, <3>1 DEF Forest, Apart
  <2>3. CASE i \in 1 .. Len(F) /\ \E b \in 1 .. Len(C) : j = n + b
    <3>1. n + 1 \in (i + 1) .. j
      BY <1>3, <1>6, <2>3
    <3>2. G[n + 1].depth > G[i].depth
      BY <1>8, <3>1 DEF Within
    <3>3. G[n + 1] = C[1] /\ G[i] = F[i] /\ F[i].depth \in Nat
      BY <1>3, <1>4, <1>6, <2>3, ItemAt
    <3> DEFINE x == F[i].depth
    <3>4. 0 > x /\ x \in Nat
      BY <1>1, <3>2, <3>3
    <3> HIDE DEF x
    <3> QED
      BY <3>4
  <2>4. CASE \E a \in 1 .. Len(C) : i = n + a
    <3>1. PICK a \in 1 .. Len(C) : i = n + a
      BY <2>4
    <3>2. j \notin 1 .. Len(F)
      BY <1>6, <2>1, <3>1
    <3>3. PICK b \in 1 .. Len(C) : j = n + b
      BY <1>5, <3>2
    <3>4. Within(G, n + a, n + b) <=> Within(C, a, b)
      BY <1>3, <1>6, EmbedWithin
    <3>5. C[a].node.id # C[b].node.id
      BY <1>1, <1>8, <3>1, <3>3, <3>4 DEF Apart
    <3> QED
      BY <1>4, <1>6, <3>1, <3>3, <3>5
  <2> QED
    BY <1>5, <2>2, <2>3, <2>4
<1>9. G # <<>> => G[1].depth = 0
  <2>1. CASE F = <<>>
    <3>1. Len(F) = 0
      BY <2>1
    <3>2. G[1] = C[1]
      BY <1>3, <1>4, <3>1
    <3> QED
      BY <1>1, <3>2
  <2>2. CASE F # <<>>
    <3>1. G[1] = F[1]
      BY <1>4, <2>2
    <3> QED
      BY <2>2, <3>1 DEF Forest
  <2> QED
    BY <2>1, <2>2
<1> QED
  BY <1>3, <1>7, <1>8, <1>9 DEF Forest, Apart

-----------------------------------------------------------------------------
(* What the Wrapper makes of it                                            *)

\* A chain without an error covers what its Agents are configured with.
LEMMA BuiltCovered ==
    ASSUME NEW q, NEW C \in Seq(Item), Built(C, q), C[1].node.final, C[1].node.id \in since[q]
    PROVE  Covered(C, q)
<1> SUFFICES ASSUME NEW i \in DOMAIN C
             PROVE  LET node == C[i].node  c == Configs[node.id][node.version]
                    IN  /\ node.id \in since[q] /\ node.challenge = q
                        /\ \A e \in Elements(c.upstreams) \ c.terminal : \E d \in Downs(C, i) :
                              C[d].node.endpoint = e /\ C[d].node.id = Owner[e]
  BY DEF Covered
<1> DEFINE node == C[i].node
           c == Configs[node.id][node.version]
<1>1. \A j \in DOMAIN C : Good(C, q, j) /\ C[j].node.id \in since[q]
  BY DEF Built
<1>2. NodeGood(node, C, q, i)
  BY <1>1 DEF Good
<1>3. node.challenge = q /\ \A e \in Elements(c.upstreams) \ c.terminal : Below(C, i, e)
  BY <1>2, Zenon DEF NodeGood
<1>4. \A d \in Downs(C, i) : d \in DOMAIN C
  BY DEF Downs
<1>5. ASSUME NEW d \in DOMAIN C PROVE C[d].node.id = Owner[C[d].node.endpoint]
  <2>1. C[d].node.id \in Resolver
    BY ItemAt DEF Node
  <2>2. C[d].node.endpoint = Home[C[d].node.id]
    BY <1>1, Zenon DEF Good, NodeGood
  <2> QED
    BY <2>1, <2>2, OwnerOfHome
<1>6. ASSUME NEW e \in Elements(c.upstreams) \ c.terminal
      PROVE  \E d \in Downs(C, i) : C[d].node.endpoint = e /\ C[d].node.id = Owner[e]
  <2>1. PICK d \in Downs(C, i) : C[d].node.endpoint = e
    BY <1>3 DEF Below
  <2> QED
    BY <1>4, <1>5, <2>1
<1> QED
  BY <1>1, <1>3, <1>6

\* What is nested in a node is nested in all that the node is nested in.
LEMMA WithinTrans ==
    ASSUME NEW C \in Seq(Item), NEW a \in 1 .. Len(C), NEW b \in 1 .. Len(C),
           NEW d \in 1 .. Len(C), Within(C, a, b), Within(C, b, d)
    PROVE  Within(C, a, d)
<1>1. a < b /\ b < d /\ C[b].depth > C[a].depth
  BY DEF Within
<1>2. ASSUME NEW k \in (a + 1) .. d PROVE C[k].depth > C[a].depth
  <2>1. CASE k <= b
    BY <2>1 DEF Within
  <2>2. CASE k > b
    <3> DEFINE x == C[k].depth
               y == C[b].depth
               z == C[a].depth
    <3>1. x > y /\ y > z
      BY <1>1, <2>2 DEF Within
    <3>2. x \in Nat
      BY <1>1, ItemAt
    <3>3. y \in Nat /\ z \in Nat
      BY ItemAt
    <3> HIDE DEF x, y, z
    <3>4. x > z
      BY <3>1, <3>2, <3>3
    <3> QED
      BY <3>4 DEF x, z
  <2> QED
    BY <2>1, <2>2
<1> QED
  BY <1>1, <1>2 DEF Within

\* The fields of a node without an error, one by one.
LEMMA GoodFields ==
    ASSUME NEW C \in Seq(Item), NEW q, NEW i \in 1 .. Len(C), Good(C, q, i)
    PROVE  /\ C[i].node.final = TRUE /\ C[i].node.errors = FALSE
           /\ C[i].node.id \in Resolver /\ C[i].node.challenge = q
           /\ C[i].node.signer = C[i].node.id /\ C[i].node.endpoint = Home[C[i].node.id]
           /\ Owner[C[i].node.endpoint] = C[i].node.id
           /\ \A h \in Elements(C[i].node.hops) : Fine(C[i].node.id, h) /\ Below(C, i, h.to)
<1> DEFINE n == C[i].node
<1>1. n \in Node
  BY ItemAt
<1>2. NodeGood(n, C, q, i)
  BY DEF Good
<1> HIDE DEF n
<1>3. n.id \in Resolver /\ n.final \in BOOLEAN /\ n.errors \in BOOLEAN
  BY <1>1 DEF Node
<1>4. /\ n.final /\ ~n.errors /\ n.challenge = q /\ n.signer = n.id /\ n.endpoint = Home[n.id]
      /\ \A m \in DOMAIN n.hops : Fine(n.id, n.hops[m]) /\ Below(C, i, n.hops[m].to)
  BY <1>2, Zenon DEF NodeGood
<1>5. Owner[n.endpoint] = n.id
  BY <1>3, <1>4, OwnerOfHome
<1>6. \A h \in Elements(n.hops) : Fine(n.id, h) /\ Below(C, i, h.to)
  BY <1>4 DEF Elements
<1>7. n.final = TRUE /\ n.errors = FALSE
  BY <1>3, <1>4
<1> QED
  BY <1>3, <1>4, <1>5, <1>6, <1>7 DEF n

\* A chain without an error passes all of the Wrapper's checks.
LEMMA BuiltAccepted ==
    ASSUME NEW q, NEW e, NEW C \in Seq(Item), Built(C, q), C[1].node.final,
           C[1].node.endpoint = e, Shape(C, 1), Len(C) <= MaxNodes,
           \A i \in DOMAIN C : C[i].depth < MaxDepth
    PROVE  ChainValid(C, e, q) /\ AllAccepted(C)
<1>1. /\ C # <<>> /\ Apart(C)
      /\ \A i \in DOMAIN C : Good(C, q, i) /\ Shape(C, i)
  BY DEF Built
<1>2. DOMAIN C = 1 .. Len(C) /\ 1 \in DOMAIN C
  BY <1>1
<1>3. ASSUME NEW i \in DOMAIN C
      PROVE  /\ C[i].node.final = TRUE /\ C[i].node.errors = FALSE
             /\ C[i].node.id \in Resolver /\ C[i].node.challenge = q
             /\ C[i].node.signer = C[i].node.id /\ C[i].node.endpoint = Home[C[i].node.id]
             /\ Owner[C[i].node.endpoint] = C[i].node.id
             /\ \A h \in Elements(C[i].node.hops) : Fine(C[i].node.id, h) /\ Below(C, i, h.to)
  BY <1>1, <1>2, GoodFields
<1>4. ASSUME NEW i \in DOMAIN C, NEW h \in Elements(C[i].node.hops)
      PROVE  /\ h.from = C[i].node.id /\ h.id = Owner[h.to] /\ h.accepted
             /\ h.signer = C[i].node.id /\ h.evidence.key /\ EvidenceValid(h)
  <2>1. Fine(C[i].node.id, h)
    BY <1>3
  <2> QED
    BY <2>1, FineFields
<1>5. \A i \in DOMAIN C : \A d \in Downs(C, i) : d \in DOMAIN C /\ Within(C, i, d)
  BY DEF Downs
<1>6. AllAccepted(C)
  BY <1>3, <1>4 DEF AllAccepted, ToVerificationResult
<1>7. ASSUME NEW i \in DOMAIN C PROVE Effective(C, i) = TRUE
  <2>1. Accepted(C[i].node) = Elements(C[i].node.hops)
    BY <1>4 DEF Accepted
  <2>2. \A d \in Downs(C, i) : C[d].node.final
    BY <1>3, <1>5
  <2> QED
    BY <1>3, <2>1, <2>2 DEF Effective
<1>8. SemanticsValid(C)
  <2>1. \A i \in DOMAIN C : C[i].node.final = Effective(C, i)
    BY <1>3, <1>7
  <2> QED
    BY <1>1, <2>1 DEF SemanticsValid
<1>9. NodeOf(C[1].node, e, q)
  BY <1>2, <1>3 DEF NodeOf, SignatureValid
<1>10. ASSUME NEW i \in DOMAIN C, NEW k \in DOMAIN C, Within(C, k, i)
       PROVE  C[i].node.endpoint # C[k].node.endpoint
  <2>1. C[k].node.id # C[i].node.id
    BY <1>1, <1>10 DEF Apart
  <2>2. Owner[C[i].node.endpoint] = C[i].node.id /\ Owner[C[k].node.endpoint] = C[k].node.id
    BY <1>3
  <2> QED
    BY <2>1, <2>2
<1>11. ASSUME NEW i \in DOMAIN C PROVE NodeValid(C, i)
  <2> DEFINE node == C[i].node
             visiting == {C[j].node.endpoint : j \in {k \in DOMAIN C : Within(C, k, i)}}
  <2>1. node.endpoint \notin visiting
    BY <1>10
  <2>2. ASSUME NEW h \in Elements(node.hops)
        PROVE  HopValid(node, h) /\ h.to \notin visiting \cup {node.endpoint}
    <3>1. HopValid(node, h)
      BY <1>4 DEF HopValid, SignatureValid
    <3>2. PICK d \in Downs(C, i) : C[d].node.endpoint = h.to
      BY <1>3 DEF Below
    <3>3. d \in DOMAIN C /\ Within(C, i, d)
      BY <1>5
    <3>4. h.to # node.endpoint
      BY <1>10, <3>2, <3>3
    <3>5. ASSUME NEW k \in DOMAIN C, Within(C, k, i) PROVE h.to # C[k].node.endpoint
      <4>1. Within(C, k, d)
        BY <1>2, <3>3, <3>5, WithinTrans
      <4> QED
        BY <1>10, <3>2, <3>3, <4>1
    <3> QED
      BY <3>1, <3>4, <3>5
  <2>3. ASSUME NEW d \in Downs(C, i)
        PROVE  \E h \in Accepted(node) : /\ h.id = C[d].node.id /\ h.evidence.key
                                         /\ NodeOf(C[d].node, h.to, node.challenge)
    <3>1. Shape(C, i) /\ d \in DOMAIN C
      BY <1>1, <1>5
    <3>2. PICK h \in Accepted(node) : h.id = C[d].node.id /\ h.to = C[d].node.endpoint
      BY <3>1, Zenon DEF Shape
    <3>3. h \in Elements(node.hops)
      BY DEF Accepted
    <3>4. h.evidence.key
      BY <1>4, <3>3
    <3>5. NodeOf(C[d].node, h.to, node.challenge)
      BY <1>3, <3>1, <3>2 DEF NodeOf, SignatureValid
    <3> QED
      BY <3>2, <3>4, <3>5
  <2> QED
    BY <2>1, <2>2, <2>3 DEF NodeValid
<1> QED
  BY <1>6, <1>8, <1>9, <1>11 DEF ChainValid, PayloadValid

-----------------------------------------------------------------------------
(* The calls of a thread                                                   *)

\* The upper calls of a stack after those below returned, with the last one as
\* it is now.
LEMMA StackTop ==
    ASSUME NEW q, NEW s \in Seq(Frame), StackInv(s, q), NEW m \in 1 .. Len(s),
           NEW t \in Seq(Frame), Len(t) = m, \A j \in 1 .. (m - 1) : t[j] = s[j],
           t[m].agent = s[m].agent, CallInv(t[m], q, 0),
           ~t[m].errors =>
              \A d \in DOMAIN t[m].downs, j \in 1 .. m : t[m].downs[d].node.id # s[j].agent
    PROVE  StackInv(t, q)
<1>1. \A j \in 1 .. m : t[j].agent = s[j].agent
  OBVIOUS
<1>2. ASSUME NEW k \in 1 .. m PROVE NoneWaits(t, k) /\ CallInv(t[k], q, IF k = m THEN 0 ELSE 1)
  <2>1. CASE k = m
    BY <1>1, <2>1 DEF NoneWaits
  <2>2. CASE k # m
    <3>1. k \in 1 .. (m - 1) /\ k \in 1 .. Len(s) /\ k # Len(s) /\ t[k] = s[k]
      BY <2>2
    <3>2. NoneWaits(s, k) /\ CallInv(s[k], q, 1)
      BY <3>1 DEF StackInv
    <3>3. \A j \in 1 .. k : t[j].agent = s[j].agent
      BY <1>1, <3>1
    <3>4. NoneWaits(t, k)
      BY <3>1, <3>2, <3>3 DEF NoneWaits
    <3> QED
      BY <2>2, <3>1, <3>2, <3>4
  <2> QED
    BY <2>1, <2>2
<1>3. ASSUME NEW k \in 1 .. (m - 1) PROVE Waiting(t[k], t[k + 1], q)
  <2>1. Waiting(s[k], s[k + 1], q)
    <3>1. k \in 1 .. (Len(s) - 1)
      OBVIOUS
    <3> QED
      BY <3>1 DEF StackInv
  <2>2. t[k] = s[k] /\ t[k + 1].agent = s[k + 1].agent
    BY <1>1
  <2> QED
    BY <2>1, <2>2 DEF Waiting, WaitingWith
<1> QED
  BY <1>2, <1>3 DEF StackInv

\* A call that has done nothing yet.
LEMMA NewCall ==
    ASSUME TypeInv, NEW r \in Resolver, NEW q, NEW f, f = NewFrame(r)
    PROVE  /\ f \in Frame /\ f.agent = r /\ f.downs = <<>>
           /\ CallInv(f, q, 0)
<1>1. /\ f.agent = r /\ f.downs = <<>> /\ f.hops = <<>> /\ f.terminal = <<>> /\ f.pos = 1
      /\ f.errors = FALSE
  BY DEF NewFrame
<1>2. f \in Frame
  BY DEF NewFrame, Frame
<1>3. Config(r).upstreams \in Seq(Endpoint)
  BY ConfigType
<1>4. f.pos \in 1 .. (Len(Config(r).upstreams) + 1)
  BY <1>1, <1>3
<1>5. Forest(f.downs, q)
  BY <1>1 DEF Forest, Apart
<1>6. Different(f)
  BY <1>1 DEF Different, Distinct
<1>7. Sound(f, q, 0)
  <2>1. DOMAIN f.hops = {} /\ DOMAIN f.terminal = {} /\ DOMAIN f.downs = {} /\ 1 .. (f.pos - 1) = {}
    BY <1>1
  <2> QED
    BY <1>5, <1>6, <2>1 DEF Sound, SoundWith
<1> QED
  BY <1>1, <1>2, <1>4, <1>7 DEF CallInv

\* An Agent asks the Agent of its upstream.
LEMMA StackPush ==
    ASSUME TypeInv, NEW q, NEW s \in Seq(Frame), StackInv(s, q), NEW m, m = Len(s),
           NEW t \in Seq(Frame), Len(t) = m + 1, \A j \in 1 .. (m - 1) : t[j] = s[j],
           t[m].agent = s[m].agent, t[m].downs = s[m].downs, t[m].errors = s[m].errors,
           CallInv(t[m], q, 1), NEW r \in Resolver, t[m + 1] = NewFrame(r),
           Waiting(t[m], t[m + 1], q)
    PROVE  StackInv(t, q)
<1>0. m \in Nat /\ m >= 1
  BY DEF StackInv
<1>1. \A j \in 1 .. m : t[j].agent = s[j].agent
  BY <1>0
<1>2. ASSUME NEW k \in 1 .. (m + 1)
      PROVE NoneWaits(t, k) /\ CallInv(t[k], q, IF k = m + 1 THEN 0 ELSE 1)
  <2>1. CASE k = m + 1
    <3>1. t[k].downs = <<>> /\ CallInv(t[k], q, 0)
      BY <2>1, NewCall
    <3> QED
      BY <2>1, <3>1 DEF NoneWaits
  <2>2. CASE k = m
    <3>1. NoneWaits(s, m)
      BY <1>0 DEF StackInv
    <3>2. NoneWaits(t, m)
      BY <1>0, <1>1, <3>1 DEF NoneWaits
    <3> QED
      BY <1>0, <2>2, <3>2
  <2>3. CASE k # m /\ k # m + 1
    <3>1. k \in 1 .. (m - 1) /\ k \in 1 .. Len(s) /\ k # Len(s) /\ t[k] = s[k]
      BY <1>0, <2>3
    <3>2. NoneWaits(s, k) /\ CallInv(s[k], q, 1)
      BY <3>1 DEF StackInv
    <3>3. \A j \in 1 .. k : t[j].agent = s[j].agent
      BY <1>0, <1>1, <3>1
    <3>4. NoneWaits(t, k)
      BY <3>1, <3>2, <3>3 DEF NoneWaits
    <3> QED
      BY <2>3, <3>1, <3>2, <3>4
  <2> QED
    BY <2>1, <2>2, <2>3
<1>3. ASSUME NEW k \in 1 .. m PROVE Waiting(t[k], t[k + 1], q)
  <2>1. CASE k = m
    BY <2>1
  <2>2. CASE k # m
    <3>1. k \in 1 .. (m - 1) /\ k \in 1 .. (Len(s) - 1) /\ k + 1 \in 1 .. m
      BY <1>0, <2>2
    <3>2. Waiting(s[k], s[k + 1], q)
      BY <3>1 DEF StackInv
    <3>3. t[k] = s[k] /\ t[k + 1].agent = s[k + 1].agent
      BY <1>1, <3>1
    <3> QED
      BY <3>2, <3>3 DEF Waiting, WaitingWith
  <2> QED
    BY <2>1, <2>2
<1>4. t # <<>> /\ Len(t) - 1 = m
  BY <1>0
<1> QED
  BY <1>0, <1>2, <1>3, <1>4 DEF StackInv

\* A stack that has the calls of s up to the m-th, and g in its place.
Ends(t, s, m, g) ==
    /\ t \in Seq(Frame) /\ Len(t) = m /\ t[m] = g
    /\ \A j \in 1 .. (m - 1) : t[j] = s[j]

\* No resolver of its chains is one of the first m calls.
Clear(g, s, m) ==
    ~g.errors => \A d \in DOMAIN g.downs, j \in 1 .. m : g.downs[d].node.id # s[j].agent

\* Such a stack is sound when the call is.
LEMMA StackEnds ==
    ASSUME NEW q, NEW s \in Seq(Frame), StackInv(s, q), NEW m \in 1 .. Len(s), NEW g,
           g.agent = s[m].agent, CallInv(g, q, 0), Clear(g, s, m), NEW t, Ends(t, s, m, g)
    PROVE  t \in Seq(Frame) /\ StackInv(t, q)
<1>1. t \in Seq(Frame) /\ Len(t) = m /\ t[m] = g /\ \A j \in 1 .. (m - 1) : t[j] = s[j]
  BY Zenon DEF Ends
<1>2. /\ t[m].agent = s[m].agent /\ CallInv(t[m], q, 0)
      /\ ~t[m].errors =>
            \A d \in DOMAIN t[m].downs, j \in 1 .. m : t[m].downs[d].node.id # s[j].agent
  BY <1>1, Zenon DEF Clear
<1> QED
  BY <1>1, <1>2, StackTop

\* The last call of a stack is replaced.
LEMMA SetTopSeq ==
    ASSUME NEW s \in Seq(Frame), s # <<>>, NEW g \in Frame, NEW t, t = SetTop(s, g)
    PROVE  Ends(t, s, Len(s), g)
BY DEF SetTop, Ends

\* All calls from the m-th on return, and it becomes g.
CutTo(s, m, g) == SetTop(SubSeq(s, 1, m), g)

\* What is left of the stack.
LEMMA CutSeq ==
    ASSUME NEW s \in Seq(Frame), NEW m \in 1 .. Len(s), NEW g \in Frame,
           NEW t, t = CutTo(s, m, g)
    PROVE  Ends(t, s, m, g)
<1> DEFINE u == SubSeq(s, 1, m)
<1>1. u \in Seq(Frame) /\ Len(u) = m /\ \A j \in 1 .. m : u[j] = s[j]
  <2>1. \A i \in 1 .. m : s[i] \in Frame
    OBVIOUS
  <2>2. /\ u \in Seq(Frame) /\ Len(u) = IF 1 <= m THEN m - 1 + 1 ELSE 0
        /\ \A i \in 1 .. (m - 1 + 1) : u[i] = s[1 + i - 1]
    BY <2>1, SubSeqProperties
  <2> HIDE DEF u
  <2>3. m - 1 + 1 = m /\ \A i \in 1 .. m : 1 + i - 1 = i
    OBVIOUS
  <2> QED
    BY <2>2, <2>3
<1>2. t = SetTop(u, g)
  BY Zenon DEF CutTo
<1> HIDE DEF u
<1>3. u # <<>>
  BY <1>1
<1>4. t \in Seq(Frame) /\ Len(t) = Len(u) /\ t[Len(u)] = g /\ \A j \in 1 .. (Len(u) - 1) : t[j] = u[j]
  <2>1. t = [u EXCEPT ![Len(u)] = g]
    BY <1>2, Zenon DEF SetTop
  <2> QED
    BY <1>1, <1>3, <2>1
<1>5. t \in Seq(Frame) /\ Len(t) = m /\ t[m] = g /\ \A j \in 1 .. (m - 1) : t[j] = s[j]
  BY <1>1, <1>4
<1> QED
  BY <1>5, Zenon DEF Ends

\* A stack with a call more, and g in the place of the last of s.
Grown(t, s, g, h) ==
    /\ t \in Seq(Frame) /\ Len(t) = Len(s) + 1 /\ t[Len(s)] = g /\ t[Len(s) + 1] = h
    /\ \A j \in 1 .. (Len(s) - 1) : t[j] = s[j]

\* That is what a call more makes of it.
LEMMA PushSeq ==
    ASSUME NEW s \in Seq(Frame), s # <<>>, NEW g \in Frame, NEW h \in Frame,
           NEW t, t = Append(SetTop(s, g), h)
    PROVE  Grown(t, s, g, h)
<1> DEFINE u == SetTop(s, g)
<1>1. u \in Seq(Frame) /\ Len(u) = Len(s) /\ u[Len(s)] = g /\ \A j \in 1 .. (Len(s) - 1) : u[j] = s[j]
  BY SetTopSeq DEF Ends
<1> HIDE DEF u
<1>2. t = Append(u, h)
  BY DEF u
<1>3. t \in Seq(Frame) /\ Len(t) = Len(u) + 1 /\ t[Len(u) + 1] = h /\ \A j \in 1 .. Len(u) : t[j] = u[j]
  BY <1>1, <1>2, AppendProperties
<1>4. Len(s) \in 1 .. Len(u)
  BY <1>1
<1>5. /\ t \in Seq(Frame) /\ Len(t) = Len(s) + 1 /\ t[Len(s)] = g /\ t[Len(s) + 1] = h
      /\ \A j \in 1 .. (Len(s) - 1) : t[j] = s[j]
  BY <1>1, <1>3, <1>4
<1> QED
  BY <1>5, Zenon DEF Grown

\* A call that notes an error.
LEMMA FailingFields ==
    ASSUME NEW f \in Frame, NEW g, g = Failing(f)
    PROVE  g \in Frame /\ g.agent = f.agent /\ g.pos = f.pos + 1 /\ g.errors = TRUE
<1> DEFINE H == Seq(HopRecord)
           D == Seq(Item)
           T == Seq(Endpoint)
           next == f.pos + 1
<1>1. f \in [agent : Resolver, pos : Nat, hops : H, downs : D, terminal : T, errors : BOOLEAN]
  BY DEF Frame
<1>2. next \in Nat /\ g = [f EXCEPT !.errors = TRUE, !.pos = next]
  BY FrameFields DEF Failing
<1> HIDE DEF H, D, T, next
<1>3. /\ g \in [agent : Resolver, pos : Nat, hops : H, downs : D, terminal : T, errors : BOOLEAN]
      /\ g.agent = f.agent /\ g.pos = next /\ g.errors = TRUE
  BY <1>1, <1>2
<1>4. g \in Frame
  BY <1>3 DEF Frame, H, D, T
<1> QED
  BY <1>3, <1>4, Zenon DEF next

\* What a call becomes when it passes a terminal, notes a hop, nests a chain.
Passed(f, e) == [f EXCEPT !.terminal = Append(@, e), !.pos = @ + 1]
WithHop(f, h) == [f EXCEPT !.hops = Append(@, h)]
WithChain(f, C, final) == [f EXCEPT !.downs = @ \o C, !.errors = @ \/ ~final, !.pos = @ + 1]

\* A terminal upstream is passed over.
LEMMA TerminalFields ==
    ASSUME NEW f \in Frame, NEW e \in Endpoint,
           NEW g, g = Passed(f, e)
    PROVE  /\ g \in Frame /\ g.agent = f.agent /\ g.pos = f.pos + 1 /\ g.hops = f.hops
           /\ g.downs = f.downs /\ g.errors = f.errors /\ g.terminal = Append(f.terminal, e)
<1> DEFINE H == Seq(HopRecord)
           D == Seq(Item)
           T == Seq(Endpoint)
           more == Append(f.terminal, e)
           next == f.pos + 1
<1>1. f \in [agent : Resolver, pos : Nat, hops : H, downs : D, terminal : T, errors : BOOLEAN]
  BY DEF Frame
<1>2. more \in T /\ next \in Nat
  BY FrameFields
<1>3. g = [f EXCEPT !.terminal = more, !.pos = next]
  BY Zenon DEF Passed
<1> HIDE DEF H, D, T, more, next
<1>4. /\ g \in [agent : Resolver, pos : Nat, hops : H, downs : D, terminal : T, errors : BOOLEAN]
      /\ g.agent = f.agent /\ g.pos = next /\ g.hops = f.hops
      /\ g.downs = f.downs /\ g.errors = f.errors /\ g.terminal = more
  BY <1>1, <1>2, <1>3
<1>5. g \in Frame
  BY <1>4 DEF Frame, H, D, T
<1> QED
  BY <1>4, <1>5, Zenon DEF more, next

\* A hop is added.
LEMMA HopAddedFields ==
    ASSUME NEW f \in Frame, NEW h \in HopRecord, NEW g, g = WithHop(f, h)
    PROVE  /\ g \in Frame /\ g.agent = f.agent /\ g.pos = f.pos /\ g.hops = Append(f.hops, h)
           /\ g.downs = f.downs /\ g.errors = f.errors /\ g.terminal = f.terminal
<1> DEFINE H == Seq(HopRecord)
           D == Seq(Item)
           T == Seq(Endpoint)
           more == Append(f.hops, h)
<1>1. f \in [agent : Resolver, pos : Nat, hops : H, downs : D, terminal : T, errors : BOOLEAN]
  BY DEF Frame
<1>2. more \in H
  BY FrameFields
<1>3. g = [f EXCEPT !.hops = more]
  BY Zenon DEF WithHop
<1> HIDE DEF H, D, T, more
<1>4. /\ g \in [agent : Resolver, pos : Nat, hops : H, downs : D, terminal : T, errors : BOOLEAN]
      /\ g.agent = f.agent /\ g.pos = f.pos /\ g.hops = more
      /\ g.downs = f.downs /\ g.errors = f.errors /\ g.terminal = f.terminal
  BY <1>1, <1>2, <1>3
<1>5. g \in Frame
  BY <1>4 DEF Frame, H, D, T
<1> QED
  BY <1>4, <1>5, Zenon DEF more

\* A downstream chain is added.
LEMMA ChainAddedFields ==
    ASSUME NEW f \in Frame, NEW C \in Seq(Item), NEW final \in BOOLEAN,
           NEW g, g = WithChain(f, C, final)
    PROVE  /\ g \in Frame /\ g.agent = f.agent /\ g.pos = f.pos + 1 /\ g.hops = f.hops
           /\ g.downs = f.downs \o C /\ g.errors = (f.errors \/ ~final)
           /\ g.terminal = f.terminal
<1> DEFINE H == Seq(HopRecord)
           D == Seq(Item)
           T == Seq(Endpoint)
           more == f.downs \o C
           bad == f.errors \/ ~final
           next == f.pos + 1
<1>1. f \in [agent : Resolver, pos : Nat, hops : H, downs : D, terminal : T, errors : BOOLEAN]
  BY DEF Frame
<1>2. more \in D /\ next \in Nat
  BY FrameFields
<1>3. bad \in BOOLEAN
  OBVIOUS
<1>4. g = [f EXCEPT !.downs = more, !.errors = bad, !.pos = next]
  BY Zenon DEF WithChain
<1> HIDE DEF H, D, T, more, bad, next
<1>5. /\ g \in [agent : Resolver, pos : Nat, hops : H, downs : D, terminal : T, errors : BOOLEAN]
      /\ g.agent = f.agent /\ g.pos = next /\ g.hops = f.hops
      /\ g.downs = more /\ g.errors = bad /\ g.terminal = f.terminal
  BY <1>1, <1>2, <1>3, <1>4
<1>6. g \in Frame
  BY <1>5 DEF Frame, H, D, T
<1> QED
  BY <1>5, <1>6, Zenon DEF more, bad, next

\* A call that has noted an error owes nothing but its place.
LEMMA FailingCall ==
    ASSUME TypeInv, NEW f \in Frame, NEW q, NEW n, NEW g, g = Failing(f),
           f.pos \in 1 .. Len(Config(f.agent).upstreams)
    PROVE  g \in Frame /\ g.agent = f.agent /\ g.errors = TRUE /\ CallInv(g, q, n)
<1>1. g \in Frame /\ g.agent = f.agent /\ g.pos = f.pos + 1 /\ g.errors = TRUE
  BY FailingFields
<1>2. Len(Config(f.agent).upstreams) \in Nat
  BY ConfigType, FrameFields
<1>3. f.pos + 1 \in 1 .. (Len(Config(f.agent).upstreams) + 1)
  BY <1>2
<1> QED
  BY <1>1, <1>3 DEF CallInv

\* An upstream that a sequence of different ones has further on is new.
LEMMA FurtherOn ==
    ASSUME NEW u \in Seq(Endpoint), Distinct(u), NEW k \in 1 .. Len(u), NEW e, e = u[k],
           NEW x, \E p \in 1 .. (k - 1) : u[p] = x
    PROVE  x # e
<1>1. PICK p \in 1 .. (k - 1) : u[p] = x
  OBVIOUS
<1>2. p \in DOMAIN u /\ k \in DOMAIN u /\ p # k
  OBVIOUS
<1> QED
  BY <1>1, <1>2 DEF Distinct

\* The upstream that a call with configuration c looks at.
Facing(f, c, e) ==
    c = Config(f.agent) /\ f.pos \in 1 .. Len(c.upstreams) /\ e = c.upstreams[f.pos]

\* That upstream is an endpoint.
LEMMA FacingType ==
    ASSUME TypeInv, NEW f \in Frame, NEW c, NEW e, Facing(f, c, e)
    PROVE  /\ c = Config(f.agent) /\ c.upstreams \in Seq(Endpoint) /\ Len(c.upstreams) \in Nat
           /\ e \in Endpoint /\ f.pos \in 1 .. Len(c.upstreams) /\ e = c.upstreams[f.pos]
<1>1. c.upstreams \in Seq(Endpoint)
  BY ConfigType, FrameFields DEF Facing
<1> QED
  BY <1>1 DEF Facing

\* The upstreams before the next place are those before this one, and this one.
LEMMA NextPlace ==
    ASSUME NEW k \in Nat \ {0}, NEW n, n = k + 1
    PROVE  /\ \A p \in 1 .. (k - 1) : p \in 1 .. (n - 1)
           /\ k \in 1 .. (n - 1)
           /\ \A p \in 1 .. (n - 1) : p \in 1 .. (k - 1) \/ p = k
OBVIOUS

\* A terminal upstream is passed over.
LEMMA TerminalCall ==
    ASSUME TypeInv, NEW f \in Frame, NEW q, CallInv(f, q, 0), NEW c, NEW e, Facing(f, c, e),
           e \in c.terminal, NEW g, g = Passed(f, e)
    PROVE  /\ g \in Frame /\ g.agent = f.agent /\ g.downs = f.downs /\ g.errors = f.errors
           /\ CallInv(g, q, 0)
<1>1. /\ c = Config(f.agent) /\ c.upstreams \in Seq(Endpoint) /\ Len(c.upstreams) \in Nat
      /\ e \in Endpoint /\ f.pos \in 1 .. Len(c.upstreams) /\ e = c.upstreams[f.pos]
  BY FacingType
<1>0. e \in Endpoint
  BY <1>1
<1>2. /\ g \in Frame /\ g.agent = f.agent /\ g.pos = f.pos + 1 /\ g.hops = f.hops
      /\ g.downs = f.downs /\ g.errors = f.errors /\ g.terminal = Append(f.terminal, e)
  BY <1>0, TerminalFields
<1>3. g.pos \in 1 .. (Len(c.upstreams) + 1)
  <2>1. PICK len, p : len = Len(c.upstreams) /\ p = f.pos
    OBVIOUS
  <2>2. len \in Nat /\ p \in 1 .. len /\ g.pos = p + 1
    BY <1>1, <1>2, <2>1
  <2>3. p + 1 \in 1 .. (len + 1)
    BY <2>2
  <2> QED
    BY <2>1, <2>2, <2>3
<1>4. f.terminal \in Seq(Endpoint) /\ f.pos \in Nat
  BY FrameFields
<1>5. ASSUME ~g.errors PROVE Sound(g, q, 0)
  <2>1. Sound(f, q, 0) /\ c = Config(f.agent)
    BY <1>1, <1>2, <1>5 DEF CallInv
  <2>2. /\ Forest(f.downs, q)
        /\ \A p \in 1 .. (f.pos - 1) :
              c.upstreams[p] \in c.terminal \/ Rooted(f, c.upstreams[p])
        /\ \A m \in DOMAIN f.hops :
              /\ Fine(f.agent, f.hops[m]) /\ f.hops[m].to \notin c.terminal
              /\ m \in Settled(f, 0) =>
                    /\ Rooted(f, f.hops[m].to)
                    /\ \E p \in 1 .. (f.pos - 1) : c.upstreams[p] = f.hops[m].to
        /\ \A m \in DOMAIN f.terminal :
              /\ f.terminal[m] \in c.terminal
              /\ \E p \in 1 .. (f.pos - 1) : c.upstreams[p] = f.terminal[m]
        /\ \A d \in DOMAIN f.downs : f.downs[d].depth = 0 =>
              \E m \in Settled(f, 0) : f.hops[m].to = f.downs[d].node.endpoint
        /\ Distinct(c.upstreams) => Different(f)
    <3>1. SoundWith(c, f, q, 0)
      BY <2>1 DEF Sound
    <3> QED
      BY <3>1, Zenon DEF SoundWith
  <2>3. \A x : Rooted(f, x) => Rooted(g, x)
    BY <1>2 DEF Rooted
  <2>4. Settled(g, 0) = Settled(f, 0)
    BY <1>2 DEF Settled
  <2>5. /\ \A p \in 1 .. (f.pos - 1) : p \in 1 .. (g.pos - 1)
        /\ f.pos \in 1 .. (g.pos - 1)
        /\ \A p \in 1 .. (g.pos - 1) : p \in 1 .. (f.pos - 1) \/ p = f.pos
    <3>1. f.pos \in Nat \ {0} /\ g.pos = f.pos + 1
      <4>1. g.pos = f.pos + 1
        BY <1>2
      <4>2. f.pos \in 1 .. Len(c.upstreams) /\ f.pos \in Nat
        BY <1>1, <1>4
      <4> QED
        BY <4>1, <4>2
    <3> QED
      BY <3>1, NextPlace
  <2>6. /\ \A m \in DOMAIN g.terminal : g.terminal[m] = e \/ \E k \in DOMAIN f.terminal :
                 k = m /\ g.terminal[m] = f.terminal[k]
        /\ \A m \in DOMAIN g.terminal : m \notin DOMAIN f.terminal => m = Len(f.terminal) + 1
        /\ \A k \in DOMAIN f.terminal : g.terminal[k] = f.terminal[k]
    <3> DEFINE s == f.terminal
               t == g.terminal
    <3>1. s \in Seq(Endpoint) /\ t = Append(s, e)
      BY <1>2, <1>4
    <3> HIDE DEF s, t
    <3>2. DOMAIN t = 1 .. (Len(s) + 1) /\ DOMAIN s = 1 .. Len(s) /\ Len(s) \in Nat
      BY <1>1, <3>1
    <3>3. t[Len(s) + 1] = e /\ \A k \in 1 .. Len(s) : t[k] = s[k]
      BY <1>1, <3>1
    <3>4. /\ \A m \in DOMAIN t : t[m] = e \/ \E k \in DOMAIN s : k = m /\ t[m] = s[k]
          /\ \A m \in DOMAIN t : m \notin DOMAIN s => m = Len(s) + 1
          /\ \A k \in DOMAIN s : t[k] = s[k]
      BY <3>2, <3>3
    <3> QED
      BY <3>4 DEF s, t
  <2>7. ASSUME NEW m \in DOMAIN g.terminal
        PROVE  /\ g.terminal[m] \in c.terminal
               /\ \E p \in 1 .. (g.pos - 1) : c.upstreams[p] = g.terminal[m]
    <3>1. CASE g.terminal[m] = e
      BY <1>1, <2>5, <3>1
    <3>2. CASE m \in DOMAIN f.terminal /\ g.terminal[m] = f.terminal[m]
      BY <2>2, <2>5, <3>2
    <3> QED
      BY <2>6, <3>1, <3>2
  <2>8. ASSUME Distinct(c.upstreams) PROVE Different(g)
    <3>1. Different(f)
      BY <2>2, <2>8
    <3>2. \A m \in DOMAIN f.terminal : f.terminal[m] # e
      BY <1>1, <2>2, <2>8, FurtherOn
    <3>3. ASSUME NEW i \in DOMAIN g.terminal, NEW j \in DOMAIN g.terminal,
                 g.terminal[i] = g.terminal[j]
          PROVE  i = j
      <4>1. Distinct(f.terminal)
        BY <3>1 DEF Different
      <4>2. /\ i \in DOMAIN f.terminal => g.terminal[i] = f.terminal[i]
            /\ j \in DOMAIN f.terminal => g.terminal[j] = f.terminal[j]
        BY <2>6
      <4>3. /\ i \notin DOMAIN f.terminal => g.terminal[i] = e /\ i = Len(f.terminal) + 1
            /\ j \notin DOMAIN f.terminal => g.terminal[j] = e /\ j = Len(f.terminal) + 1
        BY <2>6
      <4> QED
        BY <3>2, <3>3, <4>1, <4>2, <4>3 DEF Distinct
    <3> QED
      BY <1>2, <3>1, <3>3 DEF Different, Distinct
  <2>9. \A p \in 1 .. (g.pos - 1) : c.upstreams[p] \in c.terminal \/ Rooted(g, c.upstreams[p])
    BY <1>1, <2>2, <2>3, <2>5
  <2>10. \A m \in DOMAIN g.hops :
              /\ Fine(g.agent, g.hops[m]) /\ g.hops[m].to \notin c.terminal
              /\ m \in Settled(g, 0) =>
                    /\ Rooted(g, g.hops[m].to)
                    /\ \E p \in 1 .. (g.pos - 1) : c.upstreams[p] = g.hops[m].to
    BY <1>2, <2>2, <2>3, <2>4, <2>5
  <2>11. \A d \in DOMAIN g.downs : g.downs[d].depth = 0 =>
              \E m \in Settled(g, 0) : g.hops[m].to = g.downs[d].node.endpoint
    BY <1>2, <2>2, <2>4
  <2>12. Forest(g.downs, q) /\ c = Config(g.agent)
    BY <1>1, <1>2, <2>2
  <2>13. SoundWith(c, g, q, 0)
    BY <2>7, <2>8, <2>9, <2>10, <2>11, <2>12, Zenon DEF SoundWith
  <2> QED
    BY <2>12, <2>13 DEF Sound
<1> QED
  BY <1>1, <1>2, <1>3, <1>5 DEF CallInv

\* A hop is to the endpoint it was made for.
LEMMA HopTo ==
    ASSUME NEW r, NEW e
    PROVE  Hop(r, e, TRUE).to = e
BY DEF Hop, HopVerificationResult, Signed

\* The call after it has noted the hop to the upstream.
Asking(f, e) == WithHop(f, Hop(f.agent, e, TRUE))

OneHopMore(f, e, g) ==
    /\ g \in Frame /\ g.agent = f.agent /\ g.pos = f.pos
    /\ g.downs = f.downs /\ g.errors = f.errors /\ g.terminal = f.terminal
    /\ Len(f.hops) \in Nat /\ Len(g.hops) = Len(f.hops) + 1
    /\ DOMAIN f.hops = 1 .. Len(f.hops) /\ DOMAIN g.hops = 1 .. (Len(f.hops) + 1)
    /\ g.hops[Len(f.hops) + 1] = Hop(f.agent, e, TRUE)
    /\ \A m \in 1 .. Len(f.hops) : g.hops[m] = f.hops[m]
    /\ g.hops # <<>>

\* It has one hop more.
LEMMA AskingFields ==
    ASSUME NEW f \in Frame, NEW e \in Endpoint, NEW g, g = Asking(f, e)
    PROVE  OneHopMore(f, e, g)
<1> DEFINE h == Hop(f.agent, e, TRUE)
           s == f.hops
           t == g.hops
<1>1. h \in HopRecord
  BY FrameFields, HopType
<1>2. g = WithHop(f, h)
  BY DEF Asking
<1> HIDE DEF h
<1>3. /\ g \in Frame /\ g.agent = f.agent /\ g.pos = f.pos /\ g.hops = Append(f.hops, h)
      /\ g.downs = f.downs /\ g.errors = f.errors /\ g.terminal = f.terminal
  BY <1>1, <1>2, HopAddedFields
<1>4. s \in Seq(HopRecord) /\ t = Append(s, h)
  BY <1>3, FrameFields
<1> HIDE DEF s, t
<1>5. /\ Len(s) \in Nat /\ Len(t) = Len(s) + 1
      /\ DOMAIN s = 1 .. Len(s) /\ DOMAIN t = 1 .. (Len(s) + 1)
      /\ t[Len(s) + 1] = h /\ \A m \in 1 .. Len(s) : t[m] = s[m]
      /\ t # <<>>
  BY <1>1, <1>4
<1> QED
  BY <1>3, <1>5, Zenon DEF s, t, h, OneHopMore

\* A call asks the Agent of an upstream that verified.
LEMMA PushCall ==
    ASSUME TypeInv, NEW f \in Frame, NEW q, CallInv(f, q, 0), NEW c, NEW e, Facing(f, c, e),
           e \notin c.terminal, Owner[e] \in since[q], e # Home[f.agent], Owner[e] \in Keyed,
           NEW g, g = Asking(f, e), NEW k, k.agent = Url[e]
    PROVE  /\ g \in Frame /\ g.agent = f.agent /\ g.downs = f.downs /\ g.errors = f.errors
           /\ CallInv(g, q, 1) /\ Waiting(g, k, q)
<1>1. /\ c = Config(f.agent) /\ c.upstreams \in Seq(Endpoint) /\ Len(c.upstreams) \in Nat
      /\ e \in Endpoint /\ f.pos \in 1 .. Len(c.upstreams) /\ e = c.upstreams[f.pos]
  BY FacingType
<1>2. e \in Endpoint
  BY <1>1
<1>4. /\ g \in Frame /\ g.agent = f.agent /\ g.pos = f.pos
      /\ g.downs = f.downs /\ g.errors = f.errors /\ g.terminal = f.terminal
      /\ Len(f.hops) \in Nat /\ Len(g.hops) = Len(f.hops) + 1
      /\ DOMAIN f.hops = 1 .. Len(f.hops) /\ DOMAIN g.hops = 1 .. (Len(f.hops) + 1)
      /\ g.hops[Len(f.hops) + 1] = Hop(f.agent, e, TRUE)
      /\ \A m \in 1 .. Len(f.hops) : g.hops[m] = f.hops[m]
      /\ g.hops # <<>>
  <2>1. OneHopMore(f, e, g)
    BY <1>2, AskingFields
  <2> QED
    BY <2>1, Zenon DEF OneHopMore
<1> DEFINE h == Hop(f.agent, e, TRUE)
<1>5. h.to = e /\ h = Hop(f.agent, h.to, TRUE)
  <2>1. Hop(f.agent, e, TRUE).to = e
    BY HopTo
  <2> QED
    BY <2>1
<1> HIDE DEF h
<1>3. /\ g \in Frame /\ g.agent = f.agent /\ g.pos = f.pos
      /\ g.downs = f.downs /\ g.errors = f.errors /\ g.terminal = f.terminal
  BY <1>4
<1>6. /\ Len(f.hops) \in Nat /\ Len(g.hops) = Len(f.hops) + 1
      /\ DOMAIN f.hops = 1 .. Len(f.hops) /\ DOMAIN g.hops = 1 .. (Len(f.hops) + 1)
      /\ g.hops[Len(f.hops) + 1] = h /\ \A m \in 1 .. Len(f.hops) : g.hops[m] = f.hops[m]
      /\ g.hops # <<>>
  BY <1>4, Zenon DEF h
<1>7. Waiting(g, k, q)
  <2>1. c = Config(g.agent) /\ e = c.upstreams[g.pos] /\ g.pos \in 1 .. Len(c.upstreams)
    BY <1>1, <1>3
  <2>2. g.hops # <<>> /\ g.hops[Len(g.hops)] = Hop(g.agent, e, TRUE)
    BY <1>3, <1>5, <1>6
  <2> QED
    <3>1. WaitingWith(c, e, g, k, q)
      BY <1>3, <2>1, <2>2 DEF WaitingWith
    <3> QED
      BY <2>1, <3>1, Zenon DEF Waiting
<1>8. ASSUME ~g.errors PROVE Sound(g, q, 1)
  <2>1. Sound(f, q, 0) /\ c = Config(f.agent)
    BY <1>1, <1>3, <1>8 DEF CallInv
  <2>2. SoundWith(c, f, q, 0)
    BY <2>1 DEF Sound
  <2>3. /\ Forest(f.downs, q)
        /\ \A p \in 1 .. (f.pos - 1) :
              c.upstreams[p] \in c.terminal \/ Rooted(f, c.upstreams[p])
        /\ \A m \in DOMAIN f.hops :
              /\ Fine(f.agent, f.hops[m]) /\ f.hops[m].to \notin c.terminal
              /\ m \in Settled(f, 0) =>
                    /\ Rooted(f, f.hops[m].to)
                    /\ \E p \in 1 .. (f.pos - 1) : c.upstreams[p] = f.hops[m].to
        /\ \A m \in DOMAIN f.terminal :
              /\ f.terminal[m] \in c.terminal
              /\ \E p \in 1 .. (f.pos - 1) : c.upstreams[p] = f.terminal[m]
        /\ \A d \in DOMAIN f.downs : f.downs[d].depth = 0 =>
              \E m \in Settled(f, 0) : f.hops[m].to = f.downs[d].node.endpoint
        /\ Distinct(c.upstreams) => Different(f)
    BY <2>2, Zenon DEF SoundWith
  <2>4. \A x : Rooted(f, x) => Rooted(g, x)
    BY <1>3 DEF Rooted
  <2>5. /\ Settled(g, 1) = 1 .. Len(f.hops) /\ Settled(f, 0) = 1 .. Len(f.hops)
        /\ DOMAIN f.hops = 1 .. Len(f.hops)
    BY <1>6 DEF Settled
  <2>6. \A m \in DOMAIN g.hops : m \in DOMAIN f.hops \/ m = Len(f.hops) + 1
    BY <1>6
  <2>7. \A m \in DOMAIN f.hops : m \in DOMAIN g.hops /\ g.hops[m] = f.hops[m] /\ m # Len(f.hops) + 1
    BY <1>6
  <2>8. ASSUME NEW m \in DOMAIN g.hops
        PROVE  /\ Fine(g.agent, g.hops[m]) /\ g.hops[m].to \notin c.terminal
               /\ m \in Settled(g, 1) =>
                     /\ Rooted(g, g.hops[m].to)
                     /\ \E p \in 1 .. (g.pos - 1) : c.upstreams[p] = g.hops[m].to
    <3>1. CASE m = Len(f.hops) + 1
      <4>1. m \notin Settled(g, 1) /\ g.hops[m] = h
        BY <1>6, <2>5, <3>1
      <4>2. Fine(g.agent, h) /\ h.to \notin c.terminal
        BY <1>3, <1>5 DEF Fine
      <4> QED
        BY <4>1, <4>2
    <3>2. CASE m \in DOMAIN f.hops
      <4>1. g.hops[m] = f.hops[m] /\ m \in Settled(f, 0)
        BY <2>5, <2>7, <3>2
      <4> QED
        BY <1>3, <2>3, <2>4, <3>2, <4>1
    <3> QED
      BY <2>6, <3>1, <3>2
  <2>9. ASSUME NEW d \in DOMAIN g.downs, g.downs[d].depth = 0
        PROVE  \E m \in Settled(g, 1) : g.hops[m].to = g.downs[d].node.endpoint
    <3>1. PICK m \in Settled(f, 0) : f.hops[m].to = f.downs[d].node.endpoint
      BY <1>3, <2>3, <2>9
    <3>2. m \in Settled(g, 1) /\ g.hops[m] = f.hops[m]
      BY <2>5, <2>7
    <3> QED
      BY <1>3, <3>1, <3>2
  <2>10. ASSUME Distinct(c.upstreams) PROVE Different(g)
    <3>1. Different(f)
      BY <2>3, <2>10
    <3>2. \A m \in DOMAIN f.hops : f.hops[m].to # e
      <4>1. ASSUME NEW m \in DOMAIN f.hops PROVE f.hops[m].to # e
        <5>1. \E p \in 1 .. (f.pos - 1) : c.upstreams[p] = f.hops[m].to
          BY <2>3, <2>5
        <5> QED
          BY <1>1, <2>10, <5>1, FurtherOn
      <4> QED
        BY <4>1
    <3>3. \A m \in DOMAIN f.hops : g.hops[m].to # e
      BY <2>7, <3>2
    <3>4. \A j, k1 \in DOMAIN f.hops : f.hops[j].to = f.hops[k1].to => j = k1
      BY <3>1, Zenon DEF Different
    <3>5. \A j, k1 \in DOMAIN f.hops : g.hops[j].to = g.hops[k1].to => j = k1
      BY <2>7, <3>4
    <3>6. g.hops[Len(f.hops) + 1].to = e
      BY <1>5, <1>6
    <3>7. \A j, k1 \in DOMAIN g.hops : g.hops[j].to = g.hops[k1].to => j = k1
      BY <2>6, <3>3, <3>5, <3>6
    <3>8. /\ Distinct(f.terminal)
          /\ \A i, d \in DOMAIN f.downs :
                f.downs[i].depth = 0 /\ f.downs[d].depth = 0
                  /\ f.downs[i].node.endpoint = f.downs[d].node.endpoint => i = d
      BY <3>1, Zenon DEF Different
    <3>9. /\ Distinct(g.terminal)
          /\ \A i, d \in DOMAIN g.downs :
                g.downs[i].depth = 0 /\ g.downs[d].depth = 0
                  /\ g.downs[i].node.endpoint = g.downs[d].node.endpoint => i = d
      BY <1>3, <3>8
    <3> QED
      BY <3>7, <3>9, Zenon DEF Different
  <2>11. \A p \in 1 .. (g.pos - 1) : c.upstreams[p] \in c.terminal \/ Rooted(g, c.upstreams[p])
    BY <1>3, <2>3, <2>4
  <2>12. \A m \in DOMAIN g.terminal :
              /\ g.terminal[m] \in c.terminal
              /\ \E p \in 1 .. (g.pos - 1) : c.upstreams[p] = g.terminal[m]
    BY <1>3, <2>3
  <2>13. Forest(g.downs, q) /\ c = Config(g.agent)
    BY <1>1, <1>3, <2>3
  <2>14. SoundWith(c, g, q, 1)
    BY <2>8, <2>9, <2>10, <2>11, <2>12, <2>13, Zenon DEF SoundWith
  <2> QED
    BY <2>13, <2>14 DEF Sound
<1>9. g.pos \in 1 .. (Len(Config(g.agent).upstreams) + 1)
  BY <1>1, <1>3
<1> QED
  BY <1>3, <1>7, <1>8, <1>9 DEF CallInv

\* What a call that waits knows of its upstream.
LEMMA WaitingFacts ==
    ASSUME NEW f, NEW k, NEW q, Waiting(f, k, q), NEW c, NEW e, Facing(f, c, e)
    PROVE  WaitingWith(c, e, f, k, q)
BY Zenon DEF Waiting, Facing

\* The downstream chains with one more: those that were there, and the new one.
Joined(F, C, G) ==
    /\ DOMAIN F = 1 .. Len(F) /\ Len(F) \in Nat /\ DOMAIN G = 1 .. Len(G)
    /\ \A d \in DOMAIN F : d \in DOMAIN G /\ G[d] = F[d]
    /\ Len(F) + 1 \in DOMAIN G /\ G[Len(F) + 1] = C[1]
    /\ \A d \in DOMAIN G : d \in DOMAIN F \/ d = Len(F) + 1
          \/ \E i \in DOMAIN C : i # 1 /\ d = Len(F) + i /\ G[d] = C[i]

\* That is what appending it yields.
LEMMA JoinedChains ==
    ASSUME NEW F \in Seq(Item), NEW C \in Seq(Item), C # <<>>, NEW G, G = F \o C
    PROVE  Joined(F, C, G)
<1>1. /\ G \in Seq(Item) /\ Len(G) = Len(F) + Len(C)
      /\ \A i \in 1 .. Len(F) : G[i] = F[i]
      /\ \A i \in 1 .. Len(C) : G[Len(F) + i] = C[i]
  OBVIOUS
<1>2. Len(F) \in Nat /\ Len(C) \in Nat \ {0} /\ DOMAIN F = 1 .. Len(F) /\ DOMAIN C = 1 .. Len(C)
  OBVIOUS
<1>3. DOMAIN G = 1 .. Len(G)
  BY <1>1
<1> HIDE DEF Joined
<1>4. \A d \in DOMAIN F : d \in DOMAIN G /\ G[d] = F[d]
  BY <1>1, <1>2, <1>3
<1>5. Len(F) + 1 \in DOMAIN G /\ G[Len(F) + 1] = C[1]
  BY <1>1, <1>2, <1>3
<1>6. ASSUME NEW d \in DOMAIN G, d \notin DOMAIN F, d # Len(F) + 1
      PROVE  \E i \in DOMAIN C : i # 1 /\ d = Len(F) + i /\ G[d] = C[i]
  <2> DEFINE i == d - Len(F)
  <2>1. i \in DOMAIN C /\ i # 1 /\ d = Len(F) + i
    BY <1>1, <1>2, <1>3, <1>6
  <2>2. G[d] = C[i]
    BY <1>1, <1>2, <2>1
  <2> QED
    BY <2>1, <2>2
<1> QED
  BY <1>2, <1>3, <1>4, <1>5, <1>6 DEF Joined

\* The call after it has nested a chain.
Nested(g, f, C, final, q) ==
    /\ g \in Frame /\ g.agent = f.agent /\ g.downs = f.downs \o C
    /\ g.errors = (f.errors \/ ~final) /\ CallInv(g, q, 0)

\* The call nests the chain it was waiting for, which passed the checks.
LEMMA ReturnCall ==
    ASSUME TypeInv, NEW f \in Frame, NEW q, CallInv(f, q, 1), NEW c, NEW e, Facing(f, c, e),
           NEW k, Waiting(f, k, q), NEW C \in Seq(Item), Built(C, q), C[1].node.id = k.agent,
           PayloadValid(C, e, q), NEW final \in BOOLEAN, final = C[1].node.final,
           NEW g, g = WithChain(f, C, final)
    PROVE  Nested(g, f, C, final, q)
<1>1. /\ c = Config(f.agent) /\ c.upstreams \in Seq(Endpoint) /\ Len(c.upstreams) \in Nat
      /\ e \in Endpoint /\ f.pos \in 1 .. Len(c.upstreams) /\ e = c.upstreams[f.pos]
  BY FacingType
<1>2. /\ g \in Frame /\ g.agent = f.agent /\ g.pos = f.pos + 1 /\ g.hops = f.hops
      /\ g.downs = f.downs \o C /\ g.errors = (f.errors \/ ~final)
      /\ g.terminal = f.terminal
  BY ChainAddedFields
<1>3. f.hops \in Seq(HopRecord) /\ f.downs \in Seq(Item) /\ f.pos \in Nat
  BY FrameFields
<1>4. /\ e \notin c.terminal /\ Owner[e] \in since[q] /\ k.agent = Url[e] /\ f.hops # <<>>
      /\ f.hops[Len(f.hops)] = Hop(f.agent, e, TRUE)
  <2>1. WaitingWith(c, e, f, k, q)
    BY WaitingFacts, Zenon
  <2> QED
    BY <2>1, Zenon DEF WaitingWith
<1>5. /\ C # <<>> /\ C[1].depth = 0 /\ \A i \in DOMAIN C : i # 1 => C[i].depth > 0
  BY DEF Built
<1>6. /\ C[1].node.id = Owner[e] /\ C[1].node.endpoint = e /\ C[1].node.id = Url[e] /\ Shape(C, 1)
  <2>1. 1 \in DOMAIN C
    BY <1>5
  <2> QED
    BY <1>4, <2>1 DEF PayloadValid, NodeOf, SemanticsValid
<1> DEFINE last == Len(f.hops)
           first == Len(f.downs) + 1
<1>7. last \in DOMAIN f.hops /\ f.hops[last].to = e /\ DOMAIN f.hops = 1 .. last /\ last \in Nat \ {0}
  <2>1. last \in DOMAIN f.hops /\ DOMAIN f.hops = 1 .. last /\ last \in Nat \ {0}
    BY <1>3, <1>4
  <2>2. Hop(f.agent, e, TRUE).to = e
    BY HopTo
  <2> QED
    BY <1>4, <2>1, <2>2
<1>8. Joined(f.downs, C, g.downs)
  BY <1>2, <1>3, <1>5, JoinedChains
<1> HIDE DEF last, first
<1>9. ASSUME ~g.errors PROVE Sound(g, q, 0)
  <2>1. Sound(f, q, 1) /\ c = Config(f.agent) /\ final
    BY <1>1, <1>2, <1>9 DEF CallInv
  <2>2. SoundWith(c, f, q, 1)
    BY <2>1 DEF Sound
  <2>3. /\ Forest(f.downs, q)
        /\ \A p \in 1 .. (f.pos - 1) :
              c.upstreams[p] \in c.terminal \/ Rooted(f, c.upstreams[p])
        /\ \A m \in DOMAIN f.hops :
              /\ Fine(f.agent, f.hops[m]) /\ f.hops[m].to \notin c.terminal
              /\ m \in Settled(f, 1) =>
                    /\ Rooted(f, f.hops[m].to)
                    /\ \E p \in 1 .. (f.pos - 1) : c.upstreams[p] = f.hops[m].to
        /\ \A m \in DOMAIN f.terminal :
              /\ f.terminal[m] \in c.terminal
              /\ \E p \in 1 .. (f.pos - 1) : c.upstreams[p] = f.terminal[m]
        /\ \A d \in DOMAIN f.downs : f.downs[d].depth = 0 =>
              \E m \in Settled(f, 1) : f.hops[m].to = f.downs[d].node.endpoint
        /\ Distinct(c.upstreams) => Different(f)
    BY <2>2, Zenon DEF SoundWith
  <2>4. Forest(g.downs, q)
    <3>1. C[1].node.final /\ C[1].node.id \in since[q]
      BY <1>4, <1>6, <2>1
    <3> QED
      BY <1>2, <1>3, <1>6, <2>3, <3>1, ForestJoin
  <2>5. /\ \A d \in DOMAIN f.downs : d \in DOMAIN g.downs /\ g.downs[d] = f.downs[d]
        /\ first \in DOMAIN g.downs /\ g.downs[first] = C[1]
        /\ \A d \in DOMAIN g.downs : g.downs[d].depth = 0 => d \in DOMAIN f.downs \/ d = first
    <3>1. \A d \in DOMAIN g.downs : d \in DOMAIN f.downs \/ d = first
              \/ \E i \in DOMAIN C : i # 1 /\ g.downs[d] = C[i]
      BY <1>8, Zenon DEF Joined, first
    <3>2. \A i \in DOMAIN C : i # 1 => C[i].depth # 0
      BY <1>5
    <3>3. \A d \in DOMAIN g.downs : g.downs[d].depth = 0 => d \in DOMAIN f.downs \/ d = first
      BY <3>1, <3>2
    <3> QED
      BY <1>8, <3>3, Zenon DEF Joined, first
  <2>6. \A x : Rooted(f, x) => Rooted(g, x)
    BY <2>5 DEF Rooted
  <2>7. Rooted(g, e)
    BY <1>5, <1>6, <2>5 DEF Rooted
  <2>8. /\ \A p \in 1 .. (f.pos - 1) : p \in 1 .. (g.pos - 1)
        /\ f.pos \in 1 .. (g.pos - 1)
        /\ \A p \in 1 .. (g.pos - 1) : p \in 1 .. (f.pos - 1) \/ p = f.pos
    <3>1. f.pos \in Nat \ {0} /\ g.pos = f.pos + 1
      BY <1>1, <1>2, <1>3
    <3> QED
      BY <3>1, NextPlace
  <2>9. /\ Settled(g, 0) = DOMAIN f.hops /\ last \in Settled(g, 0)
        /\ \A m \in DOMAIN f.hops : m \in Settled(f, 1) \/ m = last
        /\ \A m \in Settled(f, 1) : m \in DOMAIN f.hops
    <3>1. Settled(f, 1) = 1 .. (last - 1) /\ Settled(g, 0) = 1 .. last
      BY <1>2, <1>7 DEF Settled, last
    <3> QED
      BY <1>7, <3>1
  <2>10. \A p \in 1 .. (g.pos - 1) : c.upstreams[p] \in c.terminal \/ Rooted(g, c.upstreams[p])
    BY <1>1, <2>3, <2>6, <2>7, <2>8
  <2>11. ASSUME NEW m \in DOMAIN g.hops
         PROVE  /\ Fine(g.agent, g.hops[m]) /\ g.hops[m].to \notin c.terminal
                /\ m \in Settled(g, 0) =>
                      /\ Rooted(g, g.hops[m].to)
                      /\ \E p \in 1 .. (g.pos - 1) : c.upstreams[p] = g.hops[m].to
    <3>1. m \in DOMAIN f.hops /\ g.hops[m] = f.hops[m] /\ g.agent = f.agent
      BY <1>2
    <3>2. Fine(g.agent, g.hops[m]) /\ g.hops[m].to \notin c.terminal
      BY <2>3, <3>1
    <3>3. CASE m = last
      BY <1>1, <1>7, <2>7, <2>8, <3>1, <3>2, <3>3
    <3>4. CASE m \in Settled(f, 1)
      <4>1. Rooted(f, f.hops[m].to) /\ \E p \in 1 .. (f.pos - 1) : c.upstreams[p] = f.hops[m].to
        BY <2>3, <3>1, <3>4
      <4> QED
        BY <2>6, <2>8, <3>1, <3>2, <4>1
    <3> QED
      BY <2>9, <3>1, <3>3, <3>4
  <2>12. \A m \in DOMAIN g.terminal :
              /\ g.terminal[m] \in c.terminal
              /\ \E p \in 1 .. (g.pos - 1) : c.upstreams[p] = g.terminal[m]
    BY <1>2, <2>3, <2>8
  <2>13. ASSUME NEW d \in DOMAIN g.downs, g.downs[d].depth = 0
         PROVE  \E m \in Settled(g, 0) : g.hops[m].to = g.downs[d].node.endpoint
    <3>1. CASE d = first
      BY <1>2, <1>6, <1>7, <2>5, <2>9, <3>1
    <3>2. CASE d \in DOMAIN f.downs
      <4>1. PICK m \in Settled(f, 1) : f.hops[m].to = f.downs[d].node.endpoint
        BY <2>3, <2>5, <2>13, <3>2
      <4> QED
        BY <1>2, <2>5, <2>9, <3>2, <4>1
    <3> QED
      BY <2>5, <2>13, <3>1, <3>2
  <2>14. ASSUME Distinct(c.upstreams) PROVE Different(g)
    <3>1. /\ \A i, j \in DOMAIN f.hops : f.hops[i].to = f.hops[j].to => i = j
          /\ Distinct(f.terminal)
          /\ \A i, d \in DOMAIN f.downs :
                f.downs[i].depth = 0 /\ f.downs[d].depth = 0
                  /\ f.downs[i].node.endpoint = f.downs[d].node.endpoint => i = d
      <4>1. Different(f)
        BY <2>3, <2>14
      <4> QED
        BY <4>1, Zenon DEF Different
    <3>2. ASSUME NEW d \in DOMAIN f.downs, f.downs[d].depth = 0
          PROVE  f.downs[d].node.endpoint # e
      <4>1. PICK m \in Settled(f, 1) : f.hops[m].to = f.downs[d].node.endpoint
        BY <2>3, <3>2
      <4>2. \E p \in 1 .. (f.pos - 1) : c.upstreams[p] = f.hops[m].to
        BY <2>3, <2>9
      <4>3. f.hops[m].to # e
        BY <1>1, <2>14, <4>2, FurtherOn
      <4> QED
        BY <4>1, <4>3
    <3>3. ASSUME NEW i \in DOMAIN g.downs, NEW d \in DOMAIN g.downs,
                 g.downs[i].depth = 0, g.downs[d].depth = 0,
                 g.downs[i].node.endpoint = g.downs[d].node.endpoint
          PROVE  i = d
      <4>1. (i \in DOMAIN f.downs \/ i = first) /\ (d \in DOMAIN f.downs \/ d = first)
        BY <2>5, <3>3
      <4>2. g.downs[first].node.endpoint = e
        BY <1>6, <2>5
      <4>3. CASE i = first /\ d = first
        BY <4>3
      <4>4. CASE i \in DOMAIN f.downs /\ d \in DOMAIN f.downs
        <5>1. g.downs[i] = f.downs[i] /\ g.downs[d] = f.downs[d]
          BY <2>5, <4>4
        <5> QED
          BY <3>1, <3>3, <4>4, <5>1
      <4>5. CASE i \in DOMAIN f.downs /\ d = first
        <5>1. f.downs[i].depth = 0 /\ f.downs[i].node.endpoint = e
          BY <2>5, <3>3, <4>2, <4>5
        <5> QED
          BY <3>2, <4>5, <5>1
      <4>6. CASE i = first /\ d \in DOMAIN f.downs
        <5>1. f.downs[d].depth = 0 /\ f.downs[d].node.endpoint = e
          BY <2>5, <3>3, <4>2, <4>6
        <5> QED
          BY <3>2, <4>6, <5>1
      <4> QED
        BY <4>1, <4>3, <4>4, <4>5, <4>6
    <3>4. \A i, j \in DOMAIN g.hops : g.hops[i].to = g.hops[j].to => i = j
      BY <1>2, <3>1
    <3>5. Distinct(g.terminal)
      BY <1>2, <3>1
    <3> QED
      BY <3>3, <3>4, <3>5, Zenon DEF Different
  <2>15. SoundWith(c, g, q, 0)
    BY <2>4, <2>10, <2>11, <2>12, <2>13, <2>14, Zenon DEF SoundWith
  <2> QED
    BY <1>2, <2>1, <2>15 DEF Sound
<1>10. g.pos \in 1 .. (Len(Config(g.agent).upstreams) + 1)
  BY <1>1, <1>2
<1>11. CallInv(g, q, 0)
  BY <1>9, <1>10, Zenon DEF CallInv
<1> QED
  BY <1>2, <1>11, Zenon DEF Nested

\* The parts of what holds of the calls of a thread.
LEMMA StackParts ==
    ASSUME NEW s \in Seq(Frame), NEW q, StackInv(s, q)
    PROVE  /\ Len(s) \in Nat \ {0} /\ DOMAIN s = 1 .. Len(s)
           /\ \A k \in 1 .. Len(s) : s[k] \in Frame /\ NoneWaits(s, k)
           /\ CallInv(s[Len(s)], q, 0)
           /\ \A k \in 1 .. (Len(s) - 1) : CallInv(s[k], q, 1) /\ Waiting(s[k], s[k + 1], q)
<1>1. Len(s) \in Nat \ {0} /\ DOMAIN s = 1 .. Len(s) /\ \A k \in 1 .. Len(s) : s[k] \in Frame
  <2>1. s # <<>>
    BY Zenon DEF StackInv
  <2> QED
    BY <2>1
<1>2. Len(s) \in 1 .. Len(s) /\ \A k \in 1 .. (Len(s) - 1) : k \in 1 .. Len(s) /\ k # Len(s)
  <2> DEFINE n == Len(s)
  <2>1. n \in Nat \ {0}
    BY <1>1
  <2> HIDE DEF n
  <2>2. n \in 1 .. n /\ \A k \in 1 .. (n - 1) : k \in 1 .. n /\ k # n
    BY <2>1
  <2> QED
    BY <2>2 DEF n
<1>3. \A k \in 1 .. Len(s) : NoneWaits(s, k) /\ CallInv(s[k], q, IF k = Len(s) THEN 0 ELSE 1)
  BY Zenon DEF StackInv
<1>4. \A k \in 1 .. (Len(s) - 1) : Waiting(s[k], s[k + 1], q)
  BY Zenon DEF StackInv
<1>5. CallInv(s[Len(s)], q, 0)
  BY <1>2, <1>3
<1>6. \A k \in 1 .. (Len(s) - 1) : CallInv(s[k], q, 1)
  BY <1>2, <1>3
<1>7. \A k \in 1 .. Len(s) : s[k] \in Frame /\ NoneWaits(s, k)
  BY <1>1, <1>3, Zenon
<1>8. \A k \in 1 .. (Len(s) - 1) : CallInv(s[k], q, 1) /\ Waiting(s[k], s[k + 1], q)
  BY <1>4, <1>6
<1> QED
  BY <1>1, <1>5, <1>7, <1>8, Zenon

\* A call that waits looks at an upstream.
LEMMA WaitingFaces ==
    ASSUME NEW f, NEW k, NEW q, Waiting(f, k, q)
    PROVE  \E c, e : Facing(f, c, e)
<1>1. f.pos \in 1 .. Len(Config(f.agent).upstreams)
  BY Zenon DEF Waiting, WaitingWith
<1>2. Facing(f, Config(f.agent), Config(f.agent).upstreams[f.pos])
  BY <1>1, Zenon DEF Facing
<1> QED
  BY <1>2

\* An Agent that has looked at all its upstreams without an error is not one of
\* those that wait: the chain below it would hold the one it waits for.
LEMMA NoLoop ==
    ASSUME TypeInv, NEW s \in Seq(Frame), NEW q, StackInv(s, q), NEW n, n = Len(s),
           ~s[n].errors, s[n].pos = Len(Config(s[n].agent).upstreams) + 1,
           NEW j \in 1 .. (n - 1)
    PROVE  s[n].agent # s[j].agent
<1>1. /\ n \in Nat \ {0} /\ s[n] \in Frame /\ s[j] \in Frame /\ j \in Nat
      /\ NoneWaits(s, n) /\ CallInv(s[n], q, 0) /\ Waiting(s[j], s[j + 1], q)
      /\ j + 1 \in 1 .. n
  BY StackParts
<1>2. SUFFICES ASSUME s[n].agent = s[j].agent PROVE FALSE
  OBVIOUS
<1>3. PICK c, e : Facing(s[j], c, e)
  BY <1>1, WaitingFaces
<1>4. /\ c = Config(s[j].agent) /\ c.upstreams \in Seq(Endpoint) /\ Len(c.upstreams) \in Nat
      /\ e \in Endpoint /\ s[j].pos \in 1 .. Len(c.upstreams) /\ e = c.upstreams[s[j].pos]
  BY <1>1, <1>3, FacingType
<1>5. e \notin c.terminal /\ s[j + 1].agent = Url[e]
  <2>1. WaitingWith(c, e, s[j], s[j + 1], q)
    BY <1>1, <1>3, WaitingFacts
  <2> QED
    BY <2>1, Zenon DEF WaitingWith
<1>6. SoundWith(c, s[n], q, 0)
  BY <1>1, <1>2, <1>4 DEF CallInv, Sound
<1>7. \A p \in 1 .. (s[n].pos - 1) : c.upstreams[p] \in c.terminal \/ Rooted(s[n], c.upstreams[p])
  BY <1>6, Zenon DEF SoundWith
<1>8. s[j].pos \in 1 .. (s[n].pos - 1)
  BY <1>2, <1>4
<1>9. Rooted(s[n], e)
  BY <1>4, <1>5, <1>7, <1>8
<1>10. PICK d \in DOMAIN s[n].downs : s[n].downs[d].node.id = Url[e]
  BY <1>9 DEF Rooted
<1>11. s[n].downs[d].node.id # s[j + 1].agent
  BY <1>1 DEF NoneWaits
<1> QED
  BY <1>5, <1>10, <1>11

\* No resolver of the chain is one of the Agents before the n-th.
Foreign(C, s, n) ==
    C[1].node.final => \A i \in DOMAIN C, j \in 1 .. (n - 1) : C[i].node.id # s[j].agent

\* The answer of the last call of a thread.
LEMMA Answer ==
    ASSUME TypeInv, NEW s \in Seq(Frame), NEW q \in Query, StackInv(s, q), NEW n, n = Len(s),
           s[n].pos > Len(Config(s[n].agent).upstreams), NEW C, C = BuiltFrom(s[n], q)
    PROVE  /\ C \in Seq(Item) /\ Built(C, q) /\ C[1].node.id = s[n].agent
           /\ Foreign(C, s, n)
<1>1. /\ n \in Nat \ {0} /\ s[n] \in Frame /\ NoneWaits(s, n) /\ CallInv(s[n], q, 0)
      /\ n \in 1 .. n /\ \A j \in 1 .. (n - 1) : j \in 1 .. n
  BY StackParts
<1>2. s[n].pos = Len(Config(s[n].agent).upstreams) + 1
  <2>1. Len(Config(s[n].agent).upstreams) \in Nat /\ s[n].pos \in Nat
    BY <1>1, ConfigType, FrameFields
  <2>2. s[n].pos \in 1 .. (Len(Config(s[n].agent).upstreams) + 1)
    BY <1>1 DEF CallInv
  <2> QED
    BY <2>1, <2>2
<1>3. ~s[n].errors => \A d \in DOMAIN s[n].downs, j \in 1 .. n : s[n].downs[d].node.id # s[j].agent
  BY <1>1 DEF NoneWaits
<1>4. /\ ~s[n].errors => Sound(s[n], q, 0)
      /\ ~s[n].errors => \A d \in DOMAIN s[n].downs : s[n].downs[d].node.id # s[n].agent
  BY <1>1, <1>3 DEF CallInv
<1> DEFINE f == s[n]
<1>5. f \in Frame
  BY <1>1
<1> HIDE DEF f
<1>6. /\ C \in Seq(Item) /\ Built(C, q)
      /\ C[1].node.id = f.agent /\ C[1].node.endpoint = Home[f.agent]
      /\ C[1].node.version = version[f.agent]
      /\ C[1].node.final => ~f.errors
      /\ Len(C) = Len(f.downs) + 1
      /\ \A i \in 1 .. Len(f.downs) : C[1 + i].node = f.downs[i].node
  <2>1. /\ f.pos = Len(Config(f.agent).upstreams) + 1 /\ C = BuiltFrom(f, q)
        /\ ~f.errors => Sound(f, q, 0)
        /\ ~f.errors => \A d \in DOMAIN f.downs : f.downs[d].node.id # f.agent
    BY <1>2, <1>4 DEF f
  <2> QED
    BY <1>5, <2>1, BuiltLemma
<1>7. ASSUME C[1].node.final, NEW i \in DOMAIN C, NEW j \in 1 .. (n - 1)
      PROVE  C[i].node.id # s[j].agent
  <2>1. ~s[n].errors
    BY <1>6, <1>7 DEF f
  <2>2. CASE i = 1
    <3>1. s[n].agent # s[j].agent
      BY <1>2, <2>1, NoLoop
    <3> QED
      BY <1>6, <2>2, <3>1 DEF f
  <2>3. CASE i # 1
    <3>1. f.downs \in Seq(Item)
      BY <1>5, FrameFields
    <3>2. PICK d \in 1 .. Len(f.downs) : i = 1 + d
      <4>1. PICK len : len = Len(f.downs)
        OBVIOUS
      <4>2. len \in Nat
        BY <3>1, <4>1
      <4>3. C \in Seq(Item) /\ Len(C) = len + 1
        BY <1>6, <4>1
      <4>4. i \in 1 .. (len + 1)
        BY <1>7, <4>3
      <4>5. i - 1 \in 1 .. len /\ i = 1 + (i - 1)
        BY <2>3, <4>2, <4>4
      <4> QED
        BY <4>1, <4>5
    <3>3. C[i].node = f.downs[d].node /\ d \in DOMAIN f.downs
      BY <1>6, <3>1, <3>2
    <3>4. f.downs[d].node.id # s[j].agent
      BY <1>1, <1>3, <2>1, <3>3 DEF f
    <3> QED
      BY <3>3, <3>4
  <2> QED
    BY <2>2, <2>3
<1>8. Foreign(C, s, n)
  BY <1>7, Zenon DEF Foreign
<1> QED
  BY <1>6, <1>8 DEF f

\* What is said of a resolver that was ACTIVE once stays true.
LEMMA ForestKept ==
    ASSUME NEW F, NEW q, Forest(F, q), since[q] \subseteq since'[q]
    PROVE  Forest(F, q)'
BY DEF Forest

\* The same for an answer.
LEMMA BuiltKept ==
    ASSUME NEW C, NEW q, Built(C, q), since[q] \subseteq since'[q]
    PROVE  Built(C, q)'
BY DEF Built

\* And for a chain with all its upstreams.
LEMMA CoveredKept ==
    ASSUME NEW C, NEW q, Covered(C, q), since[q] \subseteq since'[q]
    PROVE  Covered(C, q)'
BY DEF Covered

\* A configuration that did not change.
Same(r) == version'[r] = version[r]

\* It reads the same.
LEMMA ConfigKept ==
    ASSUME NEW r, Same(r)
    PROVE  Config(r)' = Config(r)
BY DEF Config, Same

\* What a call has done stays done.
LEMMA CallKept ==
    ASSUME NEW f, NEW q, NEW n, CallInv(f, q, n), Same(f.agent), since[q] \subseteq since'[q]
    PROVE  CallInv(f, q, n)'
<1>1. PICK c : c = Config(f.agent) /\ c = Config(f.agent)'
  BY ConfigKept
<1>2. f.pos \in 1 .. (Len(c.upstreams) + 1) /\ (~f.errors => SoundWith(c, f, q, n))
  BY <1>1, Zenon DEF CallInv, Sound
<1>3. ASSUME SoundWith(c, f, q, n) PROVE SoundWith(c, f, q, n)'
  <2>1. Forest(f.downs, q)'
    BY <1>3, ForestKept, Zenon DEF SoundWith
  <2> QED
    BY <1>3, <2>1, Zenon DEF SoundWith
<1> QED
  BY <1>1, <1>2, <1>3, Zenon DEF CallInv, Sound

\* A call that waits goes on waiting for the same.
LEMMA WaitingKept ==
    ASSUME NEW f, NEW g, NEW q, Waiting(f, g, q), Same(f.agent), since[q] \subseteq since'[q]
    PROVE  Waiting(f, g, q)'
<1>1. PICK c : c = Config(f.agent) /\ c = Config(f.agent)'
  BY ConfigKept
<1>2. PICK e : WaitingWith(c, e, f, g, q) /\ e = c.upstreams[f.pos]
  BY <1>1, Zenon DEF Waiting
<1>3. WaitingWith(c, e, f, g, q)'
  BY <1>2 DEF WaitingWith
<1> QED
  BY <1>1, <1>2, <1>3, Zenon DEF Waiting

\* The calls of a thread whose Agents were not reconfigured.
LEMMA StackKept ==
    ASSUME NEW s, NEW q, StackInv(s, q), \A k \in 1 .. Len(s) : Same(s[k].agent),
           since[q] \subseteq since'[q]
    PROVE  StackInv(s, q)'
<1>1. s # <<>> /\ \A k \in 1 .. Len(s) : NoneWaits(s, k)
  BY Zenon DEF StackInv
<1>2. ASSUME NEW k \in 1 .. Len(s) PROVE CallInv(s[k], q, IF k = Len(s) THEN 0 ELSE 1)'
  <2>1. CallInv(s[k], q, IF k = Len(s) THEN 0 ELSE 1) /\ Same(s[k].agent)
    BY Zenon DEF StackInv
  <2> DEFINE n == IF k = Len(s) THEN 0 ELSE 1
             f == s[k]
  <2> HIDE DEF n, f
  <2>2. CallInv(f, q, n) /\ Same(f.agent)
    BY <2>1 DEF n, f
  <2>3. CallInv(f, q, n)'
    BY <2>2, CallKept
  <2> QED
    BY <2>3 DEF n, f
<1>3. ASSUME NEW k \in 1 .. (Len(s) - 1) PROVE Waiting(s[k], s[k + 1], q)'
  <2>1. Waiting(s[k], s[k + 1], q)
    BY Zenon DEF StackInv
  <2>2. Same(s[k].agent)
    OBVIOUS
  <2> QED
    BY <2>1, <2>2, WaitingKept
<1> QED
  BY <1>1, <1>2, <1>3, Zenon DEF StackInv

\* A request that failed is an error of the Agent that asked.
LEMMA CutStack ==
    ASSUME TypeInv, NEW s \in Seq(Frame), NEW q, StackInv(s, q), NEW m \in 1 .. (Len(s) - 1),
           NEW t, t = CutTo(s, m, Failing(s[m]))
    PROVE  /\ t \in Seq(Frame) /\ StackInv(t, q) /\ Len(t) = m
           /\ \A j \in 1 .. m : t[j].agent = s[j].agent
<1>1. m \in 1 .. Len(s) /\ s[m] \in Frame /\ Waiting(s[m], s[m + 1], q) /\ m \in Nat \ {0}
  BY StackParts
<1>2. PICK f : f = s[m]
  OBVIOUS
<1>3. PICK g : g = Failing(f)
  OBVIOUS
<1>4. f.pos \in 1 .. Len(Config(f.agent).upstreams)
  BY <1>1, <1>2, Zenon DEF Waiting, WaitingWith
<1>5. g \in Frame /\ g.agent = f.agent /\ g.errors = TRUE /\ CallInv(g, q, 0)
  BY <1>1, <1>2, <1>3, <1>4, FailingCall
<1>6. Ends(t, s, m, g)
  BY <1>1, <1>2, <1>3, <1>5, CutSeq
<1>7. Clear(g, s, m) /\ g.agent = s[m].agent
  BY <1>2, <1>5 DEF Clear
<1>8. t \in Seq(Frame) /\ StackInv(t, q)
  BY <1>1, <1>5, <1>6, <1>7, StackEnds
<1>9. Len(t) = m /\ t[m] = g /\ \A j \in 1 .. (m - 1) : t[j] = s[j]
  BY <1>6, Zenon DEF Ends
<1>10. ASSUME NEW j \in 1 .. m PROVE t[j].agent = s[j].agent
  <2>1. j = m \/ j \in 1 .. (m - 1)
    BY <1>1
  <2> QED
    BY <1>7, <1>9, <2>1
<1> QED
  BY <1>8, <1>9, <1>10

\* The Agent at the top goes on with its next upstream, with an error or past a
\* terminal.
LEMMA StepStack ==
    ASSUME TypeInv, NEW s \in Seq(Frame), NEW q, StackInv(s, q), NEW g \in Frame,
           g.agent = Top(s).agent, CallInv(g, q, 0),
           ~g.errors => g.downs = Top(s).downs /\ ~Top(s).errors,
           NEW t, t = SetTop(s, g)
    PROVE  t \in Seq(Frame) /\ StackInv(t, q)
<1>1. PICK n : n = Len(s)
  OBVIOUS
<1>2. n \in Nat \ {0} /\ n \in 1 .. Len(s) /\ NoneWaits(s, n) /\ Top(s) = s[n] /\ s # <<>>
  BY <1>1, StackParts DEF Top
<1>3. Ends(t, s, n, g)
  BY <1>1, <1>2, SetTopSeq
<1>4. Clear(g, s, n)
  BY <1>2 DEF NoneWaits, Clear
<1> QED
  BY <1>2, <1>3, <1>4, StackEnds

\* The Agent at the top asks the next one.
LEMMA AskStack ==
    ASSUME TypeInv, NEW s \in Seq(Frame), NEW q, StackInv(s, q), NEW c, NEW e,
           Facing(Top(s), c, e), e \notin c.terminal, Owner[e] \in since[q],
           e # Home[Top(s).agent], Owner[e] \in Keyed, Url[e] \in Resolver,
           NEW t, t = Append(SetTop(s, Asking(Top(s), e)), NewFrame(Url[e]))
    PROVE  t \in Seq(Frame) /\ StackInv(t, q)
<1>1. PICK n, f, r : n = Len(s) /\ f = Top(s) /\ r = Url[e]
  OBVIOUS
<1>2. /\ n \in Nat \ {0} /\ n \in 1 .. Len(s) /\ f = s[n] /\ s # <<>> /\ f \in Frame
      /\ CallInv(f, q, 0)
  BY <1>1, StackParts DEF Top
<1>3. PICK g, h : g = Asking(f, e) /\ h = NewFrame(r)
  OBVIOUS
<1>4. h \in Frame /\ h.agent = r /\ h.downs = <<>> /\ CallInv(h, q, 0)
  BY <1>1, <1>3, NewCall
<1>5. /\ g \in Frame /\ g.agent = f.agent /\ g.downs = f.downs /\ g.errors = f.errors
      /\ CallInv(g, q, 1) /\ Waiting(g, h, q)
  <2>1. h.agent = Url[e] /\ Facing(f, c, e) /\ e # Home[f.agent]
    BY <1>1, <1>4
  <2> QED
    BY <1>2, <1>3, <2>1, PushCall
<1>6. t = Append(SetTop(s, g), h)
  BY <1>1, <1>3
<1>7. /\ t \in Seq(Frame) /\ Len(t) = n + 1 /\ t[n] = g /\ t[n + 1] = h
      /\ \A j \in 1 .. (n - 1) : t[j] = s[j]
  <2>1. Grown(t, s, g, h)
    BY <1>2, <1>4, <1>5, <1>6, PushSeq
  <2> QED
    BY <1>1, <2>1, Zenon DEF Grown
<1>8. /\ t[n].agent = s[n].agent /\ t[n].downs = s[n].downs /\ t[n].errors = s[n].errors
      /\ CallInv(t[n], q, 1) /\ r \in Resolver /\ t[n + 1] = NewFrame(r)
      /\ Waiting(t[n], t[n + 1], q)
  BY <1>1, <1>2, <1>3, <1>5, <1>7
<1> QED
  BY <1>1, <1>7, <1>8, StackPush

\* The Agent at the top answers, and the one that asked nests the chain.
LEMMA ReturnStack ==
    ASSUME TypeInv, NEW s \in Seq(Frame), NEW q \in Query, StackInv(s, q), NEW m,
           m = Len(s) - 1, m # 0, Top(s).pos > Len(Config(Top(s).agent).upstreams),
           NEW C, C = BuiltFrom(Top(s), q),
           PayloadValid(C, Config(s[m].agent).upstreams[s[m].pos], q),
           NEW t, t = CutTo(s, m, WithChain(s[m], C, C[1].node.final))
    PROVE  t \in Seq(Frame) /\ StackInv(t, q)
<1>1. PICK n : n = Len(s)
  OBVIOUS
<1>2. /\ n \in Nat \ {0} /\ m \in Nat \ {0} /\ m \in 1 .. Len(s) /\ m \in 1 .. (n - 1)
      /\ n = m + 1 /\ Top(s) = s[n] /\ s[m] \in Frame
      /\ Waiting(s[m], s[m + 1], q) /\ CallInv(s[m], q, 1) /\ NoneWaits(s, m)
  <2>1. n \in Nat \ {0}
    BY <1>1, StackParts
  <2>2. m \in Nat \ {0} /\ m \in 1 .. n /\ m \in 1 .. (n - 1) /\ n = m + 1
    BY <1>1, <2>1
  <2>3. m \in 1 .. Len(s) /\ m \in 1 .. (Len(s) - 1)
    BY <1>1, <2>2
  <2>4. s[m] \in Frame /\ NoneWaits(s, m) /\ CallInv(s[m], q, 1) /\ Waiting(s[m], s[m + 1], q)
    BY <2>3, StackParts
  <2>5. Top(s) = s[n]
    BY <1>1 DEF Top
  <2> QED
    BY <2>1, <2>2, <2>3, <2>4, <2>5
<1>3. /\ C \in Seq(Item) /\ Built(C, q) /\ C[1].node.id = s[n].agent
      /\ Foreign(C, s, n)
  <2>1. s[n].pos > Len(Config(s[n].agent).upstreams) /\ C = BuiltFrom(s[n], q)
    BY <1>2
  <2> QED
    BY <1>1, <2>1, Answer, Zenon
<1>4. PICK f, k : f = s[m] /\ k = s[m + 1]
  OBVIOUS
<1>5. PICK final \in BOOLEAN : final = C[1].node.final
  <2>1. 1 \in 1 .. Len(C)
    BY <1>3 DEF Built
  <2>2. C[1].node \in Node
    BY <1>3, <2>1, ItemAt
  <2> QED
    BY <2>2 DEF Node
<1>6. PICK g : g = WithChain(f, C, final)
  OBVIOUS
<1>7. PICK c, e : Facing(f, c, e)
  BY <1>2, <1>4, WaitingFaces
<1>8. PayloadValid(C, e, q)
  BY <1>4, <1>7, Zenon DEF Facing
<1>9. /\ f \in Frame /\ CallInv(f, q, 1) /\ Waiting(f, k, q) /\ C[1].node.id = k.agent
      /\ C \in Seq(Item) /\ Built(C, q)
  BY <1>2, <1>3, <1>4
<1>10. /\ g \in Frame /\ g.agent = f.agent /\ g.downs = f.downs \o C
       /\ g.errors = (f.errors \/ ~final) /\ CallInv(g, q, 0)
  <2>1. Nested(g, f, C, final, q)
    BY <1>5, <1>6, <1>7, <1>8, <1>9, ReturnCall
  <2> QED
    BY <2>1, Zenon DEF Nested
<1>11. Ends(t, s, m, g)
  <2>1. t = CutTo(s, m, g) /\ g \in Frame
    <3>1. g = WithChain(s[m], C, C[1].node.final)
      BY <1>4, <1>5, <1>6, Zenon
    <3> QED
      BY <1>10, <3>1, Zenon
  <2> QED
    BY <1>2, <2>1, CutSeq
<1>12. Clear(g, s, m)
  <2>1. SUFFICES ASSUME ~g.errors, NEW d \in DOMAIN g.downs, NEW j \in 1 .. m
                 PROVE  g.downs[d].node.id # s[j].agent
    BY DEF Clear
  <2>2. ~f.errors /\ C[1].node.final
    BY <1>5, <1>10, <2>1
  <2>3. PICK F, G : F = f.downs /\ G = g.downs /\ F \in Seq(Item) /\ G = F \o C /\ C # <<>>
    BY <1>9, <1>10, FrameFields DEF Built
  <2>4. Joined(F, C, G)
    BY <1>9, <2>3, JoinedChains
  <2>5. 1 \in DOMAIN C
    BY <1>9, <2>3
  <2>6. (d \in DOMAIN F /\ G[d] = F[d]) \/ \E i \in DOMAIN C : G[d] = C[i]
    BY <2>1, <2>3, <2>4, <2>5, Zenon DEF Joined
  <2>7. j \in 1 .. (n - 1)
    BY <1>2
  <2>8. \A i \in DOMAIN C : C[i].node.id # s[j].agent
    BY <1>3, <2>2, <2>7, Zenon DEF Foreign
  <2>9. \A i \in DOMAIN f.downs : f.downs[i].node.id # s[j].agent
    BY <1>2, <1>4, <2>2, Zenon DEF NoneWaits
  <2> QED
    BY <2>3, <2>6, <2>8, <2>9
<1>13. g.agent = s[m].agent
  BY <1>4, <1>10
<1> QED
  BY <1>2, <1>10, <1>11, <1>12, <1>13, StackEnds

\* A thread whose Agents were not reconfigured.
LEMMA ThreadKept ==
    ASSUME NEW t, NEW q, NEW e, ThreadWith(t, q, e), since[q] \subseteq since'[q],
           t.step # "none" => active' \subseteq since'[q],
           t.step = "fetch" => \A k \in 1 .. Len(t.stack) : Same(t.stack[k].agent)
    PROVE  ThreadWith(t, q, e)'
<1>1. /\ t.step \in {"fetch", "check", "record", "done"} => Owner[e] \in since[q]
      /\ t.step # "fetch" => t.stack = <<>>
      /\ t.step = "fetch" => StackInv(t.stack, q)
      /\ t.step \in {"check", "record", "done"} => Built(t.payload, q)
      /\ t.step \in {"record", "done"} => PayloadValid(t.payload, e, q)
  BY Zenon DEF ThreadWith
<1>2. t.step = "fetch" => StackInv(t.stack, q)'
  BY <1>1, StackKept, Zenon
<1>3. t.step \in {"check", "record", "done"} => Built(t.payload, q)'
  BY <1>1, BuiltKept, Zenon
<1>4. t.step \in {"fetch", "check", "record", "done"} => Owner[e] \in since'[q]
  BY <1>1
<1> QED
  BY <1>1, <1>2, <1>3, <1>4, Zenon DEF ThreadWith

\* What a step may do to the progress of a thread, as its query sees it.
StepKept(x) ==
    /\ thread'[x].step = "none" <=> thread[x].step = "none"
    /\ thread[x].step = "done" => thread'[x].step = "done"

\* A query that stays as it is.
LEMMA QueryKept ==
    ASSUME NEW r, NEW q, QueryWith(r, q), since[q] \subseteq since'[q],
           \A i \in DOMAIN First : StepKept(<<q, i>>)
    PROVE  QueryWith(r, q)'
<1>1. r.state = "released" => Covered(r.chain, q)'
  BY CoveredKept, Zenon DEF QueryWith
<1>2. \A i \in DOMAIN First : i > r.at => thread'[<<q, i>>].step = "none"
  BY Zenon DEF QueryWith, StepKept
<1>3. r.state \in {"observe", "verify"} =>
          r.at \in DOMAIN First /\ thread'[<<q, r.at>>].step # "none"
  BY Zenon DEF QueryWith, StepKept
<1>4. r.state = "verify" => thread'[<<q, r.at>>].step = "done"
  <2>1. r.state = "verify" => r.at \in DOMAIN First
    BY DEF QueryWith
  <2> QED
    BY <2>1, Zenon DEF QueryWith, StepKept
<1>5. r.state = "new" => r.at = 0
  BY Zenon DEF QueryWith
<1>6. r.state = "released" => r.chain # <<>> /\ r.chain[1].node.id = Owner[First[r.at]]
  BY Zenon DEF QueryWith
<1> QED
  BY <1>1, <1>2, <1>3, <1>4, <1>5, <1>6, Zenon DEF QueryWith

\* The parts of the type of a thread.
LEMMA ThreadFields ==
    ASSUME NEW t \in Thread
    PROVE  /\ t.step \in Step /\ t.stack \in Seq(Frame) /\ t.payload \in Seq(Item)
           /\ t.previous \in Seq(Item) /\ t.gen \in Nat
BY DEF Thread

\* A thread is one of a query.
LEMMA ThreadsPair ==
    ASSUME NEW x \in Threads
    PROVE  x[1] \in Query /\ x[2] \in DOMAIN First /\ x = <<x[1], x[2]>>
BY DEF Threads

\* One thread takes a step; nothing changes that the others depend on.
LEMMA OneThread ==
    ASSUME ChainInv, NEW x \in Threads, NEW u \in Thread, thread' = [thread EXCEPT ![x] = u],
           thread[x].step \notin {"none", "done"}, u.step # "none",
           ThreadWith(u, x[1], First[x[2]]),
           version' = version, active' = active, query' = query, since' = since,
           context' \in [Elements(First) -> Seq(Item)], generation' \in Nat
    PROVE  ChainInv'
<1>1. TypeInv /\ (\A y \in Threads : ThreadInv(y)) /\ (\A q \in Query : QueryInv(q))
  BY DEF ChainInv
<1>2. thread \in [Threads -> Thread] /\ since \in [Query -> SUBSET Resolver]
  BY <1>1 DEF TypeInv
<1>3. /\ thread' \in [Threads -> Thread] /\ thread'[x] = u
      /\ \A y \in Threads : y # x => thread'[y] = thread[y]
  BY <1>2
<1>4. TypeInv'
  BY <1>1, <1>3 DEF TypeInv
<1>5. \A r : Same(r)
  BY DEF Same
<1>6. ASSUME NEW y \in Threads PROVE ThreadInv(y)'
  <2>1. PICK t : t = thread'[y]
    OBVIOUS
  <2>2. ThreadWith(t, y[1], First[y[2]])
    BY <1>1, <1>3, <2>1 DEF ThreadInv
  <2>3. t.step # "none" => active' \subseteq since'[y[1]]
    BY <2>2, Zenon DEF ThreadWith
  <2>4. ThreadWith(t, y[1], First[y[2]])'
    BY <1>5, <2>2, <2>3, ThreadKept
  <2> QED
    BY <2>1, <2>4, Zenon DEF ThreadInv
<1>7. \A y \in Threads : StepKept(y)
  BY <1>3 DEF StepKept
<1>8. ASSUME NEW q \in Query PROVE QueryInv(q)'
  <2>1. PICK r : r = query[q] /\ r = query'[q]
    OBVIOUS
  <2>2. QueryWith(r, q)
    BY <1>1, <2>1 DEF QueryInv
  <2>3. \A i \in DOMAIN First : StepKept(<<q, i>>)
    BY <1>7 DEF Threads
  <2>4. QueryWith(r, q)'
    BY <2>2, <2>3, QueryKept
  <2> QED
    BY <2>1, <2>4, Zenon DEF QueryInv
<1> QED
  BY <1>4, <1>6, <1>8 DEF ChainInv

Become(t, s, C, a) == [t EXCEPT !.stack = s, !.payload = C, !.step = a]

\* A thread with another stack, and perhaps with another step or payload.
LEMMA ThreadSet ==
    ASSUME NEW t \in Thread, NEW s \in Seq(Frame), NEW C \in Seq(Item), NEW a \in Step,
           NEW u, u = Become(t, s, C, a)
    PROVE  u \in Thread /\ u.stack = s /\ u.payload = C /\ u.step = a
<1> DEFINE F == Seq(Frame)
           D == Seq(Item)
<1>1. t \in [step : Step, stack : F, payload : D, previous : D, gen : Nat] /\ s \in F /\ C \in D
  BY DEF Thread
<1> HIDE DEF F, D
<1>2. /\ u \in [step : Step, stack : F, payload : D, previous : D, gen : Nat]
      /\ u.stack = s /\ u.payload = C /\ u.step = a
  BY <1>1 DEF Become
<1> QED
  BY <1>2 DEF Thread, F, D

\* A thread with another stack.
LEMMA StackSet ==
    ASSUME NEW t \in Thread, NEW s \in Seq(Frame), NEW u, u = [t EXCEPT !.stack = s]
    PROVE  u \in Thread /\ u.stack = s /\ u.step = t.step
<1> DEFINE F == Seq(Frame)
           D == Seq(Item)
<1>1. t \in [step : Step, stack : F, payload : D, previous : D, gen : Nat] /\ s \in F
  BY DEF Thread
<1> HIDE DEF F, D
<1>2. /\ u \in [step : Step, stack : F, payload : D, previous : D, gen : Nat]
      /\ u.stack = s /\ u.step = t.step
  BY <1>1
<1> QED
  BY <1>2 DEF Thread, F, D

Ended(t) == [t EXCEPT !.step = "failed", !.stack = <<>>]

\* A thread that ends.
LEMMA FailSet ==
    ASSUME NEW t \in Thread, NEW u, u = Ended(t)
    PROVE  u \in Thread /\ u.stack = <<>> /\ u.step = "failed"
<1> DEFINE F == Seq(Frame)
           D == Seq(Item)
<1>1. /\ t \in [step : Step, stack : F, payload : D, previous : D, gen : Nat]
      /\ <<>> \in F /\ "failed" \in Step
  BY DEF Thread, Step
<1> HIDE DEF F, D
<1>2. /\ u \in [step : Step, stack : F, payload : D, previous : D, gen : Nat]
      /\ u.stack = <<>> /\ u.step = "failed"
  BY <1>1 DEF Ended
<1> QED
  BY <1>2 DEF Thread, F, D

\* A thread that goes on fetching.
LEMMA FetchOn ==
    ASSUME NEW t, NEW q, NEW e, ThreadWith(t, q, e), t.step = "fetch",
           NEW u, u.step = "fetch", StackInv(u.stack, q)
    PROVE  ThreadWith(u, q, e)
<1>1. active \subseteq since[q] /\ Owner[e] \in since[q]
  BY DEF ThreadWith
<1> QED
  BY <1>1 DEF ThreadWith

\* A thread that has failed.
LEMMA Failed ==
    ASSUME NEW t, NEW q, NEW e, ThreadWith(t, q, e), t.step # "none",
           NEW u, u.step = "failed", u.stack = <<>>
    PROVE  ThreadWith(u, q, e)
<1>1. active \subseteq since[q]
  BY DEF ThreadWith
<1> QED
  BY <1>1 DEF ThreadWith

\* What is left of the calls after the k-th request has failed.
Remains(u, t, k) ==
    u.step = "fetch" =>
        Len(u.stack) = k - 1 /\ \A j \in 1 .. (k - 1) : u.stack[j].agent = t.stack[j].agent

\* A request of the thread fails.
LEMMA CutThread ==
    ASSUME TypeInv, NEW t \in Thread, NEW q, NEW e, ThreadWith(t, q, e), t.step = "fetch",
           NEW k \in DOMAIN t.stack, NEW u, u = Cut(t, k)
    PROVE  u \in Thread /\ u.step # "none" /\ ThreadWith(u, q, e) /\ Remains(u, t, k)
<1>1. PICK s : s = t.stack /\ s \in Seq(Frame) /\ StackInv(s, q)
  BY ThreadFields DEF ThreadWith
<1>2. k \in 1 .. Len(s) /\ Len(s) \in Nat
  BY <1>1
<1>3. CASE k = 1
  <2>1. u = Ended(t)
    BY <1>3, Zenon DEF Cut, Ended
  <2>2. u \in Thread /\ u.stack = <<>> /\ u.step = "failed"
    BY <2>1, FailSet
  <2>3. ThreadWith(u, q, e)
    <3>1. t.step # "none"
      OBVIOUS
    <3> QED
      BY <2>2, <3>1, Failed, Zenon
  <2> QED
    BY <2>2, <2>3 DEF Remains
<1>4. CASE k # 1
  <2>1. PICK m : m = k - 1 /\ m \in 1 .. (Len(s) - 1)
    BY <1>2, <1>4
  <2>2. PICK w : w = CutTo(s, m, Failing(s[m]))
    OBVIOUS
  <2>3. u = [t EXCEPT !.stack = w]
    BY <1>1, <1>4, <2>1, <2>2, Zenon DEF Cut, CutTo
  <2>4. /\ w \in Seq(Frame) /\ StackInv(w, q) /\ Len(w) = m
        /\ \A j \in 1 .. m : w[j].agent = s[j].agent
    BY <1>1, <2>1, <2>2, CutStack
  <2>5. u \in Thread /\ u.stack = w /\ u.step = t.step
    BY <2>3, <2>4, StackSet
  <2>6. ThreadWith(u, q, e)
    BY <2>4, <2>5, FetchOn
  <2>7. Remains(u, t, k)
    BY <1>1, <2>1, <2>4, <2>5, Zenon DEF Remains
  <2> QED
    BY <2>5, <2>6, <2>7
<1> QED
  BY <1>3, <1>4

\* A thread at work is of one query and has calls that are sound.
LEMMA Fetching ==
    ASSUME ChainInv, NEW x \in Threads, thread[x].step = "fetch"
    PROVE  /\ TypeInv /\ thread[x] \in Thread /\ ThreadWith(thread[x], x[1], First[x[2]])
           /\ thread[x].stack \in Seq(Frame) /\ StackInv(thread[x].stack, x[1])
           /\ x[1] \in Query /\ active \subseteq since[x[1]]
           /\ context \in [Elements(First) -> Seq(Item)] /\ generation \in Nat
<1>1. TypeInv /\ ThreadWith(thread[x], x[1], First[x[2]])
  BY DEF ChainInv, ThreadInv
<1>2. thread[x] \in Thread /\ context \in [Elements(First) -> Seq(Item)] /\ generation \in Nat
  BY <1>1 DEF TypeInv
<1>3. thread[x].stack \in Seq(Frame)
  BY <1>2, ThreadFields
<1>4. StackInv(thread[x].stack, x[1]) /\ active \subseteq since[x[1]]
  BY <1>1 DEF ThreadWith
<1> QED
  BY <1>1, <1>2, <1>3, <1>4, ThreadsPair

\* RequestFails
LEMMA RequestFailsKeeps ==
    ASSUME ChainInv, NEW x \in Threads, RequestFails(x)
    PROVE  ChainInv'
<1>1. thread[x].step = "fetch"
  BY DEF RequestFails
<1>2. /\ TypeInv /\ thread[x] \in Thread /\ ThreadWith(thread[x], x[1], First[x[2]])
      /\ context \in [Elements(First) -> Seq(Item)] /\ generation \in Nat
  BY <1>1, Fetching
<1>3. PICK k \in DOMAIN thread[x].stack : thread' = [thread EXCEPT ![x] = Cut(thread[x], k)]
  BY Zenon DEF RequestFails
<1>4. PICK t, q, e, u : t = thread[x] /\ q = x[1] /\ e = First[x[2]] /\ u = Cut(t, k)
  OBVIOUS
<1>5. u \in Thread /\ u.step # "none" /\ ThreadWith(u, q, e) /\ Remains(u, t, k)
  BY <1>1, <1>2, <1>4, CutThread
<1>6. /\ version' = version /\ active' = active /\ query' = query /\ since' = since
      /\ context' = context /\ generation' = generation
  BY DEF RequestFails
<1>7. thread' = [thread EXCEPT ![x] = u] /\ thread[x].step \notin {"none", "done"}
  BY <1>1, <1>3, <1>4
<1> QED
  BY <1>2, <1>4, <1>5, <1>6, <1>7, OneThread

\* An Agent that notes a hop and an error.
LEMMA FailedHop ==
    ASSUME TypeInv, NEW s \in Seq(Frame), NEW q, StackInv(s, q), NEW c, NEW e,
           Facing(Top(s), c, e), NEW ok \in BOOLEAN,
           NEW w, w = SetTop(s, Failing(WithHop(Top(s), Hop(Top(s).agent, e, ok))))
    PROVE  w \in Seq(Frame) /\ StackInv(w, q)
<1>1. PICK f : f = Top(s)
  OBVIOUS
<1>2. f \in Frame /\ Facing(f, c, e)
  BY <1>1, StackParts DEF Top
<1>3. /\ c = Config(f.agent) /\ c.upstreams \in Seq(Endpoint) /\ Len(c.upstreams) \in Nat
      /\ e \in Endpoint /\ f.pos \in 1 .. Len(c.upstreams) /\ e = c.upstreams[f.pos]
  BY <1>2, FacingType
<1>4. PICK h : h = Hop(f.agent, e, ok)
  OBVIOUS
<1>5. h \in HopRecord
  <2>1. f.agent \in Resolver /\ e \in Endpoint
    BY <1>2, <1>3, FrameFields
  <2> QED
    BY <1>4, <2>1, HopType
<1>6. PICK g : g = WithHop(f, h)
  OBVIOUS
<1>7. g \in Frame /\ g.agent = f.agent /\ g.pos = f.pos
  <2>1. /\ g \in Frame /\ g.agent = f.agent /\ g.pos = f.pos /\ g.hops = Append(f.hops, h)
        /\ g.downs = f.downs /\ g.errors = f.errors /\ g.terminal = f.terminal
    BY <1>2, <1>5, <1>6, HopAddedFields
  <2> QED
    BY <2>1
<1>8. PICK k : k = Failing(g)
  OBVIOUS
<1>9. g.pos \in 1 .. Len(Config(g.agent).upstreams)
  BY <1>3, <1>7
<1>10. k \in Frame /\ k.agent = g.agent /\ k.errors = TRUE /\ CallInv(k, q, 0)
  BY <1>7, <1>8, <1>9, FailingCall
<1>11. w = SetTop(s, k)
  BY <1>1, <1>4, <1>6, <1>8
<1>12. k.agent = Top(s).agent /\ (~k.errors => k.downs = Top(s).downs /\ ~Top(s).errors)
  BY <1>1, <1>7, <1>10
<1> QED
  BY <1>10, <1>11, <1>12, StepStack

\* An Agent that passes a terminal.
LEMMA PassedHop ==
    ASSUME TypeInv, NEW s \in Seq(Frame), NEW q, StackInv(s, q), NEW c, NEW e,
           Facing(Top(s), c, e), e \in c.terminal, NEW w, w = SetTop(s, Passed(Top(s), e))
    PROVE  w \in Seq(Frame) /\ StackInv(w, q)
<1>1. PICK f : f = Top(s)
  OBVIOUS
<1>2. f \in Frame /\ Facing(f, c, e) /\ CallInv(f, q, 0)
  BY <1>1, StackParts DEF Top
<1>3. PICK g : g = Passed(f, e)
  OBVIOUS
<1>4. /\ g \in Frame /\ g.agent = f.agent /\ g.downs = f.downs /\ g.errors = f.errors
      /\ CallInv(g, q, 0)
  BY <1>2, <1>3, TerminalCall
<1>5. w = SetTop(s, g) /\ g.agent = Top(s).agent
  BY <1>1, <1>3, <1>4
<1>6. ~g.errors => g.downs = Top(s).downs /\ ~Top(s).errors
  BY <1>1, <1>4
<1> QED
  BY <1>4, <1>5, <1>6, StepStack

\* What a thread does while it fetches: it has another stack.
NewStack(x, w) == thread' = [thread EXCEPT ![x] = [thread[x] EXCEPT !.stack = w]]

\* AgentHop in terms of these steps.
LEMMA HopCases ==
    ASSUME NEW x \in Threads, AgentHop(x), thread \in [Threads -> Thread],
           NEW s, s = thread[x].stack, NEW f, f = Top(s), NEW c, NEW e, Facing(f, c, e)
    PROVE  \/ e \in c.terminal /\ NewStack(x, SetTop(s, Passed(f, e)))
           \/ \E ok \in BOOLEAN : NewStack(x, SetTop(s, Failing(WithHop(f, Hop(f.agent, e, ok)))))
           \/ /\ e \notin c.terminal /\ Owner[e] \in active /\ Url[e] # None
              /\ e # Home[f.agent] /\ Owner[e] \in Keyed
              /\ NewStack(x, Append(SetTop(s, Asking(f, e)), NewFrame(Url[e])))
<1>1. c = Config(f.agent) /\ e = c.upstreams[f.pos]
  BY DEF Facing
<1>2. \A w : thread' = [thread EXCEPT ![x].stack = w] => NewStack(x, w)
  BY Zenon DEF NewStack
<1>3. CASE e \in c.terminal
  <2>1. thread' = [thread EXCEPT ![x].stack = SetTop(s, Passed(f, e))]
    BY <1>1, <1>3, Zenon DEF AgentHop, IsTerminalUpstream, Passed
  <2> QED
    BY <1>2, <1>3, <2>1, Zenon
<1>4. CASE e \notin c.terminal /\ Owner[e] \notin active
  <2>1. thread' = [thread EXCEPT ![x].stack =
                      SetTop(s, Failing(WithHop(f, Hop(f.agent, e, FALSE))))]
    BY <1>1, <1>4, Zenon DEF AgentHop, IsTerminalUpstream, WithHop
  <2> QED
    BY <1>2, <2>1, Zenon
<1>5. CASE /\ e \notin c.terminal /\ Owner[e] \in active
           /\ Url[e] = None \/ e = Home[f.agent] \/ Owner[e] \notin Keyed
  <2>1. thread' = [thread EXCEPT ![x].stack =
                      SetTop(s, Failing(WithHop(f, Hop(f.agent, e, TRUE))))]
    BY <1>1, <1>5, Zenon DEF AgentHop, IsTerminalUpstream, WithHop, AgentFor
  <2> QED
    BY <1>2, <2>1, Zenon
<1>6. CASE /\ e \notin c.terminal /\ Owner[e] \in active
           /\ ~(Url[e] = None \/ e = Home[f.agent] \/ Owner[e] \notin Keyed)
  <2>1. thread' = [thread EXCEPT ![x].stack =
                      Append(SetTop(s, Asking(f, e)), NewFrame(Url[e]))]
    BY <1>1, <1>6, Zenon
    DEF AgentHop, IsTerminalUpstream, WithHop, Asking, AgentFor, FetchVerificationChain
  <2> QED
    BY <1>2, <1>6, <2>1, Zenon
<1> QED
  BY <1>3, <1>4, <1>5, <1>6

\* An Agent looks at its next upstream.
LEMMA AgentHopKeeps ==
    ASSUME ChainInv, NEW x \in Threads, thread[x].step = "fetch", AgentHop(x),
           Top(thread[x].stack).pos <= Len(Config(Top(thread[x].stack).agent).upstreams),
           version' = version, active' = active, query' = query, since' = since,
           context' = context, generation' = generation
    PROVE  ChainInv'
<1>1. /\ TypeInv /\ thread[x] \in Thread /\ ThreadWith(thread[x], x[1], First[x[2]])
      /\ thread[x].stack \in Seq(Frame) /\ StackInv(thread[x].stack, x[1])
      /\ x[1] \in Query /\ active \subseteq since[x[1]]
      /\ context \in [Elements(First) -> Seq(Item)] /\ generation \in Nat
  BY Fetching
<1>2. PICK s, f, q : s = thread[x].stack /\ f = Top(s) /\ q = x[1]
  OBVIOUS
<1>3. s \in Seq(Frame) /\ StackInv(s, q) /\ f \in Frame /\ CallInv(f, q, 0)
  BY <1>1, <1>2, StackParts DEF Top
<1>4. PICK c, e : Facing(f, c, e)
  <2>1. f.pos \in Nat /\ Len(Config(f.agent).upstreams) \in Nat
    BY <1>1, <1>3, FrameFields, ConfigType
  <2>2. f.pos \in 1 .. Len(Config(f.agent).upstreams)
    BY <1>2, <1>3, <2>1 DEF CallInv
  <2> QED
    BY <2>2, Zenon DEF Facing
<1>5. PICK w : w \in Seq(Frame) /\ StackInv(w, q) /\ NewStack(x, w)
  <2>1. thread \in [Threads -> Thread]
    BY <1>1 DEF TypeInv
  <2>2. CASE e \in c.terminal /\ NewStack(x, SetTop(s, Passed(f, e)))
    BY <1>1, <1>2, <1>3, <1>4, <2>2, PassedHop
  <2>3. ASSUME NEW ok \in BOOLEAN,
               NewStack(x, SetTop(s, Failing(WithHop(f, Hop(f.agent, e, ok)))))
        PROVE  \E w : w \in Seq(Frame) /\ StackInv(w, q) /\ NewStack(x, w)
    BY <1>1, <1>2, <1>3, <1>4, <2>3, FailedHop
  <2>4. CASE /\ e \notin c.terminal /\ Owner[e] \in active /\ Url[e] # None
             /\ e # Home[f.agent] /\ Owner[e] \in Keyed
             /\ NewStack(x, Append(SetTop(s, Asking(f, e)), NewFrame(Url[e])))
    <3>1. e \in Endpoint
      BY <1>1, <1>3, <1>4, FacingType
    <3>2. Url[e] \in Resolver
      BY <2>4, <3>1, Parameters
    <3>3. Owner[e] \in since[q]
      BY <1>1, <1>2, <2>4
    <3> QED
      BY <1>1, <1>2, <1>3, <1>4, <2>4, <3>2, <3>3, AskStack
  <2> QED
    BY <1>2, <1>4, <2>1, <2>2, <2>3, <2>4, HopCases
<1>6. PICK u : u = [thread[x] EXCEPT !.stack = w]
  OBVIOUS
<1>7. u \in Thread /\ u.stack = w /\ u.step = thread[x].step
  BY <1>1, <1>5, <1>6, StackSet
<1>8. ThreadWith(u, x[1], First[x[2]])
  BY <1>1, <1>2, <1>5, <1>7, FetchOn
<1>9. thread' = [thread EXCEPT ![x] = u] /\ thread[x].step \notin {"none", "done"} /\ u.step # "none"
  BY <1>5, <1>6, <1>7 DEF NewStack
<1> QED
  BY <1>1, <1>7, <1>8, <1>9, OneThread

\* The Agent of the upstream has answered.
Answered(t, C) == [t EXCEPT !.stack = <<>>, !.payload = C, !.step = "check"]

\* What it becomes.
LEMMA AnsweredFields ==
    ASSUME NEW t \in Thread, NEW C \in Seq(Item), NEW u, u = Answered(t, C)
    PROVE  u \in Thread /\ u.stack = <<>> /\ u.payload = C /\ u.step = "check"
<1>1. "check" \in Step
  BY DEF Step
<1>2. PICK z, a : z \in Seq(Frame) /\ a \in Step /\ z = <<>> /\ a = "check"
  <2>1. <<>> \in Seq(Frame)
    OBVIOUS
  <2> QED
    BY <1>1, <2>1, Zenon
<1>3. u = Become(t, z, C, a)
  BY <1>2, Zenon DEF Answered, Become
<1>4. u \in Thread /\ u.stack = z /\ u.payload = C /\ u.step = a
  <2>1. z \in Seq(Frame) /\ a \in Step
    BY <1>2
  <2> QED
    BY <1>3, <2>1, ThreadSet
<1> QED
  BY <1>2, <1>4

Returned(x, t, s, n, q, C) ==
    \/ n = 1 /\ thread' = [thread EXCEPT ![x] = Answered(t, C)]
    \/ /\ n # 1 /\ PayloadValid(C, Config(s[n - 1].agent).upstreams[s[n - 1].pos], q)
       /\ thread' = [thread EXCEPT ![x] = [t EXCEPT !.stack =
                        CutTo(s, n - 1, WithChain(s[n - 1], C, C[1].node.final))]]
    \/ thread' = [thread EXCEPT ![x] = Cut(t, n)]

\* AgentReturn in terms of these steps.
LEMMA ReturnCases ==
    ASSUME NEW x \in Threads, AgentReturn(x), NEW t, t = thread[x], NEW s, s = t.stack,
           NEW n, n = Len(s), NEW q, q = x[1], NEW C, C = BuiltFrom(Top(s), q)
    PROVE  Returned(x, t, s, n, q, C)
<1>1. CASE n = 1
  BY <1>1, Zenon DEF AgentReturn, Answered, Returned
<1>2. CASE n # 1 /\ PayloadValid(C, Config(s[n - 1].agent).upstreams[s[n - 1].pos], q)
  BY <1>2, Zenon DEF AgentReturn, CutTo, WithChain, Returned
<1>3. CASE n # 1 /\ ~PayloadValid(C, Config(s[n - 1].agent).upstreams[s[n - 1].pos], q)
  BY <1>3, Zenon DEF AgentReturn, Returned
<1> QED
  BY <1>1, <1>2, <1>3, Zenon

\* An Agent has looked at all its upstreams.
LEMMA AgentReturnKeeps ==
    ASSUME ChainInv, NEW x \in Threads, thread[x].step = "fetch", AgentReturn(x),
           ~(Top(thread[x].stack).pos <= Len(Config(Top(thread[x].stack).agent).upstreams)),
           version' = version, active' = active, query' = query, since' = since,
           context' = context, generation' = generation
    PROVE  ChainInv'
<1>1. /\ TypeInv /\ thread[x] \in Thread /\ ThreadWith(thread[x], x[1], First[x[2]])
      /\ thread[x].stack \in Seq(Frame) /\ StackInv(thread[x].stack, x[1])
      /\ x[1] \in Query /\ active \subseteq since[x[1]]
      /\ context \in [Elements(First) -> Seq(Item)] /\ generation \in Nat
  BY Fetching
<1>2. PICK t, s, n, q, e : /\ t = thread[x] /\ s = t.stack /\ n = Len(s) /\ q = x[1]
                           /\ e = First[x[2]]
  OBVIOUS
<1>3. PICK f, C : f = Top(s) /\ C = BuiltFrom(f, q)
  OBVIOUS
<1>4. /\ t \in Thread /\ t.step = "fetch" /\ ThreadWith(t, q, e) /\ s \in Seq(Frame)
      /\ StackInv(s, q) /\ q \in Query
  BY <1>1, <1>2
<1>0. TypeInv
  BY <1>1
<1>5. n \in Nat \ {0} /\ DOMAIN s = 1 .. n /\ f = s[n] /\ f \in Frame
  BY <1>2, <1>3, <1>4, StackParts DEF Top
<1>6. f.pos > Len(Config(f.agent).upstreams)
  <2>1. f.pos \in Nat /\ Len(Config(f.agent).upstreams) \in Nat
    BY <1>1, <1>5, FrameFields, ConfigType
  <2> QED
    BY <1>2, <1>3, <2>1
<1>7. C \in Seq(Item) /\ Built(C, q)
  <2>1. s[n].pos > Len(Config(s[n].agent).upstreams) /\ C = BuiltFrom(s[n], q)
    BY <1>3, <1>5, <1>6
  <2>2. s \in Seq(Frame) /\ StackInv(s, q) /\ q \in Query /\ n = Len(s)
    BY <1>2, <1>4
  <2> QED
    BY <1>0, <2>1, <2>2, Answer, Zenon
<1>8. PICK u : /\ thread' = [thread EXCEPT ![x] = u] /\ u \in Thread /\ u.step # "none"
               /\ ThreadWith(u, q, e)
  <2>1. CASE n = 1 /\ thread' = [thread EXCEPT ![x] = Answered(t, C)]
    <3>1. PICK u : u = Answered(t, C)
      OBVIOUS
    <3>2. u \in Thread /\ u.stack = <<>> /\ u.payload = C /\ u.step = "check"
      BY <1>4, <1>7, <3>1, AnsweredFields
    <3>3. active \subseteq since[q] /\ Owner[e] \in since[q]
      BY <1>4 DEF ThreadWith
    <3>4. ThreadWith(u, q, e)
      BY <1>7, <3>2, <3>3 DEF ThreadWith
    <3> QED
      BY <2>1, <3>1, <3>2, <3>4
  <2>2. CASE /\ n # 1 /\ PayloadValid(C, Config(s[n - 1].agent).upstreams[s[n - 1].pos], q)
             /\ thread' = [thread EXCEPT ![x] = [t EXCEPT !.stack =
                              CutTo(s, n - 1, WithChain(s[n - 1], C, C[1].node.final))]]
    <3>1. PICK m : m = n - 1
      OBVIOUS
    <3>2. PICK w : w = CutTo(s, m, WithChain(s[m], C, C[1].node.final))
      OBVIOUS
    <3>3. PICK u : u = [t EXCEPT !.stack = w]
      OBVIOUS
    <3>4. w \in Seq(Frame) /\ StackInv(w, q)
      <4>1. m = Len(s) - 1 /\ m # 0
        <5>1. n # 1
          BY <2>2, Zenon
        <5>2. n \in Nat
          BY <1>5
        <5>3. m # 0
          BY <3>1, <5>1, <5>2
        <5> QED
          BY <1>2, <3>1, <5>3
      <4>2. /\ Top(s).pos > Len(Config(Top(s).agent).upstreams) /\ C = BuiltFrom(Top(s), q)
            /\ PayloadValid(C, Config(s[m].agent).upstreams[s[m].pos], q)
        BY <1>3, <1>6, <2>2, <3>1
      <4> QED
        BY <1>1, <1>4, <3>2, <4>1, <4>2, ReturnStack
    <3>5. u \in Thread /\ u.stack = w /\ u.step = t.step
      BY <1>4, <3>3, <3>4, StackSet
    <3>6. ThreadWith(u, q, e)
      BY <1>4, <3>4, <3>5, FetchOn
    <3>7. thread' = [thread EXCEPT ![x] = u]
      BY <2>2, <3>1, <3>2, <3>3, Zenon
    <3> QED
      BY <1>4, <3>5, <3>6, <3>7
  <2>3. CASE thread' = [thread EXCEPT ![x] = Cut(t, n)]
    <3>1. PICK u : u = Cut(t, n)
      OBVIOUS
    <3>2. n \in DOMAIN t.stack
      BY <1>2, <1>5
    <3>3. u \in Thread /\ u.step # "none" /\ ThreadWith(u, q, e) /\ Remains(u, t, n)
      BY <1>1, <1>4, <3>1, <3>2, CutThread
    <3> QED
      BY <2>3, <3>1, <3>3
  <2>4. C = BuiltFrom(Top(s), q)
    BY <1>3
  <2>5. Returned(x, t, s, n, q, C)
    BY <1>2, <2>4, ReturnCases
  <2> QED
    BY <2>1, <2>2, <2>3, <2>5, Zenon DEF Returned
<1>9. thread[x].step \notin {"none", "done"} /\ ThreadWith(u, x[1], First[x[2]])
  BY <1>2, <1>8
<1> QED
  BY <1>1, <1>8, <1>9, OneThread

\* Agent
LEMMA AgentKeeps ==
    ASSUME ChainInv, NEW x \in Threads, Agent(x)
    PROVE  ChainInv'
<1>1. /\ thread[x].step = "fetch"
      /\ version' = version /\ active' = active /\ query' = query /\ since' = since
      /\ context' = context /\ generation' = generation
  BY DEF Agent
<1>2. CASE Top(thread[x].stack).pos <= Len(Config(Top(thread[x].stack).agent).upstreams)
  <2>1. AgentHop(x)
    BY <1>2, Zenon DEF Agent
  <2> QED
    BY <1>1, <1>2, <2>1, AgentHopKeeps
<1>3. CASE ~(Top(thread[x].stack).pos <= Len(Config(Top(thread[x].stack).agent).upstreams))
  <2>1. AgentReturn(x)
    BY <1>3, Zenon DEF Agent
  <2> QED
    BY <1>1, <1>3, <2>1, AgentReturnKeeps
<1> QED
  BY <1>2, <1>3

\* The first request of a thread.
LEMMA FirstStack ==
    ASSUME TypeInv, NEW r \in Resolver, NEW q, NEW s, s = <<NewFrame(r)>>
    PROVE  s \in Seq(Frame) /\ StackInv(s, q)
<1>1. PICK f : f = NewFrame(r)
  OBVIOUS
<1>2. f \in Frame /\ f.agent = r /\ f.downs = <<>> /\ CallInv(f, q, 0)
  BY <1>1, NewCall
<1>3. s \in Seq(Frame) /\ s # <<>> /\ Len(s) = 1 /\ s[1] = f
  BY <1>1, <1>2
<1>4. DOMAIN f.downs = {}
  BY <1>2
<1>5. \A k \in 1 .. Len(s) : k = 1
  BY <1>3
<1>6. NoneWaits(s, 1)
  BY <1>3, <1>4 DEF NoneWaits
<1>7. \A k \in 1 .. Len(s) : NoneWaits(s, k) /\ CallInv(s[k], q, IF k = Len(s) THEN 0 ELSE 1)
  BY <1>2, <1>3, <1>5, <1>6
<1>8. 1 .. (Len(s) - 1) = {}
  BY <1>3
<1>9. \A k \in 1 .. (Len(s) - 1) : Waiting(s[k], s[k + 1], q)
  BY <1>8
<1> QED
  BY <1>3, <1>7, <1>9, Zenon DEF StackInv

Opened(t, s, g) == [t EXCEPT !.step = "fetch", !.stack = s, !.gen = g]

\* A thread that begins to fetch.
LEMMA OpenedFields ==
    ASSUME NEW t \in Thread, NEW s \in Seq(Frame), NEW g \in Nat, NEW u, u = Opened(t, s, g)
    PROVE  u \in Thread /\ u.stack = s /\ u.step = "fetch"
<1> DEFINE F == Seq(Frame)
           D == Seq(Item)
<1>1. /\ t \in [step : Step, stack : F, payload : D, previous : D, gen : Nat]
      /\ s \in F /\ "fetch" \in Step
  BY DEF Thread, Step
<1> HIDE DEF F, D
<1>2. /\ u \in [step : Step, stack : F, payload : D, previous : D, gen : Nat]
      /\ u.stack = s /\ u.step = "fetch"
  BY <1>1 DEF Opened
<1> QED
  BY <1>2 DEF Thread, F, D

Stepped(t, a) == [t EXCEPT !.step = a]

\* A thread that goes on without a call.
LEMMA SteppedFields ==
    ASSUME NEW t \in Thread, NEW a \in Step, NEW u, u = Stepped(t, a)
    PROVE  u \in Thread /\ u.stack = t.stack /\ u.payload = t.payload /\ u.step = a
<1> DEFINE F == Seq(Frame)
           D == Seq(Item)
<1>1. t \in [step : Step, stack : F, payload : D, previous : D, gen : Nat]
  BY DEF Thread
<1> HIDE DEF F, D
<1>2. /\ u \in [step : Step, stack : F, payload : D, previous : D, gen : Nat]
      /\ u.stack = t.stack /\ u.payload = t.payload /\ u.step = a
  BY <1>1 DEF Stepped
<1> QED
  BY <1>2 DEF Thread, F, D

Recording(t, C) == [t EXCEPT !.step = "record", !.previous = C]

\* A thread whose chain passed the checks.
LEMMA RecordingFields ==
    ASSUME NEW t \in Thread, NEW C \in Seq(Item), NEW u, u = Recording(t, C)
    PROVE  u \in Thread /\ u.stack = t.stack /\ u.payload = t.payload /\ u.step = "record"
<1> DEFINE F == Seq(Frame)
           D == Seq(Item)
<1>1. /\ t \in [step : Step, stack : F, payload : D, previous : D, gen : Nat]
      /\ C \in D /\ "record" \in Step
  BY DEF Thread, Step
<1> HIDE DEF F, D
<1>2. /\ u \in [step : Step, stack : F, payload : D, previous : D, gen : Nat]
      /\ u.stack = t.stack /\ u.payload = t.payload /\ u.step = "record"
  BY <1>1 DEF Recording
<1> QED
  BY <1>2 DEF Thread, F, D

\* What is known of a thread.
LEMMA ThreadKnown ==
    ASSUME ChainInv, NEW x \in Threads
    PROVE  /\ TypeInv /\ thread[x] \in Thread /\ ThreadWith(thread[x], x[1], First[x[2]])
           /\ First[x[2]] \in Endpoint /\ First[x[2]] \in Elements(First)
           /\ context \in [Elements(First) -> Seq(Item)] /\ generation \in Nat
<1>1. TypeInv /\ ThreadWith(thread[x], x[1], First[x[2]])
  BY DEF ChainInv, ThreadInv
<1>2. thread[x] \in Thread /\ context \in [Elements(First) -> Seq(Item)] /\ generation \in Nat
  BY <1>1 DEF TypeInv
<1>3. First \in Seq(Endpoint) /\ x[2] \in DOMAIN First
  BY Parameters, ThreadsPair
<1>4. First[x[2]] \in Endpoint /\ First[x[2]] \in Elements(First)
  BY <1>3 DEF Elements
<1> QED
  BY <1>1, <1>2, <1>4

\* ObserveFirst
LEMMA ObserveFirstKeeps ==
    ASSUME ChainInv, NEW x \in Threads, ObserveFirst(x)
    PROVE  ChainInv'
<1>1. /\ TypeInv /\ thread[x] \in Thread /\ ThreadWith(thread[x], x[1], First[x[2]])
      /\ First[x[2]] \in Endpoint /\ First[x[2]] \in Elements(First)
      /\ context \in [Elements(First) -> Seq(Item)] /\ generation \in Nat
  BY ThreadKnown
<1>2. PICK t, q, e : t = thread[x] /\ q = x[1] /\ e = First[x[2]]
  OBVIOUS
<1>3. /\ t.step = "first" /\ version' = version /\ active' = active /\ query' = query
      /\ since' = since /\ context' = context /\ generation' = generation
  BY <1>2 DEF ObserveFirst
<1>4. t \in Thread /\ ThreadWith(t, q, e) /\ e \in Endpoint
  BY <1>1, <1>2
<1>5. active \subseteq since[q] /\ t.stack = <<>>
  BY <1>3, <1>4 DEF ThreadWith
<1>6. PICK u : /\ thread' = [thread EXCEPT ![x] = u] /\ u \in Thread /\ u.step # "none"
               /\ ThreadWith(u, q, e)
  <2>1. CASE Owner[e] \in active /\ Url[e] # None /\ Owner[e] \in Keyed
    <3>1. Url[e] \in Resolver
      BY <1>4, <2>1, Parameters
    <3>2. PICK s : s = <<NewFrame(Url[e])>>
      OBVIOUS
    <3>3. s \in Seq(Frame) /\ StackInv(s, q)
      BY <1>1, <3>1, <3>2, FirstStack
    <3>4. PICK u, g : u = Opened(t, s, g) /\ g = generation
      OBVIOUS
    <3>5. u \in Thread /\ u.stack = s /\ u.step = "fetch"
      <4>1. g \in Nat /\ u = Opened(t, s, g)
        BY <1>1, <3>4
      <4> QED
        BY <1>4, <3>3, <4>1, OpenedFields
    <3>6. thread' = [thread EXCEPT ![x] = u]
      <4>1. thread' = [thread EXCEPT ![x] = Opened(t, <<NewFrame(Url[e])>>, generation)]
        BY <1>2, <2>1, Zenon DEF ObserveFirst, AgentFor, FetchVerificationChain, Opened
      <4> QED
        BY <3>2, <3>4, <4>1, Zenon
    <3>7. ThreadWith(u, q, e)
      BY <1>5, <2>1, <3>3, <3>5 DEF ThreadWith
    <3> QED
      BY <3>5, <3>6, <3>7
  <2>2. CASE ~(Owner[e] \in active /\ Url[e] # None /\ Owner[e] \in Keyed)
    <3>1. PICK u : u = Stepped(t, "failed")
      OBVIOUS
    <3>2. "failed" \in Step
      BY DEF Step
    <3>3. u \in Thread /\ u.stack = t.stack /\ u.payload = t.payload /\ u.step = "failed"
      BY <1>4, <3>1, <3>2, SteppedFields
    <3>4. thread' = [thread EXCEPT ![x] = u]
      BY <1>2, <2>2, <3>1, Zenon DEF ObserveFirst, AgentFor, Stepped
    <3>5. ThreadWith(u, q, e)
      BY <1>5, <3>3 DEF ThreadWith
    <3> QED
      BY <3>3, <3>4, <3>5
  <2> QED
    BY <2>1, <2>2
<1>7. thread[x].step \notin {"none", "done"} /\ ThreadWith(u, x[1], First[x[2]])
  BY <1>2, <1>3, <1>6
<1> QED
  BY <1>1, <1>3, <1>6, <1>7, OneThread

\* CheckChain
LEMMA CheckChainKeeps ==
    ASSUME ChainInv, NEW x \in Threads, CheckChain(x)
    PROVE  ChainInv'
<1>1. /\ TypeInv /\ thread[x] \in Thread /\ ThreadWith(thread[x], x[1], First[x[2]])
      /\ First[x[2]] \in Endpoint /\ First[x[2]] \in Elements(First)
      /\ context \in [Elements(First) -> Seq(Item)] /\ generation \in Nat
  BY ThreadKnown
<1>2. PICK t, q, e, C : t = thread[x] /\ q = x[1] /\ e = First[x[2]] /\ C = context[e]
  OBVIOUS
<1>3. /\ t.step = "check" /\ version' = version /\ active' = active /\ query' = query
      /\ since' = since /\ context' = context /\ generation' = generation
  BY <1>2 DEF CheckChain
<1>4. t \in Thread /\ ThreadWith(t, q, e) /\ C \in Seq(Item)
  BY <1>1, <1>2
<1>5. active \subseteq since[q] /\ t.stack = <<>> /\ Owner[e] \in since[q] /\ Built(t.payload, q)
  BY <1>3, <1>4 DEF ThreadWith
<1>6. PICK u : /\ thread' = [thread EXCEPT ![x] = u] /\ u \in Thread /\ u.step # "none"
               /\ ThreadWith(u, q, e)
  <2>1. CASE thread' = [thread EXCEPT ![x] = Recording(t, C)] /\ ChainValid(t.payload, e, q)
    <3>1. PICK u : u = Recording(t, C)
      OBVIOUS
    <3>2. u \in Thread /\ u.stack = t.stack /\ u.payload = t.payload /\ u.step = "record"
      BY <1>4, <3>1, RecordingFields
    <3>3. PayloadValid(t.payload, e, q)
      BY <2>1, Zenon DEF ChainValid
    <3>4. ThreadWith(u, q, e)
      BY <1>5, <3>2, <3>3 DEF ThreadWith
    <3> QED
      BY <2>1, <3>1, <3>2, <3>4
  <2>2. CASE thread' = [thread EXCEPT ![x] = Stepped(t, "failed")]
    <3>1. PICK u : u = Stepped(t, "failed")
      OBVIOUS
    <3>2. "failed" \in Step
      BY DEF Step
    <3>3. u \in Thread /\ u.stack = t.stack /\ u.payload = t.payload /\ u.step = "failed"
      BY <1>4, <3>1, <3>2, SteppedFields
    <3>4. ThreadWith(u, q, e)
      BY <1>5, <3>3 DEF ThreadWith
    <3> QED
      BY <2>2, <3>1, <3>3, <3>4
  <2>3. \/ thread' = [thread EXCEPT ![x] = Recording(t, C)] /\ ChainValid(t.payload, e, q)
        \/ thread' = [thread EXCEPT ![x] = Stepped(t, "failed")]
    BY <1>2, Zenon DEF CheckChain, Recording, Stepped
  <2> QED
    BY <2>1, <2>2, <2>3
<1>7. thread[x].step \notin {"none", "done"} /\ ThreadWith(u, x[1], First[x[2]])
  BY <1>2, <1>3, <1>6
<1> QED
  BY <1>1, <1>3, <1>6, <1>7, OneThread

\* RecordChain
LEMMA RecordChainKeeps ==
    ASSUME ChainInv, NEW x \in Threads, RecordChain(x)
    PROVE  ChainInv'
<1>1. /\ TypeInv /\ thread[x] \in Thread /\ ThreadWith(thread[x], x[1], First[x[2]])
      /\ First[x[2]] \in Endpoint /\ First[x[2]] \in Elements(First)
      /\ context \in [Elements(First) -> Seq(Item)] /\ generation \in Nat
  BY ThreadKnown
<1>2. PICK t, q, e : t = thread[x] /\ q = x[1] /\ e = First[x[2]]
  OBVIOUS
<1>3. /\ t.step = "record" /\ version' = version /\ active' = active /\ query' = query
      /\ since' = since /\ context' = [context EXCEPT ![e] = t.payload]
      /\ generation' = generation
  BY <1>2 DEF RecordChain
<1>4. t \in Thread /\ ThreadWith(t, q, e) /\ t.payload \in Seq(Item)
  BY <1>1, <1>2, ThreadFields
<1>5. /\ active \subseteq since[q] /\ t.stack = <<>> /\ Owner[e] \in since[q]
      /\ Built(t.payload, q) /\ PayloadValid(t.payload, e, q)
  BY <1>3, <1>4 DEF ThreadWith
<1>6. PICK u : u = Stepped(t, "done")
  OBVIOUS
<1>7. u \in Thread /\ u.stack = t.stack /\ u.payload = t.payload /\ u.step = "done"
  <2>1. "done" \in Step
    BY DEF Step
  <2> QED
    BY <1>4, <1>6, <2>1, SteppedFields
<1>8. ThreadWith(u, q, e)
  BY <1>5, <1>7 DEF ThreadWith
<1>9. thread' = [thread EXCEPT ![x] = u]
  BY <1>2, <1>6, Zenon DEF RecordChain, Stepped
<1>10. context' \in [Elements(First) -> Seq(Item)]
  BY <1>1, <1>3, <1>4
<1>11. /\ thread[x].step \notin {"none", "done"} /\ ThreadWith(u, x[1], First[x[2]])
       /\ u.step # "none" /\ generation' \in Nat
  BY <1>1, <1>2, <1>3, <1>7, <1>8
<1> QED
  BY <1>3, <1>7, <1>9, <1>10, <1>11, OneThread

\* Every non-empty set of numbers has a least element.
LEMMA LeastNumber ==
    ASSUME NEW S \in SUBSET Nat, S # {}
    PROVE  \E n \in S : \A m \in S : n <= m
<1> DEFINE less == OpToRel(<, Nat)
<1>1. IsWellFoundedOn(less, Nat)
  BY NatLessThanWellFounded, Zenon
<1>2. \A n, m \in Nat : m < n => <<m, n>> \in less
  BY DEF OpToRel
<1> HIDE DEF less
<1>3. \E n \in S : \A m \in S : ~(<<m, n>> \in less)
  BY <1>1, WFMin
<1>4. PICK n \in S : \A m \in S : ~(<<m, n>> \in less)
  BY <1>3
<1>5. \A m \in S : n <= m
  <2> TAKE m \in S
  <2>1. ~(m < n)
    BY <1>2, <1>4
  <2> QED
    BY <2>1
<1> QED
  BY <1>5

\* The queries stay as they are.
LEMMA QueriesKept ==
    ASSUME ChainInv, TypeInv', \A y \in Threads : ThreadInv(y)', \A y \in Threads : StepKept(y),
           query' = query, \A q \in Query : since[q] \subseteq since'[q]
    PROVE  ChainInv'
<1>1. \A q \in Query : QueryInv(q)
  BY DEF ChainInv
<1>2. ASSUME NEW q \in Query PROVE QueryInv(q)'
  <2>1. PICK r : r = query[q] /\ r = query'[q]
    OBVIOUS
  <2>2. QueryWith(r, q)
    BY <1>1, <2>1 DEF QueryInv
  <2>3. \A i \in DOMAIN First : StepKept(<<q, i>>)
    BY DEF Threads
  <2>4. QueryWith(r, q)'
    BY <2>2, <2>3, QueryKept
  <2> QED
    BY <2>1, <2>4, Zenon DEF QueryInv
<1> QED
  BY <1>2 DEF ChainInv

\* The calls of a thread that the restarted Agent works in.
CallsOf(t, r) == {k \in DOMAIN t.stack : t.stack[k].agent = r}
FirstCall(t, r) == CHOOSE k \in CallsOf(t, r) : \A j \in CallsOf(t, r) : k <= j

\* None of its calls is in the stack, if there is one.
Without(u, r) == u.step = "fetch" => \A j \in 1 .. Len(u.stack) : u.stack[j].agent # r

\* What is left of a thread has no call of the restarted Agent.
LEMMA CutBefore ==
    ASSUME TypeInv, NEW t \in Thread, NEW q, NEW e, ThreadWith(t, q, e), NEW r,
           CallsOf(t, r) # {}, NEW u, u = Cut(t, FirstCall(t, r))
    PROVE  /\ t.step = "fetch" /\ u \in Thread /\ u.step # "none" /\ ThreadWith(u, q, e)
           /\ Without(u, r)
<1>1. t.stack \in Seq(Frame)
  BY ThreadFields
<1>2. t.step = "fetch"
  BY DEF CallsOf, ThreadWith
<1>3. PICK S : S = CallsOf(t, r)
  OBVIOUS
<1>4. S \in SUBSET Nat /\ S # {} /\ S \subseteq DOMAIN t.stack
  BY <1>1, <1>3 DEF CallsOf
<1>5. PICK k : k = CHOOSE i \in S : \A j \in S : i <= j
  OBVIOUS
<1>6. k \in S /\ \A j \in S : k <= j
  BY <1>4, <1>5, LeastNumber
<1>7. u = Cut(t, k) /\ k \in DOMAIN t.stack /\ k \in Nat
  BY <1>3, <1>4, <1>5, <1>6 DEF FirstCall
<1>8. u \in Thread /\ u.step # "none" /\ ThreadWith(u, q, e) /\ Remains(u, t, k)
  BY <1>2, <1>7, CutThread
<1>9. ASSUME u.step = "fetch", NEW j \in 1 .. Len(u.stack) PROVE u.stack[j].agent # r
  <2>1. j \in 1 .. (k - 1) /\ u.stack[j].agent = t.stack[j].agent
    BY <1>8, <1>9 DEF Remains
  <2>2. j \notin S /\ j \in DOMAIN t.stack
    <3>1. k \in 1 .. Len(t.stack) /\ Len(t.stack) \in Nat /\ DOMAIN t.stack = 1 .. Len(t.stack)
      BY <1>1, <1>7
    <3>2. ~(k <= j) /\ j \in 1 .. Len(t.stack)
      BY <1>7, <2>1, <3>1
    <3> QED
      BY <1>6, <3>1, <3>2
  <2> QED
    BY <1>3, <2>1, <2>2 DEF CallsOf
<1> QED
  BY <1>2, <1>8, <1>9, Zenon DEF Without

\* Reconfigure
LEMMA ReconfigureKeeps ==
    ASSUME ChainInv, NEW r \in Resolver, NEW v \in DOMAIN Configs[r], Reconfigure(r, v)
    PROVE  ChainInv'
<1>1. TypeInv /\ \A y \in Threads : ThreadInv(y)
  BY DEF ChainInv
<1>2. /\ version' = [version EXCEPT ![r] = v] /\ active' = active /\ query' = query
      /\ since' = since /\ context' = context /\ generation' = generation
  BY DEF Reconfigure
<1>3. /\ thread \in [Threads -> Thread] /\ version \in [Resolver -> Nat]
      /\ \A p \in Resolver : version[p] \in DOMAIN Configs[p]
  BY <1>1 DEF TypeInv
<1>4. thread' = [x \in Threads |->
          IF CallsOf(thread[x], r) = {} THEN thread[x]
          ELSE Cut(thread[x], FirstCall(thread[x], r))]
  BY Zenon DEF Reconfigure, CallsOf, FirstCall
<1>5. \A p : p # r => Same(p)
  BY <1>2, <1>3 DEF Same
<1>6. ASSUME NEW y \in Threads PROVE thread'[y] \in Thread /\ ThreadInv(y)' /\ StepKept(y)
  <2>1. PICK t, q, e, u : t = thread[y] /\ q = y[1] /\ e = First[y[2]] /\ u = thread'[y]
    OBVIOUS
  <2>2. t \in Thread /\ ThreadWith(t, q, e)
    BY <1>1, <1>3, <2>1 DEF ThreadInv
  <2>3. /\ u \in Thread /\ ThreadWith(u, q, e)
        /\ u.step = "fetch" => \A j \in 1 .. Len(u.stack) : u.stack[j].agent # r
        /\ u.step = "none" <=> t.step = "none"
        /\ t.step = "done" => u.step = "done"
    <3>1. CASE CallsOf(t, r) = {}
      <4>1. u = t
        BY <1>4, <2>1, <3>1
      <4>2. t.stack \in Seq(Frame)
        BY <2>2, ThreadFields
      <4>3. \A j \in 1 .. Len(t.stack) : t.stack[j].agent # r
        BY <3>1, <4>2 DEF CallsOf
      <4> QED
        BY <2>2, <4>1, <4>3
    <3>2. CASE CallsOf(t, r) # {}
      <4>1. u = Cut(t, FirstCall(t, r))
        BY <1>4, <2>1, <3>2, Zenon
      <4>2. /\ t.step = "fetch" /\ u \in Thread /\ u.step # "none" /\ ThreadWith(u, q, e)
            /\ Without(u, r)
        <5>1. TypeInv
          BY <1>1
        <5> QED
          BY <2>2, <3>2, <4>1, <5>1, CutBefore
      <4> QED
        BY <4>2 DEF Without
    <3> QED
      BY <3>1, <3>2
  <2>4. u.step = "fetch" => \A j \in 1 .. Len(u.stack) : Same(u.stack[j].agent)
    BY <1>5, <2>3
  <2>5. since[q] \subseteq since'[q] /\ (u.step # "none" => active' \subseteq since'[q])
    BY <1>2, <2>3 DEF ThreadWith
  <2>6. ThreadWith(u, q, e)'
    BY <2>3, <2>4, <2>5, ThreadKept
  <2>7. ThreadInv(y)'
    BY <2>1, <2>6, Zenon DEF ThreadInv
  <2> QED
    BY <2>1, <2>3, <2>7 DEF StepKept
<1>7. thread' \in [Threads -> Thread]
  BY <1>4, <1>6
<1>8. TypeInv'
  <2>1. v \in Nat
    BY Parameters
  <2>2. version' \in [Resolver -> Nat] /\ \A p \in Resolver : version'[p] \in DOMAIN Configs[p]
    BY <1>2, <1>3, <2>1
  <2> QED
    BY <1>1, <1>2, <1>7, <2>2 DEF TypeInv
<1> QED
  BY <1>2, <1>6, <1>8, QueriesKept

\* Flip and Invalidate: the threads go on, whatever the Registry has as ACTIVE.
LEMMA RegistryKeeps ==
    ASSUME ChainInv, version' = version, query' = query, thread' = thread, context' = context,
           generation' \in Nat, active' \subseteq Resolver,
           since' \in [Query -> SUBSET Resolver],
           \A q \in Query : since[q] \subseteq since'[q],
           \A q \in Query : active \subseteq since[q] => active' \subseteq since'[q]
    PROVE  ChainInv'
<1>1. TypeInv /\ \A y \in Threads : ThreadInv(y)
  BY DEF ChainInv
<1>2. TypeInv'
  BY <1>1 DEF TypeInv
<1>3. \A p : Same(p)
  BY DEF Same
<1>4. ASSUME NEW y \in Threads PROVE ThreadInv(y)'
  <2>1. PICK t, q, e : t = thread[y] /\ t = thread'[y] /\ q = y[1] /\ e = First[y[2]]
    OBVIOUS
  <2>2. ThreadWith(t, q, e) /\ q \in Query
    BY <1>1, <2>1, ThreadsPair DEF ThreadInv
  <2>3. t.step # "none" => active' \subseteq since'[q]
    BY <2>2 DEF ThreadWith
  <2>4. ThreadWith(t, q, e)'
    BY <1>3, <2>2, <2>3, ThreadKept
  <2> QED
    BY <2>1, <2>4, Zenon DEF ThreadInv
<1>5. \A y \in Threads : StepKept(y)
  BY DEF StepKept
<1> QED
  BY <1>2, <1>4, <1>5, QueriesKept

\* Flip
LEMMA FlipKeeps ==
    ASSUME ChainInv, NEW r \in Resolver, Flip(r)
    PROVE  ChainInv'
<1>1. TypeInv
  BY DEF ChainInv
<1>2. /\ version' = version /\ query' = query /\ thread' = thread /\ context' = context
      /\ generation' = generation
      /\ active' = IF r \in active THEN active \ {r} ELSE active \cup {r}
      /\ since' = [q \in Query |-> since[q] \cup active']
  BY DEF Flip
<1>3. since \in [Query -> SUBSET Resolver] /\ active \subseteq Resolver /\ generation' \in Nat
  BY <1>1, <1>2 DEF TypeInv
<1>4. active' \subseteq Resolver
  BY <1>2, <1>3
<1>5. /\ since' \in [Query -> SUBSET Resolver]
      /\ \A q \in Query : since[q] \subseteq since'[q] /\ active' \subseteq since'[q]
  BY <1>2, <1>3, <1>4
<1> QED
  BY <1>2, <1>3, <1>4, <1>5, RegistryKeeps

\* Invalidate
LEMMA InvalidateKeeps ==
    ASSUME ChainInv, Invalidate
    PROVE  ChainInv'
<1>1. TypeInv
  BY DEF ChainInv
<1>2. /\ version' = version /\ query' = query /\ thread' = thread /\ context' = context
      /\ generation' = generation + 1 /\ active' = active /\ since' = since
  BY DEF Invalidate
<1>3. generation' \in Nat /\ active' \subseteq Resolver /\ since' \in [Query -> SUBSET Resolver]
  BY <1>1, <1>2 DEF TypeInv
<1> QED
  BY <1>2, <1>3, RegistryKeeps

\* A query in another state.
InState(r, a) == [r EXCEPT !.state = a]

\* Nothing else of it changes.
LEMMA InStateFields ==
    ASSUME NEW r \in QueryRecord, NEW a \in State, NEW w, w = InState(r, a)
    PROVE  w \in QueryRecord /\ w.state = a /\ w.at = r.at /\ w.chain = r.chain
<1> DEFINE D == Seq(Item)
<1>1. r \in [at : Nat, state : State, chain : D]
  BY DEF QueryRecord
<1> HIDE DEF D
<1>2. w \in [at : Nat, state : State, chain : D] /\ w.state = a /\ w.at = r.at /\ w.chain = r.chain
  BY <1>1 DEF InState
<1> QED
  BY <1>2 DEF QueryRecord, D

\* A query that observes the upstream at i.
ObservingAt(r, i) == [r EXCEPT !.at = i, !.state = "observe"]

\* Nothing else of it changes.
LEMMA ObservingFields ==
    ASSUME NEW r \in QueryRecord, NEW i \in Nat, NEW w, w = ObservingAt(r, i)
    PROVE  w \in QueryRecord /\ w.state = "observe" /\ w.at = i /\ w.chain = r.chain
<1> DEFINE D == Seq(Item)
<1>1. r \in [at : Nat, state : State, chain : D] /\ "observe" \in State
  BY DEF QueryRecord, State
<1> HIDE DEF D
<1>2. /\ w \in [at : Nat, state : State, chain : D]
      /\ w.state = "observe" /\ w.at = i /\ w.chain = r.chain
  BY <1>1 DEF ObservingAt
<1> QED
  BY <1>2 DEF QueryRecord, D

\* A query that observes its upstream i.
Observes(w, r, i) ==
    w \in QueryRecord /\ w.state = "observe" /\ w.at = i /\ w.chain = r.chain

\* A new attempt makes it one.
LEMMA ObservingOnly ==
    ASSUME NEW r \in QueryRecord, NEW i \in Nat, NEW w, w = ObservingAt(r, i)
    PROVE  Observes(w, r, i)
BY ObservingFields DEF Observes

\* An answer that is released over a chain.
ReleasedOver(r, C) == [r EXCEPT !.state = "released", !.chain = C]

\* Nothing else of it changes.
LEMMA ReleasedFields ==
    ASSUME NEW r \in QueryRecord, NEW C \in Seq(Item), NEW w, w = ReleasedOver(r, C)
    PROVE  w \in QueryRecord /\ w.state = "released" /\ w.at = r.at /\ w.chain = C
<1> DEFINE D == Seq(Item)
<1>1. r \in [at : Nat, state : State, chain : D] /\ "released" \in State /\ C \in D
  BY DEF QueryRecord, State
<1> HIDE DEF D
<1>2. /\ w \in [at : Nat, state : State, chain : D]
      /\ w.state = "released" /\ w.at = r.at /\ w.chain = C
  BY <1>1 DEF ReleasedOver
<1> QED
  BY <1>2 DEF QueryRecord, D

\* What is known of a query.
LEMMA QueryKnown ==
    ASSUME ChainInv, NEW q \in Query
    PROVE  /\ TypeInv /\ query \in [Query -> QueryRecord] /\ query[q] \in QueryRecord
           /\ QueryWith(query[q], q) /\ query[q].at \in Nat /\ generation \in Nat
           /\ thread \in [Threads -> Thread]
<1>1. TypeInv /\ QueryWith(query[q], q)
  BY DEF ChainInv, QueryInv
<1>2. /\ query \in [Query -> QueryRecord] /\ query[q] \in QueryRecord /\ generation \in Nat
      /\ thread \in [Threads -> Thread]
  BY <1>1 DEF TypeInv
<1>3. query[q].at \in Nat
  BY <1>2 DEF QueryRecord
<1> QED
  BY <1>1, <1>2, <1>3

\* One query changes; the threads go on.
LEMMA OneQuery ==
    ASSUME ChainInv, NEW q \in Query, NEW w \in QueryRecord, query' = [query EXCEPT ![q] = w],
           QueryWith(w, q), thread' = thread, version' = version, active' = active,
           since' = since, context' = context, generation' \in Nat
    PROVE  ChainInv'
<1>1. TypeInv /\ (\A y \in Threads : ThreadInv(y)) /\ (\A p \in Query : QueryInv(p))
  BY DEF ChainInv
<1>2. query' \in [Query -> QueryRecord] /\ query'[q] = w
      /\ \A p \in Query : p # q => query'[p] = query[p]
  BY <1>1 DEF TypeInv
<1>3. TypeInv'
  BY <1>1, <1>2 DEF TypeInv
<1>4. \A r : Same(r)
  BY DEF Same
<1>5. ASSUME NEW y \in Threads PROVE ThreadInv(y)'
  <2>1. PICK t, p, e : t = thread[y] /\ t = thread'[y] /\ p = y[1] /\ e = First[y[2]]
    OBVIOUS
  <2>2. ThreadWith(t, p, e)
    BY <1>1, <2>1 DEF ThreadInv
  <2>3. t.step # "none" => active' \subseteq since'[p]
    BY <2>2, Zenon DEF ThreadWith
  <2>4. ThreadWith(t, p, e)'
    BY <1>4, <2>2, <2>3, ThreadKept
  <2> QED
    BY <2>1, <2>4, Zenon DEF ThreadInv
<1>6. ASSUME NEW p \in Query PROVE QueryInv(p)'
  <2>1. PICK r : r = query'[p]
    OBVIOUS
  <2>2. QueryWith(r, p)
    BY <1>1, <1>2, <2>1 DEF QueryInv
  <2>3. \A i \in DOMAIN First : StepKept(<<p, i>>)
    BY DEF StepKept
  <2>4. QueryWith(r, p)'
    BY <2>2, <2>3, QueryKept
  <2> QED
    BY <2>1, <2>4, Zenon DEF QueryInv
<1> QED
  BY <1>3, <1>5, <1>6 DEF ChainInv

\* A query in a state that owes nothing.
LEMMA StateOnly ==
    ASSUME ChainInv, NEW q \in Query, NEW a \in {"servfail", "lost"},
           NEW w, w = InState(query[q], a)
    PROVE  w \in QueryRecord /\ QueryWith(w, q)
<1>1. query[q] \in QueryRecord /\ QueryWith(query[q], q)
  BY QueryKnown
<1>2. a \in State
  BY DEF State
<1>3. w \in QueryRecord /\ w.state = a /\ w.at = query[q].at /\ w.chain = query[q].chain
  BY <1>1, <1>2, InStateFields
<1>4. \A i \in DOMAIN First : i > w.at => thread[<<q, i>>].step = "none"
  BY <1>1, <1>3 DEF QueryWith
<1>5. w.state \notin {"new", "observe", "verify", "released"}
  BY <1>3
<1> QED
  BY <1>3, <1>4, <1>5 DEF QueryWith

\* Overloaded
LEMMA OverloadedKeeps ==
    ASSUME ChainInv, NEW q \in Query, Overloaded(q)
    PROVE  ChainInv'
<1>1. /\ thread' = thread /\ version' = version /\ active' = active /\ since' = since
      /\ context' = context /\ generation' = generation
  BY DEF Overloaded
<1>2. PICK w : w = InState(query[q], "servfail")
  OBVIOUS
<1>3. w \in QueryRecord /\ QueryWith(w, q)
  BY <1>2, StateOnly
<1>4. query' = [query EXCEPT ![q] = w]
  BY <1>2, Zenon DEF Overloaded, InState
<1>5. generation' \in Nat
  BY <1>1, QueryKnown
<1> QED
  BY <1>1, <1>3, <1>4, <1>5, OneQuery

\* Restart
LEMMA RestartKeeps ==
    ASSUME ChainInv, Restart
    PROVE  ChainInv'
<1>1. TypeInv /\ (\A p \in Query : QueryInv(p))
  BY DEF ChainInv
<1>2. /\ version' = version /\ active' = active /\ since' = since /\ generation' = generation
      /\ context' = [e \in Elements(First) |-> <<>>] /\ thread' = [x \in Threads |-> NoThread]
      /\ query' = [q \in Query |->
            IF q \in Inflight THEN [query[q] EXCEPT !.state = "lost"] ELSE query[q]]
  BY DEF Restart, NoChain
<1>3. NoThread \in Thread /\ NoThread.step = "none" /\ NoThread.stack = <<>>
  BY DEF NoThread, NoChain, Thread, Step
<1>4. ASSUME NEW q \in Query PROVE query'[q] \in QueryRecord /\ QueryInv(q)'
  <2>1. PICK r, w : r = query[q] /\ w = query'[q]
    OBVIOUS
  <2>2. r \in QueryRecord /\ QueryWith(r, q)
    BY <1>1, <2>1 DEF TypeInv, QueryInv
  <2>3. /\ w \in QueryRecord /\ w.state \notin {"observe", "verify"}
        /\ w.state = "new" => w.at = 0
        /\ w.state = "released" =>
              w.chain # <<>> /\ w.chain[1].node.id = Owner[First[w.at]] /\ Covered(w.chain, q)
    <3>1. CASE q \in Inflight
      <4>1. w = InState(r, "lost")
        BY <1>2, <2>1, <3>1, Zenon DEF InState
      <4>2. "lost" \in State
        BY DEF State
      <4>3. w \in QueryRecord /\ w.state = "lost" /\ w.at = r.at /\ w.chain = r.chain
        BY <2>2, <4>1, <4>2, InStateFields
      <4> QED
        BY <4>3
    <3>2. CASE q \notin Inflight
      <4>1. w = r /\ r.state \notin {"observe", "verify"}
        BY <1>2, <2>1, <3>2 DEF Inflight
      <4> QED
        BY <2>2, <4>1, Zenon DEF QueryWith
    <3> QED
      BY <3>1, <3>2
  <2>4. \A i \in DOMAIN First : thread'[<<q, i>>].step = "none"
    BY <1>2, <1>3 DEF Threads
  <2>5. w.state = "released" => Covered(w.chain, q)'
    BY <1>2, <2>3, CoveredKept
  <2>6. QueryWith(w, q)'
    BY <2>3, <2>4, <2>5 DEF QueryWith
  <2> QED
    BY <2>1, <2>3, <2>6, Zenon DEF QueryInv
<1>5. TypeInv'
  <2>1. thread' \in [Threads -> Thread]
    BY <1>2, <1>3
  <2>2. query' \in [Query -> QueryRecord]
    BY <1>2, <1>4
  <2>3. context' \in [Elements(First) -> Seq(Item)]
    BY <1>2
  <2> QED
    BY <1>1, <1>2, <2>1, <2>2, <2>3 DEF TypeInv
<1>6. ASSUME NEW y \in Threads PROVE ThreadInv(y)'
  <2>1. thread'[y].step = "none" /\ thread'[y].stack = <<>>
    BY <1>2, <1>3
  <2> QED
    BY <2>1 DEF ThreadInv, ThreadWith
<1> QED
  BY <1>4, <1>5, <1>6 DEF ChainInv

\* A query turns to the upstream at i, for which it has no thread yet.
LEMMA Started ==
    ASSUME ChainInv, NEW q \in Query, NEW i \in DOMAIN First, i > query[q].at,
           NEW x, x = <<q, i>>, thread' = [thread EXCEPT ![x] = Stepped(thread[x], "first")],
           NEW w, w = ObservingAt(query[q], i), query' = [query EXCEPT ![q] = w],
           version' = version, active' = active, context' = context, generation' \in Nat,
           since' \in [Query -> SUBSET Resolver],
           \A p \in Query : p # q => since'[p] = since[p],
           active \subseteq since'[q],
           \A j \in DOMAIN First : thread[<<q, j>>].step # "none" => since[q] \subseteq since'[q]
    PROVE  ChainInv'
<1>1. TypeInv /\ (\A y \in Threads : ThreadInv(y)) /\ (\A p \in Query : QueryInv(p))
  BY DEF ChainInv
<1>2. /\ query \in [Query -> QueryRecord] /\ query[q] \in QueryRecord /\ QueryWith(query[q], q)
      /\ query[q].at \in Nat /\ thread \in [Threads -> Thread]
  BY QueryKnown
<1>3. i \in Nat /\ x \in Threads /\ x[1] = q /\ x[2] = i
  BY Parameters DEF Threads
<1>4. thread[x] \in Thread /\ thread[x].step = "none" /\ ThreadWith(thread[x], q, First[i])
  BY <1>1, <1>2, <1>3 DEF QueryWith, ThreadInv
<1>5. PICK u : u = Stepped(thread[x], "first")
  OBVIOUS
<1>6. u \in Thread /\ u.stack = <<>> /\ u.step = "first"
  <2>1. "first" \in Step
    BY DEF Step
  <2>2. u \in Thread /\ u.stack = thread[x].stack /\ u.payload = thread[x].payload /\ u.step = "first"
    BY <1>4, <1>5, <2>1, SteppedFields
  <2>3. thread[x].stack = <<>>
    BY <1>4 DEF ThreadWith
  <2> QED
    BY <2>2, <2>3
<1>7. w \in QueryRecord /\ w.state = "observe" /\ w.at = i /\ w.chain = query[q].chain
  <2>1. query[q] \in QueryRecord /\ i \in Nat
    BY <1>2, <1>3
  <2> QED
    <3>1. Observes(w, query[q], i)
      BY <2>1, ObservingOnly
    <3> QED
      BY <3>1, Zenon DEF Observes
<1>8. /\ thread' \in [Threads -> Thread] /\ thread'[x] = u
      /\ \A y \in Threads : y # x => thread'[y] = thread[y]
      /\ query' \in [Query -> QueryRecord] /\ query'[q] = w
      /\ \A p \in Query : p # q => query'[p] = query[p]
  BY <1>2, <1>3, <1>5, <1>6, <1>7
<1>9. TypeInv'
  BY <1>1, <1>8 DEF TypeInv
<1>10. \A r : Same(r)
  BY DEF Same
<1>11. ASSUME NEW y \in Threads PROVE ThreadInv(y)'
  <2>1. PICK t, p, e : t = thread'[y] /\ p = y[1] /\ e = First[y[2]]
    OBVIOUS
  <2>2. CASE y = x
    <3>1. t.step = "first" /\ t.stack = <<>> /\ active' \subseteq since'[p]
      BY <1>3, <1>6, <1>8, <2>1, <2>2
    <3>2. ThreadWith(t, p, e)'
      BY <3>1 DEF ThreadWith
    <3> QED
      BY <2>1, <3>2, Zenon DEF ThreadInv
  <2>3. CASE y # x /\ t.step = "none"
    <3>1. t.stack = <<>>
      BY <1>1, <1>8, <2>1, <2>3 DEF ThreadInv, ThreadWith
    <3>2. ThreadWith(t, p, e)'
      BY <2>3, <3>1 DEF ThreadWith
    <3> QED
      BY <2>1, <3>2, Zenon DEF ThreadInv
  <2>4. CASE y # x /\ t.step # "none"
    <3>1. t = thread[y] /\ ThreadWith(t, p, e) /\ p \in Query /\ y = <<p, y[2]>> /\ y[2] \in DOMAIN First
      BY <1>1, <1>8, <2>1, <2>4, ThreadsPair DEF ThreadInv
    <3>2. since[p] \subseteq since'[p]
      BY <2>4, <3>1
    <3>3. active' \subseteq since'[p]
      BY <2>4, <3>1, <3>2 DEF ThreadWith
    <3>4. ThreadWith(t, p, e)'
      BY <1>10, <3>1, <3>2, <3>3, ThreadKept
    <3> QED
      BY <2>1, <3>4, Zenon DEF ThreadInv
  <2> QED
    BY <2>2, <2>3, <2>4
<1>12. ASSUME NEW p \in Query PROVE QueryInv(p)'
  <2>1. CASE p = q
    <3>1. \A j \in DOMAIN First : j > i => thread'[<<q, j>>].step = "none"
      <4>1. SUFFICES ASSUME NEW j \in DOMAIN First, j > i PROVE thread'[<<q, j>>].step = "none"
        OBVIOUS
      <4>2. j > query[q].at /\ j # i
        BY <1>2, <1>3, <4>1, Parameters
      <4>3. <<q, j>> \in Threads /\ <<q, j>> # x
        BY <4>2 DEF Threads
      <4> QED
        BY <1>2, <1>8, <4>2, <4>3 DEF QueryWith
    <3>2. thread'[<<q, i>>].step = "first"
      BY <1>6, <1>8
    <3>3. QueryWith(w, q)'
      BY <1>7, <3>1, <3>2 DEF QueryWith
    <3> QED
      BY <1>8, <2>1, <3>3, Zenon DEF QueryInv
  <2>2. CASE p # q
    <3>1. PICK r : r = query[p] /\ r = query'[p]
      BY <1>8, <2>2
    <3>2. QueryWith(r, p)
      BY <1>1, <3>1 DEF QueryInv
    <3>3. \A j \in DOMAIN First : StepKept(<<p, j>>)
      <4>1. \A j \in DOMAIN First : <<p, j>> \in Threads /\ <<p, j>> # x
        BY <2>2 DEF Threads
      <4> QED
        BY <1>8, <4>1 DEF StepKept
    <3>4. since[p] \subseteq since'[p]
      BY <2>2
    <3>5. QueryWith(r, p)'
      BY <3>2, <3>3, <3>4, QueryKept
    <3> QED
      BY <3>1, <3>5, Zenon DEF QueryInv
  <2> QED
    BY <2>1, <2>2
<1> QED
  BY <1>9, <1>11, <1>12 DEF ChainInv

\* Begin
LEMMA BeginKeeps ==
    ASSUME ChainInv, NEW q \in Query, Begin(q)
    PROVE  ChainInv'
<1>1. /\ query[q].state = "new" /\ since' = [since EXCEPT ![q] = active]
      /\ version' = version /\ active' = active /\ context' = context /\ generation' = generation
  BY DEF Begin
<1>2. /\ TypeInv /\ query \in [Query -> QueryRecord] /\ query[q] \in QueryRecord
      /\ QueryWith(query[q], q) /\ query[q].at \in Nat /\ generation \in Nat
      /\ thread \in [Threads -> Thread]
  BY QueryKnown
<1>3. query[q].at = 0
  BY <1>1, <1>2 DEF QueryWith
<1>4. 1 \in DOMAIN First /\ 1 > query[q].at
  BY <1>3, Parameters
<1>5. PICK x, w : x = <<q, 1>> /\ w = ObservingAt(query[q], 1)
  OBVIOUS
<1>6. thread' = [thread EXCEPT ![x] = Stepped(thread[x], "first")]
  BY <1>5, Zenon DEF Begin, Stepped
<1>7. query' = [query EXCEPT ![q] = w]
  BY <1>5, Zenon DEF Begin, ObservingAt
<1>8. /\ since' \in [Query -> SUBSET Resolver] /\ active \subseteq since'[q]
      /\ \A p \in Query : p # q => since'[p] = since[p]
  BY <1>1, <1>2 DEF TypeInv
<1>9. \A j \in DOMAIN First : thread[<<q, j>>].step # "none" => since[q] \subseteq since'[q]
  <2>1. \A j \in DOMAIN First : j > 0
    BY Parameters
  <2> QED
    BY <1>2, <1>3, <2>1 DEF QueryWith
<1>10. generation' \in Nat
  BY <1>1, <1>2
<1> QED
  BY <1>1, <1>4, <1>5, <1>6, <1>7, <1>8, <1>9, <1>10, Started

\* GoOn: the next upstream, or none.
LEMMA GoOnKeeps ==
    ASSUME ChainInv, NEW q \in Query, query[q].state \in {"observe", "verify"}, GoOn(q),
           version' = version, active' = active, since' = since, context' = context,
           generation' \in Nat
    PROVE  ChainInv'
<1>1. /\ TypeInv /\ query \in [Query -> QueryRecord] /\ query[q] \in QueryRecord
      /\ QueryWith(query[q], q) /\ query[q].at \in Nat /\ generation \in Nat
      /\ thread \in [Threads -> Thread]
  BY QueryKnown
<1>2. PICK i : i = query[q].at + 1
  OBVIOUS
<1>3. CASE i \in DOMAIN First
  <2>1. PICK x, w : x = <<q, i>> /\ w = ObservingAt(query[q], i)
    OBVIOUS
  <2>2. thread' = [thread EXCEPT ![x] = Stepped(thread[x], "first")]
    BY <1>2, <1>3, <2>1, Zenon DEF GoOn, Stepped
  <2>3. query' = [query EXCEPT ![q] = w]
    <3>1. query' = [query EXCEPT ![q].at = i, ![q].state = "observe"]
      BY <1>2, <1>3, Zenon DEF GoOn
    <3> QED
      BY <1>1, <2>1, <3>1 DEF ObservingAt
  <2>4. i > query[q].at
    BY <1>1, <1>2
  <2>5. since' \in [Query -> SUBSET Resolver] /\ \A p \in Query : p # q => since'[p] = since[p]
    BY <1>1 DEF TypeInv
  <2>6. active \subseteq since'[q]
    <3>1. query[q].at \in DOMAIN First /\ thread[<<q, query[q].at>>].step # "none"
      BY <1>1 DEF QueryWith
    <3>2. PICK y : y = <<q, query[q].at>>
      OBVIOUS
    <3>3. y \in Threads /\ y[1] = q
      BY <3>1, <3>2 DEF Threads
    <3>4. ThreadWith(thread[y], q, First[y[2]])
      BY <3>3 DEF ChainInv, ThreadInv
    <3> QED
      BY <3>1, <3>2, <3>4 DEF ThreadWith
  <2>7. \A j \in DOMAIN First : thread[<<q, j>>].step # "none" => since[q] \subseteq since'[q]
    OBVIOUS
  <2> QED
    BY <1>3, <2>1, <2>2, <2>3, <2>4, <2>5, <2>6, <2>7, Started
<1>4. CASE i \notin DOMAIN First
  <2>1. PICK w : w = InState(query[q], "servfail")
    OBVIOUS
  <2>2. w \in QueryRecord /\ QueryWith(w, q)
    BY <2>1, StateOnly
  <2>3. query' = [query EXCEPT ![q] = w]
    BY <1>2, <1>4, <2>1, Zenon DEF GoOn, InState
  <2>4. thread' = thread
    BY <1>2, <1>4 DEF GoOn
  <2> QED
    BY <2>2, <2>3, <2>4, OneQuery
<1> QED
  BY <1>3, <1>4

\* Verdict: an answer is released over the chain of a thread that is done.
LEMMA VerdictKeeps ==
    ASSUME ChainInv, NEW q \in Query, query[q].state \in {"observe", "verify"},
           thread[Mine(q)].step = "done", NEW firstOk, NEW gen, Verdict(q, firstOk, gen),
           version' = version, active' = active, since' = since, context' = context,
           generation' \in Nat
    PROVE  ChainInv'
<1>1. /\ TypeInv /\ query \in [Query -> QueryRecord] /\ query[q] \in QueryRecord
      /\ QueryWith(query[q], q) /\ query[q].at \in Nat /\ generation \in Nat
      /\ thread \in [Threads -> Thread]
  BY QueryKnown
<1>2. PICK x, C, e : x = Mine(q) /\ C = thread[x].payload /\ e = First[query[q].at]
  OBVIOUS
<1>3. CASE GoOn(q)
  BY <1>3, GoOnKeeps
<1>4. CASE /\ AllAccepted(C) /\ thread' = thread
           /\ query' = [query EXCEPT ![q].state = "released", ![q].chain = C]
  <2>1. query[q].at \in DOMAIN First
    BY <1>1 DEF QueryWith
  <2>2. x \in Threads /\ x[1] = q /\ x[2] = query[q].at
    BY <1>2, <2>1 DEF Threads, Mine
  <2>3. thread[x] \in Thread /\ ThreadWith(thread[x], q, e) /\ thread[x].step = "done"
    BY <1>1, <1>2, <2>2 DEF ChainInv, ThreadInv
  <2>4. C \in Seq(Item)
    BY <1>2, <2>3, ThreadFields
  <2>5. Owner[e] \in since[q] /\ Built(C, q) /\ PayloadValid(C, e, q)
    BY <1>2, <2>3 DEF ThreadWith
  <2>6. C # <<>>
    BY <2>5 DEF Built
  <2>7. C[1].node.final /\ C[1].node.id = Owner[e]
    <3>1. 1 \in DOMAIN C
      BY <2>4, <2>6
    <3> QED
      BY <1>4, <2>5, <3>1 DEF AllAccepted, PayloadValid, NodeOf
  <2>8. Covered(C, q)
    BY <2>4, <2>5, <2>7, BuiltCovered
  <2>9. PICK w : w = ReleasedOver(query[q], C)
    OBVIOUS
  <2>10. w \in QueryRecord /\ w.state = "released" /\ w.at = query[q].at /\ w.chain = C
    BY <1>1, <2>4, <2>9, ReleasedFields
  <2>11. query' = [query EXCEPT ![q] = w]
    BY <1>1, <1>4, <2>9 DEF ReleasedOver
  <2>12. \A i \in DOMAIN First : i > w.at => thread[<<q, i>>].step = "none"
    BY <1>1, <2>10 DEF QueryWith
  <2>13. QueryWith(w, q)
    BY <1>2, <2>6, <2>7, <2>8, <2>10, <2>12 DEF QueryWith
  <2> QED
    BY <1>4, <2>10, <2>11, <2>13, OneQuery
<1> QED
  BY <1>2, <1>3, <1>4, Zenon DEF Verdict

\* ObservationFails
LEMMA ObservationFailsKeeps ==
    ASSUME ChainInv, NEW q \in Query, ObservationFails(q)
    PROVE  ChainInv'
<1>1. /\ query[q].state \in {"observe", "verify"} /\ GoOn(q)
      /\ version' = version /\ active' = active /\ since' = since /\ context' = context
      /\ generation' = generation
  BY DEF ObservationFails, Observing
<1>2. generation' \in Nat
  BY <1>1, QueryKnown
<1> QED
  BY <1>1, <1>2, GoOnKeeps

\* Gather
LEMMA GatherKeeps ==
    ASSUME ChainInv, NEW q \in Query, Gather(q)
    PROVE  ChainInv'
<1>1. /\ query[q].state = "observe" /\ thread[Mine(q)].step = "done"
      /\ version' = version /\ active' = active /\ since' = since /\ context' = context
  BY DEF Gather, Observing
<1>2. query[q].state \in {"observe", "verify"}
  BY <1>1
<1>3. /\ query[q] \in QueryRecord /\ QueryWith(query[q], q) /\ generation \in Nat
  BY QueryKnown
<1>4. CASE invalidated # {}
  <2>1. generation' = generation + 1 /\ thread' = thread
    BY <1>4 DEF Gather, ConsumeInvalidated
  <2>2. PICK w : w = InState(query[q], "verify")
    OBVIOUS
  <2>3. w \in QueryRecord /\ w.state = "verify" /\ w.at = query[q].at /\ w.chain = query[q].chain
    <3>1. "verify" \in State
      BY DEF State
    <3> QED
      BY <1>3, <2>2, <3>1, InStateFields
  <2>4. query' = [query EXCEPT ![q] = w]
    BY <1>4, <2>2, Zenon DEF Gather, InState
  <2>5. QueryWith(w, q)
    <3>1. /\ \A i \in DOMAIN First : i > w.at => thread[<<q, i>>].step = "none"
          /\ w.at \in DOMAIN First
      BY <1>1, <1>3, <2>3 DEF QueryWith
    <3>2. thread[<<q, w.at>>].step = "done"
      BY <1>1, <2>3 DEF Mine
    <3> QED
      BY <2>3, <3>1, <3>2 DEF QueryWith
  <2>6. generation' \in Nat
    BY <1>3, <2>1
  <2> QED
    BY <1>1, <2>1, <2>3, <2>4, <2>5, <2>6, OneQuery
<1>5. CASE invalidated = {}
  <2>1. Verdict(q, TRUE, thread[Mine(q)].gen) \/ GoOn(q)
    BY <1>5, Zenon DEF Gather
  <2>2. generation' \in Nat
    BY <1>3, <1>5 DEF Gather
  <2>3. CASE GoOn(q)
    BY <1>1, <1>2, <2>2, <2>3, GoOnKeeps
  <2>4. CASE Verdict(q, TRUE, thread[Mine(q)].gen)
    BY <1>1, <1>2, <2>2, <2>4, VerdictKeeps
  <2> QED
    BY <2>1, <2>3, <2>4
<1> QED
  BY <1>4, <1>5

\* VerifyAgain
LEMMA VerifyAgainKeeps ==
    ASSUME ChainInv, NEW q \in Query, VerifyAgain(q)
    PROVE  ChainInv'
<1>1. /\ query[q].state = "verify"
      /\ version' = version /\ active' = active /\ since' = since /\ context' = context
      /\ generation' = generation
      /\ Verdict(q, Owner[First[query[q].at]] \in active, generation) \/ GoOn(q)
  BY Zenon DEF VerifyAgain
<1>2. query[q].state \in {"observe", "verify"}
  BY <1>1
<1>3. QueryWith(query[q], q) /\ generation' \in Nat
  BY <1>1, QueryKnown
<1>4. thread[Mine(q)].step = "done"
  BY <1>1, <1>3 DEF QueryWith, Mine
<1>5. CASE GoOn(q)
  BY <1>1, <1>2, <1>3, <1>5, GoOnKeeps
<1>6. CASE Verdict(q, Owner[First[query[q].at]] \in active, generation)
  BY <1>1, <1>2, <1>3, <1>4, <1>6, VerdictKeeps
<1> QED
  BY <1>1, <1>5, <1>6

\* A new thread has its type.
LEMMA NoThreadType == NoThread \in Thread /\ NoThread.step = "none" /\ NoThread.stack = <<>>
BY DEF NoThread, NoChain, Thread, Step

\* The invariant holds at the beginning.
LEMMA InitHolds == Init => ChainInv
<1> SUFFICES ASSUME Init PROVE ChainInv
  OBVIOUS
<1>1. TypeInv
  <2>1. version \in [Resolver -> Nat] /\ \A r \in Resolver : version[r] \in DOMAIN Configs[r]
    BY Parameters DEF Init
  <2>2. query \in [Query -> QueryRecord]
    BY DEF Init, QueryRecord, State, NoChain
  <2>3. thread \in [Threads -> Thread]
    BY NoThreadType DEF Init
  <2>4. context \in [Elements(First) -> Seq(Item)] /\ generation \in Nat
    BY DEF Init, NoChain
  <2>5. active \subseteq Resolver /\ since \in [Query -> SUBSET Resolver]
    BY DEF Init
  <2> QED
    BY <2>1, <2>2, <2>3, <2>4, <2>5 DEF TypeInv
<1>2. \A x \in Threads : thread[x].step = "none" /\ thread[x].stack = <<>>
  BY NoThreadType DEF Init
<1>3. ASSUME NEW x \in Threads PROVE ThreadInv(x)
  BY <1>2 DEF ThreadInv, ThreadWith
<1>4. ASSUME NEW q \in Query PROVE QueryInv(q)
  <2>1. query[q].state = "new" /\ query[q].at = 0
    BY DEF Init
  <2>2. \A i \in DOMAIN First : thread[<<q, i>>].step = "none"
    BY <1>2 DEF Threads
  <2>3. PICK r : r = query[q]
    OBVIOUS
  <2>4. r.state = "new" /\ r.at = 0
    BY <2>1, <2>3
  <2>5. QueryWith(r, q)
    BY <2>2, <2>4 DEF QueryWith
  <2> QED
    BY <2>3, <2>5 DEF QueryInv
<1> QED
  BY <1>1, <1>3, <1>4 DEF ChainInv

\* Every step keeps it.
LEMMA NextKeeps == ChainInv /\ [Next]_vars => ChainInv'
<1> SUFFICES ASSUME ChainInv, [Next]_vars PROVE ChainInv'
  OBVIOUS
<1>1. CASE Next
  <2>1. CASE \E q \in Query : Begin(q)
    BY <2>1, BeginKeeps
  <2>2. CASE \E q \in Query : Overloaded(q)
    BY <2>2, OverloadedKeeps
  <2>3. CASE \E q \in Query : Coordinator(q)
    BY <2>3, ObservationFailsKeeps, GatherKeeps, VerifyAgainKeeps DEF Coordinator
  <2>4. CASE \E x \in Threads : ObserveFirst(x) \/ CheckChain(x) \/ RecordChain(x)
    BY <2>4, ObserveFirstKeeps, CheckChainKeeps, RecordChainKeeps
  <2>5. CASE \E x \in Threads : Agent(x)
    BY <2>5, AgentKeeps
  <2>6. CASE \E x \in Threads : RequestFails(x)
    BY <2>6, RequestFailsKeeps
  <2>7. CASE \E r \in Resolver : \E v \in DOMAIN Configs[r] : Reconfigure(r, v)
    BY <2>7, ReconfigureKeeps
  <2>8. CASE \E r \in Resolver : Flip(r)
    BY <2>8, FlipKeeps
  <2>9. CASE Invalidate
    BY <2>9, InvalidateKeeps
  <2>10. CASE Restart
    BY <2>10, RestartKeeps
  <2> QED
    BY <1>1, <2>1, <2>2, <2>3, <2>4, <2>5, <2>6, <2>7, <2>8, <2>9, <2>10 DEF Next
<1>2. CASE UNCHANGED vars
  <2>1. /\ version' = version /\ query' = query /\ thread' = thread /\ context' = context
        /\ generation' = generation /\ active' = active /\ since' = since
    BY <1>2 DEF vars
  <2>2. TypeInv
    BY DEF ChainInv
  <2>3. generation' \in Nat /\ active' \subseteq Resolver /\ since' \in [Query -> SUBSET Resolver]
    BY <2>1, <2>2 DEF TypeInv
  <2> QED
    BY <2>1, <2>3, RegistryKeeps
<1> QED
  BY <1>1, <1>2

\* What the Agents' calls and the Wrapper's threads and queries owe each other
\* holds in every state, for all resolvers, configurations, URLs and queries.
THEOREM ChainInvariant == FairSpec => []ChainInv
<1>1. Init => ChainInv
  BY InitHolds
<1>2. ChainInv /\ [Next]_vars => ChainInv'
  BY NextKeeps
<1> QED
  BY <1>1, <1>2, PTL DEF FairSpec

\* ReleasedCovered: an answer is released only over a chain, made for this
\* query, that leaves out no upstream of any Agent on it, each of them ACTIVE
\* at some moment since the query began.
THEOREM ReleasedAlwaysCovered == FairSpec => []ReleasedCovered
<1>1. ChainInv => ReleasedCovered
  <2> SUFFICES ASSUME ChainInv, NEW q \in Query, query[q].state = "released"
               PROVE  /\ query[q].chain[1].node.id = Owner[First[query[q].at]]
                      /\ Covered(query[q].chain, q)
    BY DEF ReleasedCovered
  <2>1. QueryWith(query[q], q)
    BY DEF ChainInv, QueryInv
  <2> QED
    BY <2>1, Zenon DEF QueryWith
<1> QED
  BY <1>1, ChainInvariant, PTL

\* What the Wrapper may ask of a chain before it has to accept it.
Acceptable(C, e) ==
    /\ C[1].node.final /\ C[1].node.endpoint = e
    /\ Distinct(Configs[C[1].node.id][C[1].node.version].upstreams)
    /\ Len(C) <= MaxNodes /\ \A i \in DOMAIN C : C[i].depth < MaxDepth

\* Its parts.
LEMMA AcceptableParts ==
    ASSUME NEW C, NEW e, NEW q, Acceptable(C, e), Built(C, q)
    PROVE  /\ Shape(C, 1) /\ C[1].node.final /\ C[1].node.endpoint = e
           /\ Len(C) <= MaxNodes /\ \A i \in DOMAIN C : C[i].depth < MaxDepth
BY Zenon DEF Acceptable, Built

\* Such a chain that a thread checks passes the checks.
LEMMA AcceptablePasses ==
    ASSUME NEW t \in Thread, NEW q, NEW e, ThreadWith(t, q, e), t.step = "check",
           Acceptable(t.payload, e)
    PROVE  ChainValid(t.payload, e, q) /\ AllAccepted(t.payload)
<1>1. PICK C : C = t.payload
  OBVIOUS
<1>2. C \in Seq(Item) /\ Built(C, q)
  BY <1>1, ThreadFields DEF ThreadWith
<1>3. Acceptable(C, e)
  BY <1>1
<1>4. Shape(C, 1) /\ C[1].node.final /\ C[1].node.endpoint = e
  BY <1>2, <1>3, AcceptableParts
<1>5. Len(C) <= MaxNodes /\ \A i \in DOMAIN C : C[i].depth < MaxDepth
  BY <1>2, <1>3, AcceptableParts
<1>6. ChainValid(C, e, q) /\ AllAccepted(C)
  BY <1>2, <1>4, <1>5, BuiltAccepted
<1> QED
  BY <1>1, <1>6

\* BuiltChainsAccepted: a chain that the Agent of the upstream built without an
\* error passes all of the Wrapper's checks, unless it is too deep or too long
\* or the Agent lists an upstream twice.
THEOREM BuiltChainsAlwaysAccepted == FairSpec => []BuiltChainsAccepted
<1>1. ChainInv => BuiltChainsAccepted
  <2> SUFFICES ASSUME ChainInv PROVE BuiltChainsAccepted
    OBVIOUS
  <2>1. ASSUME NEW x \in Threads, thread[x].step = "check", Acceptable(thread[x].payload, First[x[2]])
        PROVE  ChainValid(thread[x].payload, First[x[2]], x[1]) /\ AllAccepted(thread[x].payload)
    <3>1. PICK t, q, e : t = thread[x] /\ q = x[1] /\ e = First[x[2]]
      OBVIOUS
    <3>2. t \in Thread /\ ThreadWith(t, q, e)
      BY <3>1, ThreadKnown
    <3>3. t.step = "check" /\ Acceptable(t.payload, e)
      BY <2>1, <3>1
    <3>4. ChainValid(t.payload, e, q) /\ AllAccepted(t.payload)
      BY <3>2, <3>3, AcceptablePasses
    <3> QED
      BY <3>1, <3>4
  <2> QED
    BY <2>1, Zenon DEF BuiltChainsAccepted, Acceptable
<1> QED
  BY <1>1, ChainInvariant, PTL

=============================================================================
