---------------------------- MODULE TrustedCache ----------------------------
(***************************************************************************)
(* The Python V1 service: the publisher that writes one resolver's         *)
(* identity to the Registry and to the indexer, the verifier and its       *)
(* trusted cache, the coordinator that releases or refuses a DNS answer,   *)
(* and the event watcher, a process of its own on the same database.       *)
(*                                                                         *)
(* Every call to the database or to the Registry is a step, because the    *)
(* query, the background refresh, the watcher and the publisher run at the *)
(* same time.  What the model leaves out of the data: there is one         *)
(* resolver; version v of its object is anchored under a root of its own,  *)
(* written v too; the cache key of a row is <<endpoint, version>>.         *)
(*                                                                         *)
(* The cache generation is a counter that is only compared with a value    *)
(* read earlier.  It never decreases, so a value read is equal to the      *)
(* counter exactly as long as nobody has bumped it: the model keeps, for   *)
(* each thread, whether that is still so (th[t].current).                  *)
(***************************************************************************)
EXTENDS Naturals, Sequences, FiniteSets

CONSTANTS
    Endpoint,        \* endpoints of the resolver
    Upstream,        \* the wrapper's upstream list, a sequence of endpoints
    MaxVersion,      \* bound: object versions 1..MaxVersion
    EndpointsOf,     \* EndpointsOf[v]: the endpoints the object v lists
    Soft, Hard,      \* soft_ttl_seconds and hard_ttl_seconds
    ValidUntil,      \* valid_until of every object
    MaxTime,         \* bound of the clock
    Confirmations,   \* watcher_confirmations
    SafetyBlocks,    \* reorg_safety_blocks
    MaxIncidents     \* bound: queries, publications (which count twice), revocations,
                     \* reorganisations, stopped processes and seconds, together

ASSUME Parameters ==
    /\ MaxVersion \in Nat \ {0}
    /\ Upstream \in Seq(Endpoint)
    /\ EndpointsOf \in [1..MaxVersion -> (SUBSET Endpoint) \ {{}}]
    /\ Soft \in Nat /\ Hard \in Nat /\ Soft <= Hard
    /\ {ValidUntil, MaxTime, Confirmations, SafetyBlocks, MaxIncidents} \subseteq Nat

VARIABLES
    chain,     \* the Registry's blocks, each with the state after it
    idx,       \* the indexer's tables
    pub,       \* AdminPublisher.publish in progress
    rows,      \* trusted_cache: cache key -> row, or Nothing
    th,        \* the verifying threads: "query" and "refresh"
    watch,     \* the event watcher process
    disk,      \* the watcher's runtime_state rows
    time,      \* seconds
    spent      \* what has been used of the bounds

vars == <<chain, idx, pub, rows, th, watch, disk, time, spent>>

Version == 1..MaxVersion
Key == Endpoint \X Version
Thread == {"query", "refresh"}
Nothing == [status |-> "none", revived |-> FALSE]

-----------------------------------------------------------------------------
(* The Registry: one transaction per block.                                *)

NoEvent == [type |-> "none", arg |-> 0]
Registry == chain[Len(chain)].reg

\* A transaction is mined: the state after it and the event it emits.
Mined(reg, event) ==
    chain' = Append(chain, [fork |-> spent.reorgs, event |-> event,
                            handled |-> FALSE, reg |-> reg])

\* The bound: one more of the things that nothing in the system forces.
Incident == spent.incidents < MaxIncidents
Incidents == [spent EXCEPT !.incidents = @ + 1]

\* Blocks without a transaction of this contract (bound: only until the chain
\* is as long as it was before the last reorganisation).
MineEmpty ==
    /\ Len(chain) < spent.height
    /\ Mined(Registry, NoEvent)
    /\ UNCHANGED <<idx, pub, rows, th, watch, disk, time, spent>>

\* The revoker's transactions: revokeResolver and revokeRoot.
RevokeResolver ==
    /\ Incident
    /\ Registry.status = "ACTIVE"
    /\ Mined([Registry EXCEPT !.status = "REVOKED"],
             [type |-> "ResolverRevoked", arg |-> 0])
    /\ spent' = Incidents
    /\ UNCHANGED <<idx, pub, rows, th, watch, disk, time>>

RevokeRoot(v) ==
    /\ Incident
    /\ Registry.root[v] = "ACTIVE"
    /\ Mined([Registry EXCEPT !.root[v] = "REVOKED"],
             [type |-> "RootRevoked", arg |-> v])
    /\ spent' = Incidents
    /\ UNCHANGED <<idx, pub, rows, th, watch, disk, time>>

\* A reorganisation drops the blocks after n; other blocks will follow with
\* another hash.  The history flag late of a query is withdrawn with the
\* revocation it recorded.
Reorg(n) ==
    /\ Incident
    /\ n \in 1..(Len(chain) - 1)
    /\ chain' = SubSeq(chain, 1, n)
    /\ spent' = [Incidents EXCEPT !.reorgs = @ + 1, !.height = Len(chain)]
    /\ th' = [th EXCEPT !["query"].late = FALSE]
    /\ UNCHANGED <<idx, pub, rows, watch, disk, time>>

-----------------------------------------------------------------------------
(* AdminPublisher.publish: Registry first, then the indexer; every call is *)
(* a step, and the process may stop between any two of them.               *)

PubGoto(pc) == pub' = [pub EXCEPT !.pc = pc]
PubIdle == [pc |-> "idle", v |-> 0, todo |-> {}, old |-> {}]

PublishStart(v) ==
    /\ pub.pc = "idle"
    /\ spent.incidents + 2 <= MaxIncidents
    /\ spent' = [spent EXCEPT !.incidents = @ + 2]
    /\ pub' = [pc |-> "root", v |-> v, todo |-> EndpointsOf[v],
               old |-> idx.endpoints \ EndpointsOf[v]]
    /\ UNCHANGED <<chain, idx, rows, th, watch, disk, time>>

\* A revoked root is refused, an active one is kept, a new one is published.
PublishRoot ==
    /\ pub.pc = "root"
    /\ \/ /\ Registry.root[pub.v] = "REVOKED"
          /\ pub' = PubIdle
          /\ UNCHANGED chain
       \/ /\ Registry.root[pub.v] = "ACTIVE"
          /\ PubGoto("anchor")
          /\ UNCHANGED chain
       \/ /\ Registry.root[pub.v] = "none"
          /\ Mined([Registry EXCEPT !.root[pub.v] = "ACTIVE"], NoEvent)
          /\ PubGoto("anchor")
    /\ UNCHANGED <<idx, rows, th, watch, disk, time, spent>>

\* The anchor: the same version is idempotent if nothing differs, an older
\* one is refused, a newer one updates (the contract refuses a revoked
\* resolver, and a root revoked since the previous step).
PublishAnchor ==
    /\ pub.pc = "anchor"
    /\ \/ /\ \/ Registry.ver > pub.v \/ Registry.status = "REVOKED"
             \/ Registry.ver < pub.v /\ Registry.root[pub.v] # "ACTIVE"
          /\ pub' = PubIdle
          /\ UNCHANGED chain
       \/ /\ Registry.ver = pub.v /\ Registry.status = "ACTIVE"
          /\ PubGoto("bind")
          /\ UNCHANGED chain
       \/ /\ Registry.ver < pub.v /\ Registry.status = "ACTIVE"
          /\ Registry.root[pub.v] = "ACTIVE"
          /\ Mined([Registry EXCEPT !.ver = pub.v],
                   [type |-> "ResolverUpdated", arg |-> pub.v])
          /\ PubGoto("bind")
    /\ UNCHANGED <<idx, rows, th, watch, disk, time, spent>>

\* Binds every endpoint of the object, then unbinds the ones it dropped.
Bound(e) ==
    IF pub.todo # {e} THEN pub' = [pub EXCEPT !.todo = @ \ {e}]
    ELSE pub' = [pub EXCEPT !.todo = pub.old, !.pc = IF pub.old = {} THEN "object" ELSE "unbind"]

PublishBind ==
    /\ pub.pc = "bind"
    /\ \/ \E e \in pub.todo :
             /\ Registry.status = "ACTIVE"
             /\ Mined([Registry EXCEPT !.bound = @ \cup {e}],
                      [type |-> "EndpointBound", arg |-> e])
             /\ Bound(e)
       \/ /\ Registry.status = "REVOKED"
          /\ pub' = PubIdle
          /\ UNCHANGED chain
    /\ UNCHANGED <<idx, rows, th, watch, disk, time, spent>>

PublishUnbind ==
    /\ pub.pc = "unbind"
    /\ \E e \in pub.todo :
         /\ IF e \in Registry.bound
            THEN Mined([Registry EXCEPT !.bound = @ \ {e}],
                       [type |-> "EndpointUnbound", arg |-> e])
            ELSE UNCHANGED chain
         /\ pub' = [pub EXCEPT !.todo = @ \ {e},
                               !.pc = IF pub.todo = {e} THEN "object" ELSE "unbind"]
    /\ UNCHANGED <<idx, rows, th, watch, disk, time, spent>>

\* build_merkle_proof over the single leaf of the object: leaf and root.
MerkleProof(v) == [leaf |-> v, root |-> v]
\* verify_merkle_proof: the proof leads from that leaf to that root.
VerifyMerkleProof(leaf, proof, root) == proof = MerkleProof(leaf) /\ proof.root = root

\* put_lookup for the object's endpoints, delete_lookup for the dropped ones.
PutLookups(lookup, es) == lookup \cup es
DeleteLookups(lookup, es) == lookup \ es

\* The indexer's tables, one commit each: object, proof, lookup rows, the
\* list of endpoints that the next publication will compare with.
PublishObject ==
    /\ pub.pc = "object"
    /\ idx' = [idx EXCEPT !.object = pub.v]
    /\ PubGoto("proof")
    /\ UNCHANGED <<chain, rows, th, watch, disk, time, spent>>

PublishProof ==
    /\ pub.pc = "proof"
    /\ idx' = [idx EXCEPT !.proof = MerkleProof(pub.v)]
    /\ PubGoto("lookup")
    /\ UNCHANGED <<chain, rows, th, watch, disk, time, spent>>

PublishLookup ==
    /\ pub.pc = "lookup"
    /\ idx' = [idx EXCEPT !.lookup = DeleteLookups(PutLookups(@, EndpointsOf[pub.v]), pub.old)]
    /\ PubGoto("endpoints")
    /\ UNCHANGED <<chain, rows, th, watch, disk, time, spent>>

PublishEndpoints ==
    /\ pub.pc = "endpoints"
    /\ idx' = [idx EXCEPT !.endpoints = EndpointsOf[pub.v]]
    /\ pub' = PubIdle
    /\ UNCHANGED <<chain, rows, th, watch, disk, time, spent>>

\* The publisher fails (a transaction or the database) and is run again later.
PublishFails ==
    /\ pub.pc # "idle"
    /\ Incident
    /\ spent' = Incidents
    /\ pub' = PubIdle
    /\ UNCHANGED <<chain, idx, rows, th, watch, disk, time>>

-----------------------------------------------------------------------------
(* TrustedCacheRepository and CacheManager.                                *)

Trusted(row) == row.status \in {"VERIFIED", "REFRESHING"}

\* bump_generation: no value read before is current any more.
BumpedGeneration(threads) == [t \in Thread |-> [threads[t] EXCEPT !.current = FALSE]]

\* update_status, mark_status_by_root: an UPDATE changes the rows that exist.
\* (History: whether the status was written over one that is not trusted.)
Marked(keys, status) ==
    [k \in Key |-> IF k \in keys /\ rows[k] # Nothing
                   THEN [rows[k] EXCEPT !.status = status,
                           !.revived = /\ status \in {"VERIFIED", "REFRESHING"}
                                       /\ rows[k].revived \/ ~Trusted(rows[k])]
                   ELSE rows[k]]

\* get_by_endpoint_lookup_key: ORDER BY verified_at DESC LIMIT 1; the times are
\* whole seconds, so of two rows of one second either may come first.
Newest(e) ==
    {k \in {e} \X Version : /\ rows[k] # Nothing
                            /\ \A j \in {e} \X Version :
                                  rows[j] # Nothing => rows[j].at <= rows[k].at}

Lesser(a, b) == IF a <= b THEN a ELSE b

-----------------------------------------------------------------------------
(* ResolverVerifier.verify_endpoint and refresh_endpoint on thread t.      *)

IdleThread == [pc |-> "idle", pos |-> 0, e |-> "none", now |-> 0,
               current |-> FALSE, ver |-> 0, read |-> Nothing, late |-> FALSE]

Goto(t, pc) == th' = [th EXCEPT ![t].pc = pc]

\* A rejected result: the query goes on to its next upstream, a refresh ends.
Rejected(t) ==
    th' = [th EXCEPT ![t] = IF t = "query" THEN [IdleThread EXCEPT !.pc = "next", !.pos = th[t].pos]
                            ELSE IdleThread]

\* An accepted result with the status it carries.
Accepted(t, status) ==
    th' = [th EXCEPT ![t] = IF t = "query"
                            THEN [@ EXCEPT !.pc = "release", !.read.status = status]
                            ELSE IdleThread]

\* get_valid reads the generation, then the row, then the generation again.
ReadGeneration(t) ==
    /\ th[t].pc = "gen"
    /\ th' = [th EXCEPT ![t].pc = "row", ![t].current = TRUE]
    /\ UNCHANGED <<chain, idx, pub, rows, watch, disk, time, spent>>

ReadRow(t) ==
    /\ th[t].pc = "row"
    /\ \/ /\ Newest(th[t].e) = {}
          /\ th' = [th EXCEPT ![t].pc = "check", ![t].read = Nothing]
       \/ \E k \in Newest(th[t].e) :
             th' = [th EXCEPT ![t].pc = "check", ![t].read = rows[k], ![t].ver = k[2]]
    /\ UNCHANGED <<chain, idx, pub, rows, watch, disk, time, spent>>

\* What get_valid does with the row it read, at the time the call began.
EffectiveStatus(t) == IF th[t].read.soft <= th[t].now THEN "REFRESHING" ELSE "VERIFIED"

\* Mutant of CheckRow: a revoked row within its TTL is used like any other.
CheckRowTTLOnly(t) ==
    /\ th[t].pc = "check"
    /\ CASE ~th[t].current \/ th[t].read.status \in {"none", "EXPIRED"} -> Goto(t, "cold")
         [] th[t].current /\ th[t].read.status \notin {"none", "EXPIRED"} ->
              IF th[t].read.hard <= th[t].now THEN Goto(t, "expire")
              ELSE Accepted(t, th[t].read.status)
    /\ UNCHANGED <<chain, idx, pub, rows, watch, disk, time, spent>>

CheckRow(t) ==
    /\ th[t].pc = "check"
    /\ CASE ~th[t].current \/ th[t].read.status \in {"none", "EXPIRED"} -> Goto(t, "cold")
         [] th[t].current /\ th[t].read.status = "REVOKED" -> Rejected(t)
         [] th[t].current /\ Trusted(th[t].read) ->
              IF th[t].read.hard <= th[t].now THEN Goto(t, "expire")
              ELSE IF EffectiveStatus(t) # th[t].read.status THEN Goto(t, "touch")
              ELSE Accepted(t, th[t].read.status)
    /\ UNCHANGED <<chain, idx, pub, rows, watch, disk, time, spent>>

\* The status follows the soft TTL: it is written to the row of that key,
\* whatever the row has become since it was read.
TouchRow(t) ==
    /\ th[t].pc = "touch"
    /\ rows' = Marked({<<th[t].e, th[t].ver>>}, EffectiveStatus(t))
    /\ Accepted(t, EffectiveStatus(t))
    /\ UNCHANGED <<chain, idx, pub, watch, disk, time, spent>>

\* invalidate_cache_key after the hard TTL: the generation, then the row.
ExpireRow(t) ==
    /\ \/ /\ th[t].pc = "expire"
          /\ th' = [BumpedGeneration(th) EXCEPT ![t].pc = "expired"]
          /\ UNCHANGED rows
       \/ /\ th[t].pc = "expired"
          /\ rows' = Marked({<<th[t].e, th[t].ver>>}, "EXPIRED")
          /\ Goto(t, "cold")
    /\ UNCHANGED <<chain, idx, pub, watch, disk, time, spent>>

\* _verify_cold, one call of the indexer or the Registry after another.
ColdStart(t) ==
    /\ th[t].pc = "cold"
    /\ th' = [th EXCEPT ![t].pc = "lookup", ![t].current = TRUE,
                        ![t].ver = 0, ![t].read = Nothing]
    /\ UNCHANGED <<chain, idx, pub, rows, watch, disk, time, spent>>

ColdStep(t, pc, test, next) ==
    /\ th[t].pc = pc
    /\ IF test THEN Goto(t, next) ELSE Rejected(t)
    /\ UNCHANGED <<chain, idx, pub, rows, watch, disk, time, spent>>

\* lookup: the row of resolver_lookup_index for the endpoint.
LookedUp(e) == e \in idx.lookup

ColdLookup(t) == ColdStep(t, "lookup", LookedUp(th[t].e), "bound")
ColdBound(t)  == ColdStep(t, "bound", th[t].e \in Registry.bound, "anchor")

ColdAnchor(t) ==
    /\ th[t].pc = "anchor"
    /\ IF Registry.status = "ACTIVE"
       THEN th' = [th EXCEPT ![t].pc = "object", ![t].ver = Registry.ver]
       ELSE Rejected(t)
    /\ UNCHANGED <<chain, idx, pub, rows, watch, disk, time, spent>>

\* The indexer's object has the anchored hash and version.
ColdObject(t) == ColdStep(t, "object", idx.object = th[t].ver, "root")
ColdRoot(t)   == ColdStep(t, "root", Registry.root[th[t].ver] = "ACTIVE", "proof")

\* The stored proof is of the anchored object and leads to the anchored root.
ProofBound(t) == VerifyMerkleProof(th[t].ver, idx.proof, th[t].ver)
\* check_object_semantics: the object is in force at the time of the call.
InForce(t) == ValidUntil > th[t].now
\* One of the object's endpoints matches the observed one.
ListsEndpoint(t) == th[t].e \in EndpointsOf[th[t].ver]

ColdProof(t) ==
    ColdStep(t, "proof", ProofBound(t) /\ InForce(t) /\ ListsEndpoint(t), "final_bound")

\* The Registry is read again before the row is stored.
FinalBound(t)  == ColdStep(t, "final_bound", th[t].e \in Registry.bound, "final_anchor")
FinalAnchor(t) == ColdStep(t, "final_anchor",
                           Registry.status = "ACTIVE" /\ Registry.ver = th[t].ver, "final_root")
FinalRoot(t)   == ColdStep(t, "final_root", Registry.root[th[t].ver] = "ACTIVE", "store")

\* The row that a verification begun at that time leaves: expirations gives the
\* soft TTL and the hard TTL, which is cut by the object's validity.
VerifiedRow(now) == [status |-> "VERIFIED", at |-> time, soft |-> now + Soft,
                     hard |-> Lesser(now + Hard, ValidUntil), revived |-> FALSE]

\* Mutant of StoreVerified: the generation is not compared before the store.
StoreUnchecked(t) ==
    /\ th[t].pc = "store"
    /\ rows' = [rows EXCEPT ![<<th[t].e, th[t].ver>>] = VerifiedRow(th[t].now)]
    /\ Accepted(t, "VERIFIED")
    /\ UNCHANGED <<chain, idx, pub, watch, disk, time, spent>>

\* put_if_generation: one transaction, which stores the row if the generation
\* has not moved.
PutIfGeneration(k, row, current) == rows' = IF current THEN [rows EXCEPT ![k] = row] ELSE rows

StoreVerified(t) ==
    /\ th[t].pc = "store"
    /\ PutIfGeneration(<<th[t].e, th[t].ver>>, VerifiedRow(th[t].now), th[t].current)
    /\ IF th[t].current THEN Accepted(t, "VERIFIED") ELSE Rejected(t)
    /\ UNCHANGED <<chain, idx, pub, watch, disk, time, spent>>

\* A call to the indexer or the Registry fails: out_of_band_unavailable.
ColdUnavailable(t) ==
    /\ th[t].pc \in {"lookup", "bound", "anchor", "object", "root", "proof",
                     "final_bound", "final_anchor", "final_root", "store"}
    /\ Rejected(t)
    /\ UNCHANGED <<chain, idx, pub, rows, watch, disk, time, spent>>

-----------------------------------------------------------------------------
(* QueryCoordinator.coordinate with the first hop as the observed resolver. *)

\* A revocation on the chain that the watcher has handled (history).
HandledRevocation(v) ==
    \E i \in 1..Len(chain) :
        /\ chain[i].handled
        /\ \/ chain[i].event.type = "ResolverRevoked"
           \/ chain[i].event = [type |-> "RootRevoked", arg |-> v]

\* One query at a time.
QueryStart ==
    /\ th["query"].pc \in {"idle", "allowed", "refused"}
    /\ Incident
    /\ spent' = Incidents
    /\ th' = [th EXCEPT !["query"] = [IdleThread EXCEPT !.pc = "next"]]
    /\ UNCHANGED <<chain, idx, pub, rows, watch, disk, time>>

\* The query is forwarded to the upstreams in order until one is verified after
\* it has answered; when none is left the answer is SERVFAIL.
Forward ==
    LET q == th["query"]
        pos == q.pos + 1 IN
    /\ q.pc = "next"
    /\ \/ /\ pos <= Len(Upstream)
          /\ th' = [th EXCEPT !["query"] =
                       [IdleThread EXCEPT !.pc = "gen", !.pos = pos, !.e = Upstream[pos],
                          !.now = time, !.late = \A v \in Version : HandledRevocation(v)]]
       \/ /\ pos <= Len(Upstream)
          /\ th' = [th EXCEPT !["query"].pos = pos]
       \/ /\ pos > Len(Upstream)
          /\ th' = [th EXCEPT !["query"] = [IdleThread EXCEPT !.pc = "refused"]]
    /\ UNCHANGED <<chain, idx, pub, rows, watch, disk, time, spent>>

\* result_is_current: no invalidation since the generation was read.
ResultIsCurrent(q) == q.current

\* A result that is being refreshed starts the refresh (bound: one at a time);
\* then result_is_current decides.
Release ==
    LET q == th["query"]
        decided == IF ResultIsCurrent(q) THEN [q EXCEPT !.pc = "allowed"]
                   ELSE [IdleThread EXCEPT !.pc = "next", !.pos = q.pos]
        refresh == q.read.status = "REFRESHING" /\ th["refresh"].pc = "idle" IN
    /\ q.pc = "release"
    /\ th' = IF refresh
             THEN [th EXCEPT !["query"] = decided,
                             !["refresh"] = [IdleThread EXCEPT !.pc = "cold", !.e = q.e,
                                                               !.now = time]]
             ELSE [th EXCEPT !["query"] = decided]
    /\ UNCHANGED <<chain, idx, pub, rows, watch, disk, time, spent>>

-----------------------------------------------------------------------------
(* The watcher process: poll the confirmed logs, reconcile, persist.       *)

WatcherAt(state) == [pc |-> "idle", last |-> state.last, hash |-> state.hash, to |-> 0,
                     events |-> {}, event |-> NoEvent, block |-> <<0, 0>>,
                     todo |-> {}, check |-> {}, back |-> "idle"]
WGoto(pc) == watch' = [watch EXCEPT !.pc = pc]

\* The block whose event has been handled is marked, for the properties only.
HandledBlock ==
    LET n == watch.block[1] IN
    IF n \in 1..Len(chain) /\ chain[n].fork = watch.block[2]
    THEN [chain EXCEPT ![n].handled = TRUE] ELSE chain

\* The rows still to be invalidated; with none left the caller goes on.
Invalidate(items, back) ==
    /\ watch' = [watch EXCEPT !.todo = items, !.back = IF items = {} THEN "idle" ELSE back,
                              !.pc = IF items = {} THEN back ELSE "invalidate"]
    /\ chain' = IF items = {} /\ back = "events" THEN HandledBlock ELSE chain

\* _get_block_hash_with_retry, _detect_reorg.
BlockHash(n) == <<chain[n].fork>>
Reorged == watch.last > 0 /\ watch.hash # <<>> /\ BlockHash(watch.last) # watch.hash

\* _get_logs_with_retry for every event name, each log normalised.
NormalizedEvent(i) == [n |-> i, fork |-> chain[i].fork, event |-> chain[i].event]
Logs(from, to) ==
    {NormalizedEvent(i) : i \in {i \in from..to : i <= Len(chain) /\ chain[i].event # NoEvent}}

\* The head, and the hash of the last processed block against the one seen
\* then.  (A node that does not have that block makes the call fail: the
\* process restarts from disk, in the same state.)
PollStart ==
    /\ watch.pc = "idle"
    /\ watch.last <= Len(chain)
    /\ watch' = [watch EXCEPT
          !.to = Len(chain) - Confirmations,
          !.pc = IF Len(chain) < Confirmations THEN "list"
                 ELSE IF Reorged THEN "quarantine"
                 ELSE IF Len(chain) - Confirmations <= watch.last THEN "list" ELSE "fetch"]
    /\ UNCHANGED <<chain, idx, pub, rows, th, disk, time, spent>>

\* A reorganisation: expire_all, then the watcher goes back SafetyBlocks.
Quarantine ==
    /\ watch.pc = "quarantine"
    /\ Invalidate({<<k, "EXPIRED">> : k \in {k \in Key : rows[k] # Nothing}}, "rollback")
    /\ UNCHANGED <<idx, pub, rows, th, disk, time, spent>>

RollbackForReorg ==
    /\ watch.pc = "rollback"
    /\ watch' = [watch EXCEPT !.pc = "fetch", !.hash = <<>>,
                   !.last = IF @ > SafetyBlocks THEN @ - SafetyBlocks ELSE 0]
    /\ UNCHANGED <<chain, idx, pub, rows, th, disk, time, spent>>

\* The logs of the confirmed blocks that have not been processed.
FetchLogs ==
    /\ watch.pc = "fetch"
    /\ IF watch.to <= watch.last
       THEN WGoto("list")
       ELSE watch' = [watch EXCEPT !.pc = "events", !.events = Logs(watch.last + 1, watch.to)]
    /\ UNCHANGED <<chain, idx, pub, rows, th, disk, time, spent>>

\* handle_event, in block order: revocations and updates bump the generation
\* before they look at the rows.  (Its set of processed events holds none that a
\* later poll fetches: a poll starts after the last processed block, and the set
\* is cleared with a rollback and lost with the process.)
HandleEvent ==
    /\ watch.pc = "events"
    /\ \E ev \in watch.events :
         /\ \A other \in watch.events : ev.n <= other.n
         /\ watch' = [watch EXCEPT !.events = @ \ {ev}, !.event = ev.event,
                                   !.block = <<ev.n, ev.fork>>, !.pc = "apply"]
         /\ th' = IF ev.event.type \in {"EndpointBound", "EndpointUnbound"}
                  THEN th ELSE BumpedGeneration(th)
    /\ UNCHANGED <<chain, idx, pub, rows, disk, time, spent>>

ApplyEvent ==
    LET stored == {k \in Key : rows[k] # Nothing}
        type == watch.event.type
        arg == watch.event.arg IN
    /\ watch.pc = "apply"
    /\ \/ /\ type = "ResolverRevoked"
          /\ Invalidate({<<k, "REVOKED">> : k \in stored}, "events")
          /\ UNCHANGED rows
       \/ /\ type = "ResolverUpdated"
          /\ Invalidate({<<k, "EXPIRED">> : k \in {k \in stored : k[2] # arg}}, "events")
          /\ UNCHANGED rows
       \/ /\ type = "RootRevoked"
          /\ rows' = Marked({k \in Key : k[2] = arg}, "REVOKED")
          /\ Invalidate({}, "events")
       \/ /\ type \in {"EndpointBound", "EndpointUnbound"}
          /\ IF Newest(arg) = {} THEN Invalidate({}, "events")
             ELSE \E k \in Newest(arg) : Invalidate({<<k, "EXPIRED">>}, "events")
          /\ UNCHANGED rows
    /\ UNCHANGED <<idx, pub, th, disk, time, spent>>

\* invalidate_cache_key for each row in turn: the generation, then the row.
InvalidateBump ==
    /\ watch.pc = "invalidate"
    /\ WGoto("mark")
    /\ th' = BumpedGeneration(th)
    /\ UNCHANGED <<chain, idx, pub, rows, disk, time, spent>>

InvalidateMark ==
    /\ watch.pc = "mark"
    /\ \E item \in watch.todo :
         /\ rows' = Marked({item[1]}, item[2])
         /\ Invalidate(watch.todo \ {item}, watch.back)
    /\ UNCHANGED <<idx, pub, th, disk, time, spent>>

\* After the last event: the last block and, by a further call, its hash.
PollEnd ==
    /\ watch.pc = "events"
    /\ watch.events = {}
    /\ watch.to <= Len(chain)
    /\ watch' = [watch EXCEPT !.pc = "list", !.hash = BlockHash(watch.to),
                   !.last = IF @ < watch.to THEN watch.to ELSE @,
                   !.event = NoEvent, !.block = <<0, 0>>]
    /\ UNCHANGED <<chain, idx, pub, rows, th, disk, time, spent>>

\* refresh_registry_state: every row against the Registry as it is now (the
\* three reads of one row are one step).
ReconcileList ==
    /\ watch.pc = "list"
    /\ watch' = [watch EXCEPT !.pc = "reconcile",
                   !.check = {k \in Key : rows[k] # Nothing}]
    /\ UNCHANGED <<chain, idx, pub, rows, th, disk, time, spent>>

\* Mutant of ReconcileRow: only revocations are looked for.
ReconcileRevoked ==
    /\ watch.pc = "reconcile"
    /\ \E k \in watch.check :
         LET verdict == IF Registry.root[k[2]] = "REVOKED" \/ Registry.status = "REVOKED"
                        THEN {<<k, "REVOKED">>} ELSE {} IN
         watch' = [watch EXCEPT !.todo = verdict, !.check = @ \ {k}, !.back = "reconcile",
                                !.pc = IF verdict = {} THEN "reconcile" ELSE "invalidate"]
    /\ UNCHANGED <<chain, idx, pub, rows, th, disk, time, spent>>

ReconcileRow ==
    /\ watch.pc = "reconcile"
    /\ \E k \in watch.check :
         LET verdict == IF Registry.root[k[2]] = "REVOKED" \/ Registry.status = "REVOKED"
                        THEN {<<k, "REVOKED">>}
                        ELSE IF k[1] \notin Registry.bound \/ Registry.ver # k[2]
                        THEN {<<k, "EXPIRED">>} ELSE {} IN
         watch' = [watch EXCEPT !.todo = verdict, !.check = @ \ {k}, !.back = "reconcile",
                                !.pc = IF verdict = {} THEN "reconcile" ELSE "invalidate"]
    /\ UNCHANGED <<chain, idx, pub, rows, th, disk, time, spent>>

\* The two rows of runtime_state.
RuntimeState(last, hash) == [last |-> last, hash |-> hash]

\* run_event_watcher stores the state when both have been done.
Persist ==
    /\ watch.pc = "reconcile"
    /\ watch.check = {}
    /\ disk' = RuntimeState(watch.last, watch.hash)
    /\ watch' = WatcherAt(disk')
    /\ UNCHANGED <<chain, idx, pub, rows, th, time, spent>>

\* An exception ends the process; it starts again from the stored state.  A
\* block that has gone at the last call of a poll does that too.
WatcherRestarts ==
    /\ watch.pc # "idle"
    /\ \/ /\ Incident
          /\ spent' = Incidents
       \/ /\ watch.pc = "events" /\ watch.events = {} /\ watch.to > Len(chain)
          /\ UNCHANGED spent
    /\ watch' = WatcherAt(disk)
    /\ UNCHANGED <<chain, idx, pub, rows, th, disk, time>>

-----------------------------------------------------------------------------
Tick ==
    /\ Incident
    /\ time < MaxTime
    /\ time' = time + 1
    /\ spent' = Incidents
    /\ UNCHANGED <<chain, idx, pub, rows, th, watch, disk>>

\* Version 1 has been published; nothing has been verified yet, or an earlier
\* query has verified one of its endpoints, in this second or in the last.
Init ==
    /\ chain = <<[fork |-> 0, event |-> NoEvent, handled |-> FALSE,
                  reg |-> [root |-> [v \in Version |-> IF v = 1 THEN "ACTIVE" ELSE "none"],
                           ver |-> 1, status |-> "ACTIVE", bound |-> EndpointsOf[1]]]>>
    /\ idx = [object |-> 1, proof |-> MerkleProof(1), lookup |-> EndpointsOf[1],
              endpoints |-> EndpointsOf[1]]
    /\ pub = PubIdle
    /\ time = 1
    /\ \E known \in SUBSET (EndpointsOf[1] \X {1}), at \in 0..time :
         rows = [k \in Key |-> IF k \in known
                               THEN [status |-> "VERIFIED", at |-> at, soft |-> at + Soft,
                                     hard |-> Lesser(at + Hard, ValidUntil), revived |-> FALSE]
                               ELSE Nothing]
    /\ th = [t \in Thread |-> IdleThread]
    /\ disk = RuntimeState(0, <<>>)
    /\ watch = WatcherAt(disk)
    /\ spent = [incidents |-> 0, reorgs |-> 0, height |-> 0]

Verify(t) ==
    \/ ReadGeneration(t) \/ ReadRow(t) \/ CheckRow(t) \/ TouchRow(t) \/ ExpireRow(t)
    \/ ColdStart(t) \/ ColdLookup(t) \/ ColdBound(t) \/ ColdAnchor(t) \/ ColdObject(t)
    \/ ColdRoot(t) \/ ColdProof(t) \/ FinalBound(t) \/ FinalAnchor(t) \/ FinalRoot(t)
    \/ StoreVerified(t)

Coordinate == Forward \/ Release

Publish ==
    \/ PublishRoot \/ PublishAnchor \/ PublishBind \/ PublishUnbind
    \/ PublishObject \/ PublishProof \/ PublishLookup \/ PublishEndpoints

Watcher ==
    \/ PollStart \/ Quarantine \/ RollbackForReorg \/ FetchLogs \/ HandleEvent
    \/ ApplyEvent \/ InvalidateBump \/ InvalidateMark
    \/ PollEnd \/ ReconcileList \/ ReconcileRow \/ Persist

Next ==
    \/ \E t \in Thread : Verify(t) \/ ColdUnavailable(t)
    \/ QueryStart \/ Coordinate
    \/ (\E v \in Version : PublishStart(v)) \/ Publish \/ PublishFails
    \/ Watcher \/ WatcherRestarts
    \/ MineEmpty \/ RevokeResolver \/ (\E v \in Version : RevokeRoot(v))
    \/ (\E n \in 1..Len(chain) : Reorg(n))
    \/ Tick

Spec == Init /\ [][Next]_vars

\* The watcher's loop runs and blocks are mined; nobody has to publish, to
\* revoke or to ask, and a query may stop half way.
Fairness == WF_vars(Watcher \/ WatcherRestarts) /\ WF_vars(MineEmpty)

FairSpec == Spec /\ Fairness

-----------------------------------------------------------------------------

\* When the watcher has handled a revocation that is on the chain, no row of
\* that resolver or root is trusted any more, whichever verification was under
\* way meanwhile: the bump before the marks (cache_manager.py:138-147, 160-165)
\* and the generation taken before the first read of a verification
\* (resolver_verifier.py:39) make it so.  The one way back is the status that
\* get_valid writes to a row it read before (cache_manager.py:55), over whatever
\* the row has become.
RevocationSettles ==
    \A k \in Key : Trusted(rows[k]) /\ ~rows[k].revived => ~HandledRevocation(k[2])

\* A query that began after the watcher had handled the revocation of the
\* resolver is not answered, with the same exception
\* (query_coordinator.py:105-107).
RevokedNeverReleased ==
    th["query"].pc = "allowed" /\ th["query"].late => th["query"].read.revived

\* Whatever was revoked, updated, unbound or reorganised away, and wherever a
\* process stopped: once the Registry is left alone, the rows that are trusted
\* are the ones the Registry supports (event_watcher.py:84, cache_manager.py:181).
CacheConsistent ==
    \A k \in Key : Trusted(rows[k]) =>
        /\ Registry.status = "ACTIVE" /\ Registry.root[k[2]] # "REVOKED"
        /\ Registry.ver = k[2] /\ k[1] \in Registry.bound
EventuallyConsistent == <>[]CacheConsistent
=============================================================================
