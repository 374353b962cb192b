-------------------------- MODULE TrustedCacheProofs --------------------------
(***************************************************************************)
(* Proofs about TrustedCache: a revocation that the event watcher has      *)
(* handled stays in force in the trusted cache and for the queries that    *)
(* come after it, whatever was under way, for any number of versions,      *)
(* endpoints, blocks, reorganisations, publications and restarts.          *)
(***************************************************************************)
EXTENDS TrustedCache, Integers, TLAPS

-----------------------------------------------------------------------------
(* What the variables are, as far as the argument needs it.                *)

Arg == {0} \cup Version \cup Endpoint
Event == [type : {"none", "ResolverRevoked", "RootRevoked", "ResolverUpdated",
                  "EndpointBound", "EndpointUnbound"},
          arg : Arg]
RegistryState == [root : [Version -> {"none", "ACTIVE", "REVOKED"}], ver : Version,
                  status : {"ACTIVE", "REVOKED"}, bound : SUBSET Endpoint]
Block == [fork : Nat, event : Event, handled : BOOLEAN, reg : RegistryState]

ChainType == chain \in Seq(Block) /\ chain # <<>>

SpentType == spent \in [incidents : Nat, reorgs : Nat, height : Nat]

PubType ==
  /\ idx.endpoints \subseteq Endpoint
  /\ pub = [pc |-> pub.pc, v |-> pub.v, todo |-> pub.todo, old |-> pub.old]
  /\ idx = [object |-> idx.object, proof |-> idx.proof, lookup |-> idx.lookup,
            endpoints |-> idx.endpoints]
  /\ pub.pc # "idle" => pub.v \in Version
  /\ pub.todo \subseteq Endpoint /\ pub.old \subseteq Endpoint

Status == {"none", "VERIFIED", "REFRESHING", "REVOKED", "EXPIRED"}
IsRow(r) ==
  /\ r.status \in Status
  /\ \/ r = Nothing
     \/ r = [status |-> r.status, at |-> r.at, soft |-> r.soft, hard |-> r.hard,
             revived |-> r.revived]

RowsType == rows = [k \in Key |-> rows[k]] /\ \A k \in Key : IsRow(rows[k])

\* A thread has an endpoint while it verifies, and a version once it has read
\* the anchor.
Anchored == {"object", "root", "proof", "final_bound", "final_anchor", "final_root", "store"}
Verifying == {"gen", "row", "check", "touch", "expire", "expired", "cold", "lookup", "bound",
              "anchor", "release"} \cup Anchored
Position == Nat
IsThread(x) ==
  /\ x = [pc |-> x.pc, pos |-> x.pos, e |-> x.e, now |-> x.now, current |-> x.current,
          ver |-> x.ver, read |-> x.read, late |-> x.late]
  /\ x.pos \in Position
  /\ x.pc \in Verifying => x.e \in Endpoint
  /\ x.pc \in Anchored => x.ver \in Version

\* What a thread has read is a row, or nothing with a status of its own.
IsRead(r) == (r.status \in Status /\ r = [status |-> r.status, revived |-> FALSE]) \/ IsRow(r)

ThreadType ==
  th = [t \in Thread |-> th[t]] /\ \A t \in Thread : IsThread(th[t]) /\ IsRead(th[t].read)

WatchField == {"pc", "last", "hash", "to", "events", "event", "block", "todo", "check", "back"}

WatchType ==
  /\ watch = [f \in WatchField |-> watch[f]]
  /\ watch.last \in Nat /\ watch.to \in Int
  /\ disk = [last |-> disk.last, hash |-> disk.hash] /\ disk.last \in Nat
  /\ \A item \in watch.todo : item[2] \in {"REVOKED", "EXPIRED"}

-----------------------------------------------------------------------------
(* The inductive invariant.                                                *)

\* Blocks of one fork number are of one branch: whoever has seen a block knows
\* its event, as long as the block is on the chain.
Known(n, fork, event) ==
  /\ n \in Nat /\ fork \in Nat /\ fork <= spent.reorgs
  /\ fork = spent.reorgs => n <= Len(chain)
  /\ n \in 1..Len(chain) /\ chain[n].fork = fork => chain[n].event = event

ForkInv == \A i \in 1..Len(chain) : chain[i].fork <= spent.reorgs

KnownInv ==
  /\ \A ev \in watch.events : Known(ev.n, ev.fork, ev.event)
  /\ watch.block = <<watch.block[1], watch.block[2]>>
  /\ Known(watch.block[1], watch.block[2], watch.event)

\* What an event revokes stays revoked in the blocks after it.
RevokedInv ==
  \A i \in 1..Len(chain) : \A j \in i..Len(chain) :
    /\ chain[i].event.type = "ResolverRevoked" => chain[j].reg.status = "REVOKED"
    /\ \A v \in Version :
         chain[i].event = [type |-> "RootRevoked", arg |-> v] => chain[j].reg.root[v] = "REVOKED"

\* The watcher has bumped the generation for the event of block i.
OnChain(block) == block[1] \in 1..Len(chain) /\ chain[block[1]].fork = block[2]
Announced(i) == chain[i].handled \/ watch.block = <<i, chain[i].fork>>

ResolverAnnounced ==
  \E i \in 1..Len(chain) : Announced(i) /\ chain[i].event.type = "ResolverRevoked"
RootAnnounced(v) ==
  \E i \in 1..Len(chain) : Announced(i) /\ chain[i].event = [type |-> "RootRevoked", arg |-> v]

\* A thread whose generation is current has read the Registry after the bump of
\* every revocation that was announced.
ThreadInv ==
  \A t \in Thread : th[t].current =>
    /\ th[t].pc \in {"final_root", "store"} => ~ResolverAnnounced
    /\ th[t].pc = "store" => ~RootAnnounced(th[t].ver)

\* The rows that are trusted, and not because a status was written back.
Plain == {k \in Key : Trusted(rows[k]) /\ ~rows[k].revived}

\* While a revocation is carried out, the rows it has yet to mark are listed.
Revoking ==
  /\ watch.pc \in {"invalidate", "mark"} /\ watch.back = "events"
  /\ watch.event.type = "ResolverRevoked" /\ OnChain(watch.block)
PendingInv ==
  /\ Revoking => /\ \A k \in Plain : <<k, "REVOKED">> \in watch.todo
                 /\ \A item \in watch.todo : item[2] = "REVOKED"
  /\ watch.pc \in {"invalidate", "mark"} /\ watch.back = "events"
       => watch.event.type # "RootRevoked"

SettledInv == \A k \in Plain : ~HandledRevocation(k[2])

\* A query that began after the revocation has read no row that is trusted,
\* but for one that was written back.
LateInv ==
  th["query"].late =>
    /\ \A v \in Version : HandledRevocation(v)
    /\ th["query"].pc = "check" /\ Trusted(th["query"].read) => th["query"].read.revived
    /\ th["query"].pc \in {"touch", "release", "allowed"} => th["query"].read.revived

CacheInv ==
  /\ ChainType /\ SpentType /\ PubType /\ RowsType /\ ThreadType /\ WatchType
  /\ ForkInv /\ KnownInv /\ RevokedInv /\ ThreadInv /\ PendingInv /\ SettledInv /\ LateInv

-----------------------------------------------------------------------------
(* The chain.                                                              *)

\* Versions are numbered from 1.
LEMMA VersionFacts == 1 \in Version /\ Version \subseteq Nat
  BY Parameters DEF Version

\* The chain is never empty, and its last block holds the Registry.
LEMMA ChainFacts ==
  ASSUME ChainType
  PROVE  /\ Len(chain) \in Nat /\ Len(chain) >= 1
         /\ \A i \in 1..Len(chain) : chain[i] \in Block
         /\ chain[Len(chain)] \in Block /\ Registry \in RegistryState
<1>1. Len(chain) \in Nat /\ Len(chain) >= 1 /\ \A i \in 1..Len(chain) : chain[i] \in Block
  BY DEF ChainType
<1>2. chain[Len(chain)] \in Block
  BY <1>1
<1> QED BY <1>1, <1>2 DEF Registry, Block

\* A block is mined that keeps what was revoked, and revokes what its event says.
Extends(reg, ev) ==
  /\ Mined(reg, ev)
  /\ reg \in RegistryState /\ ev \in Event
  /\ Registry.status = "REVOKED" => reg.status = "REVOKED"
  /\ \A v \in Version : Registry.root[v] = "REVOKED" => reg.root[v] = "REVOKED"
  /\ ev.type = "ResolverRevoked" => reg.status = "REVOKED"
  /\ \A v \in Version :
       ev = [type |-> "RootRevoked", arg |-> v] => reg.root[v] = "REVOKED"

\* The transactions of the publisher and the revoker.
LEMMA MinedRoot ==
  ASSUME ChainType, NEW v \in Version, Registry.root[v] = "none",
         Mined([Registry EXCEPT !.root[v] = "ACTIVE"], NoEvent)
  PROVE  Extends([Registry EXCEPT !.root[v] = "ACTIVE"], NoEvent)
<1> DEFINE new == [Registry EXCEPT !.root[v] = "ACTIVE"]
<1>1. Registry \in RegistryState
  BY ChainFacts
<1>2. new \in RegistryState /\ new.status = Registry.status
      /\ \A w \in Version : w # v => new.root[w] = Registry.root[w]
  BY <1>1 DEF RegistryState
<1>3. NoEvent \in Event /\ NoEvent.type = "none"
  BY DEF NoEvent, Event, Arg
<1>4. \A w \in Version : NoEvent # [type |-> "RootRevoked", arg |-> w]
  BY DEF NoEvent
<1> HIDE DEF new
<1> QED BY <1>2, <1>3, <1>4 DEF Extends, new

\* A transaction that touches neither a root nor the status.
LEMMA MinedSame ==
  ASSUME ChainType, NEW reg, NEW ev, Mined(reg, ev), reg \in RegistryState, ev \in Event,
         reg.root = Registry.root, reg.status = Registry.status,
         ev.type \notin {"ResolverRevoked", "RootRevoked"}
  PROVE  Extends(reg, ev)
<1>1. \A v \in Version : ev # [type |-> "RootRevoked", arg |-> v]
  OBVIOUS
<1> QED BY <1>1 DEF Extends

\* The transactions of the revoker.
LEMMA MinedRevocation ==
  ASSUME ChainType,
         \/ RevokeResolver
         \/ \E v \in Version : RevokeRoot(v)
  PROVE  \E reg, ev : Extends(reg, ev)
<1>1. Registry \in RegistryState
  BY ChainFacts
<1>2. CASE RevokeResolver
  <2> DEFINE new == [Registry EXCEPT !.status = "REVOKED"]
             ev == [type |-> "ResolverRevoked", arg |-> 0]
  <2>1. new \in RegistryState /\ new.root = Registry.root /\ new.status = "REVOKED"
    BY <1>1 DEF RegistryState
  <2>2. ev \in Event /\ \A v \in Version : ev # [type |-> "RootRevoked", arg |-> v]
    BY DEF Event, Arg
  <2>3. Mined(new, ev)
    BY <1>2 DEF RevokeResolver
  <2> HIDE DEF new, ev
  <2>4. Extends(new, ev)
    BY <2>1, <2>2, <2>3 DEF Extends
  <2> QED BY <2>4
<1>3. ASSUME NEW v \in Version, RevokeRoot(v)
      PROVE  \E reg, ev : Extends(reg, ev)
  <2> DEFINE new == [Registry EXCEPT !.root[v] = "REVOKED"]
             ev == [type |-> "RootRevoked", arg |-> v]
  <2>1. new \in RegistryState /\ new.status = Registry.status /\ new.root[v] = "REVOKED"
        /\ \A w \in Version : w # v => new.root[w] = Registry.root[w]
    BY <1>1 DEF RegistryState
  <2>2. ev \in Event /\ ev.type # "ResolverRevoked"
        /\ \A w \in Version : ev = [type |-> "RootRevoked", arg |-> w] => w = v
    BY DEF Event, Arg
  <2>3. Mined(new, ev)
    BY <1>3 DEF RevokeRoot
  <2> HIDE DEF new, ev
  <2>4. Extends(new, ev)
    BY <2>1, <2>2, <2>3 DEF Extends
  <2> QED BY <2>4
<1> QED BY <1>2, <1>3

\* The transactions of the publisher.
LEMMA MinedPublication ==
  ASSUME ChainType, PubType, PublishRoot \/ PublishAnchor \/ PublishBind \/ PublishUnbind
  PROVE  UNCHANGED chain \/ \E reg, ev : Extends(reg, ev)
<1>0. Registry \in RegistryState
  BY ChainFacts
<1>1. CASE PublishRoot
  <2>1. pub.v \in Version
    BY <1>1 DEF PublishRoot, PubType
  <2> QED BY <1>1, <2>1, MinedRoot DEF PublishRoot
<1>2. CASE PublishAnchor
  <2>1. pub.v \in Version
    BY <1>2 DEF PublishAnchor, PubType
  <2> DEFINE new == [Registry EXCEPT !.ver = pub.v]
             ev == [type |-> "ResolverUpdated", arg |-> pub.v]
  <2>2. new \in RegistryState /\ new.root = Registry.root /\ new.status = Registry.status
    BY <1>0, <2>1 DEF RegistryState
  <2>3. ev \in Event /\ ev.type = "ResolverUpdated"
    BY <2>1 DEF Event, Arg
  <2>4. UNCHANGED chain \/ Mined(new, ev)
    BY <1>2 DEF PublishAnchor
  <2> HIDE DEF new, ev
  <2> QED BY <2>2, <2>3, <2>4, MinedSame
<1>3. CASE PublishBind
  <2>1. UNCHANGED chain \/ \E e \in pub.todo : Mined([Registry EXCEPT !.bound = @ \cup {e}],
                                                     [type |-> "EndpointBound", arg |-> e])
    BY <1>3 DEF PublishBind
  <2>2. ASSUME NEW e \in pub.todo,
               Mined([Registry EXCEPT !.bound = @ \cup {e}], [type |-> "EndpointBound", arg |-> e])
        PROVE  \E reg, ev : Extends(reg, ev)
    <3> DEFINE new == [Registry EXCEPT !.bound = @ \cup {e}]
               ev == [type |-> "EndpointBound", arg |-> e]
    <3>1. new \in RegistryState /\ new.root = Registry.root /\ new.status = Registry.status
      BY <1>0 DEF RegistryState, PubType
    <3>2. ev \in Event /\ ev.type = "EndpointBound" /\ Mined(new, ev)
      BY <2>2 DEF Event, Arg, PubType
    <3> HIDE DEF new, ev
    <3> QED BY <3>1, <3>2, MinedSame
  <2> QED BY <2>1, <2>2
<1>4. CASE PublishUnbind
  <2>1. UNCHANGED chain \/ \E e \in pub.todo : Mined([Registry EXCEPT !.bound = @ \ {e}],
                                                     [type |-> "EndpointUnbound", arg |-> e])
    BY <1>4 DEF PublishUnbind
  <2>2. ASSUME NEW e \in pub.todo,
               Mined([Registry EXCEPT !.bound = @ \ {e}], [type |-> "EndpointUnbound", arg |-> e])
        PROVE  \E reg, ev : Extends(reg, ev)
    <3> DEFINE new == [Registry EXCEPT !.bound = @ \ {e}]
               ev == [type |-> "EndpointUnbound", arg |-> e]
    <3>1. new \in RegistryState /\ new.root = Registry.root /\ new.status = Registry.status
      BY <1>0 DEF RegistryState
    <3>2. ev \in Event /\ ev.type = "EndpointUnbound" /\ Mined(new, ev)
      BY <2>2 DEF Event, Arg, PubType
    <3> HIDE DEF new, ev
    <3> QED BY <3>1, <3>2, MinedSame
  <2> QED BY <2>1, <2>2
<1> QED BY <1>1, <1>2, <1>3, <1>4

\* A block without a transaction.
LEMMA MinedEmpty ==
  ASSUME ChainType, MineEmpty
  PROVE  \E reg, ev : Extends(reg, ev)
<1>1. NoEvent \in Event /\ NoEvent.type = "none"
  BY DEF NoEvent, Event, Arg
<1>2. Mined(Registry, NoEvent) /\ Registry \in RegistryState
  BY ChainFacts DEF MineEmpty
<1> QED BY <1>1, <1>2, MinedSame

-----------------------------------------------------------------------------
(* The steps, by what they do to the chain.                                *)

Verifies == \E t \in Thread : Verify(t) \/ ColdUnavailable(t)
Publishes == (\E v \in Version : PublishStart(v)) \/ Publish \/ PublishFails
Watches == Watcher \/ WatcherRestarts
Revokes == RevokeResolver \/ \E v \in Version : RevokeRoot(v)

\* Every step, by who takes it.
LEMMA NextSplit ==
  ASSUME [Next]_vars
  PROVE  \/ Verifies \/ QueryStart \/ Forward \/ Release
         \/ Publishes \/ Watches \/ MineEmpty \/ Revokes
         \/ (\E n \in 1..Len(chain) : Reorg(n))
         \/ Tick \/ UNCHANGED vars
  BY DEF Next, Coordinate, Verifies, Publishes, Watches, Revokes

\* Counting an incident counts no reorganisation.
LEMMA IncidentsFields ==
  ASSUME SpentType
  PROVE  /\ Incidents \in [incidents : Nat, reorgs : Nat, height : Nat]
         /\ Incidents.reorgs = spent.reorgs
  BY DEF SpentType, Incidents

\* A verification changes the rows and the threads only.
LEMMA VerifiesFrame ==
  ASSUME Verifies
  PROVE  UNCHANGED <<chain, idx, pub, watch, disk, time, spent>>
<1>1. ASSUME NEW t \in Thread, ReadGeneration(t) \/ ReadRow(t) \/ CheckRow(t) \/ TouchRow(t) \/ ExpireRow(t)
      PROVE  UNCHANGED <<chain, idx, pub, watch, disk, time, spent>>
  BY <1>1 DEF ReadGeneration, ReadRow, CheckRow, TouchRow, ExpireRow
<1>2. ASSUME NEW t \in Thread, ColdStart(t) \/ ColdAnchor(t) \/ StoreVerified(t) \/ ColdUnavailable(t)
      PROVE  UNCHANGED <<chain, idx, pub, watch, disk, time, spent>>
  BY <1>2 DEF ColdStart, ColdAnchor, StoreVerified, ColdUnavailable
<1>3. ASSUME NEW t \in Thread, \/ ColdLookup(t) \/ ColdBound(t) \/ ColdObject(t)
                               \/ ColdRoot(t) \/ ColdProof(t) \/ FinalBound(t) \/ FinalAnchor(t)
                               \/ FinalRoot(t)
      PROVE  UNCHANGED <<chain, idx, pub, watch, disk, time, spent>>
  BY <1>3 DEF ColdLookup, ColdBound, ColdObject, ColdRoot, ColdProof, FinalBound, FinalAnchor,
              FinalRoot, ColdStep
<1> QED BY <1>1, <1>2, <1>3 DEF Verifies, Verify

\* A publication changes the chain and the indexer only.
LEMMA PublishesFrame ==
  ASSUME ChainType, SpentType, PubType, Publishes
  PROVE  /\ UNCHANGED <<rows, th, watch, disk, time>>
         /\ UNCHANGED chain \/ \E reg, ev : Extends(reg, ev)
         /\ spent' \in [incidents : Nat, reorgs : Nat, height : Nat]
         /\ spent'.reorgs = spent.reorgs
<1>1. CASE \E v \in Version : PublishStart(v)
  BY <1>1 DEF PublishStart, SpentType
<1>2. CASE PublishFails
  BY <1>2, IncidentsFields DEF PublishFails
<1>3. CASE PublishRoot \/ PublishAnchor \/ PublishBind \/ PublishUnbind
  <2>1. UNCHANGED <<rows, th, watch, disk, time, spent>>
    BY <1>3 DEF PublishRoot, PublishAnchor, PublishBind, PublishUnbind
  <2> QED BY <1>3, <2>1, MinedPublication DEF SpentType
<1>4. CASE PublishObject \/ PublishProof \/ PublishLookup \/ PublishEndpoints
  BY <1>4 DEF PublishObject, PublishProof, PublishLookup, PublishEndpoints, SpentType
<1> QED BY <1>1, <1>2, <1>3, <1>4 DEF Publishes, Publish

\* The watcher changes nothing on the chain but the history flags.
LEMMA WatchesFrame ==
  ASSUME SpentType, Watches
  PROVE  /\ UNCHANGED <<idx, pub, time>>
         /\ UNCHANGED chain \/ chain' = HandledBlock
         /\ spent' \in [incidents : Nat, reorgs : Nat, height : Nat]
         /\ spent'.reorgs = spent.reorgs
<1>1. CASE PollStart \/ RollbackForReorg \/ FetchLogs \/ HandleEvent \/ InvalidateBump
           \/ PollEnd \/ ReconcileList \/ ReconcileRow \/ Persist
  BY <1>1 DEF PollStart, RollbackForReorg, FetchLogs, HandleEvent, InvalidateBump, PollEnd,
              ReconcileList, ReconcileRow, Persist, SpentType
<1>2. CASE Quarantine \/ ApplyEvent \/ InvalidateMark
  BY <1>2 DEF Quarantine, ApplyEvent, InvalidateMark, Invalidate, SpentType
<1>3. CASE WatcherRestarts
  BY <1>3, IncidentsFields DEF WatcherRestarts, SpentType
<1> QED BY <1>1, <1>2, <1>3 DEF Watches, Watcher

\* The coordinator and the clock leave the chain, the rows and the watcher
\* alone.
LEMMA OthersFrame ==
  ASSUME SpentType, QueryStart \/ Forward \/ Release \/ Tick \/ UNCHANGED vars
  PROVE  /\ UNCHANGED <<chain, idx, pub, rows, watch, disk>>
         /\ spent' \in [incidents : Nat, reorgs : Nat, height : Nat]
         /\ spent'.reorgs = spent.reorgs
  BY IncidentsFields DEF QueryStart, Forward, Release, Tick, vars, SpentType

\* A reorganisation cuts the chain.
LEMMA ReorgFrame ==
  ASSUME ChainType, SpentType, NEW n \in 1..Len(chain), Reorg(n)
  PROVE  /\ n < Len(chain) /\ chain' = SubSeq(chain, 1, n)
         /\ spent' \in [incidents : Nat, reorgs : Nat, height : Nat]
         /\ spent'.reorgs = spent.reorgs + 1
         /\ th' = [th EXCEPT !["query"].late = FALSE]
         /\ UNCHANGED <<idx, pub, rows, watch, disk, time>>
<1>1. n \in 1..(Len(chain) - 1) /\ Len(chain) \in Nat
  BY ChainFacts DEF Reorg
<1>2. spent' = [Incidents EXCEPT !.reorgs = @ + 1, !.height = Len(chain)]
  BY DEF Reorg
<1> DEFINE inc == Incidents
<1>3. inc \in [incidents : Nat, reorgs : Nat, height : Nat] /\ inc.reorgs = spent.reorgs
  BY IncidentsFields
<1>4. spent' = [inc EXCEPT !.reorgs = inc.reorgs + 1, !.height = Len(chain)]
  BY <1>2
<1> HIDE DEF inc
<1>5. spent' \in [incidents : Nat, reorgs : Nat, height : Nat] /\ spent'.reorgs = spent.reorgs + 1
  <2>1. inc.incidents \in Nat /\ inc.reorgs \in Nat /\ inc.reorgs + 1 \in Nat
    BY <1>3
  <2>2. spent' = [incidents |-> inc.incidents, reorgs |-> inc.reorgs + 1, height |-> Len(chain)]
    BY <1>3, <1>4
  <2> QED BY <1>1, <1>3, <2>1, <2>2
<1> QED BY <1>1, <1>5 DEF Reorg

\* A step leaves the chain alone, adds a block, drops the last ones, or marks a
\* block as handled.
ChainStep ==
  \/ UNCHANGED chain /\ spent'.reorgs = spent.reorgs
  \/ /\ \E reg, ev : Extends(reg, ev)
     /\ spent'.reorgs = spent.reorgs /\ UNCHANGED <<rows, th, watch>>
  \/ \E n \in 1..Len(chain) : Reorg(n)
  \/ chain' = HandledBlock /\ spent'.reorgs = spent.reorgs /\ Watches

\* Every step is one of the four.
LEMMA ChainSteps ==
  ASSUME ChainType, SpentType, PubType, [Next]_vars
  PROVE  ChainStep /\ SpentType'
<1>1. CASE Verifies
  BY <1>1, VerifiesFrame DEF ChainStep, SpentType
<1>2. CASE Publishes
  BY <1>2, PublishesFrame DEF ChainStep, SpentType
<1>3. CASE Watches
  BY <1>3, WatchesFrame DEF ChainStep, SpentType
<1>4. CASE QueryStart \/ Forward \/ Release \/ Tick \/ UNCHANGED vars
  BY <1>4, OthersFrame DEF ChainStep, SpentType
<1>5. CASE \E n \in 1..Len(chain) : Reorg(n)
  BY <1>5, ReorgFrame DEF ChainStep, SpentType
<1>6. CASE Revokes
  <2>1. spent' = Incidents /\ UNCHANGED <<rows, th, watch>>
    BY <1>6 DEF Revokes, RevokeResolver, RevokeRoot
  <2> QED BY <1>6, <2>1, MinedRevocation, IncidentsFields DEF ChainStep, SpentType, Revokes
<1>7. CASE MineEmpty
  <2>1. UNCHANGED <<rows, th, watch, spent>>
    BY <1>7 DEF MineEmpty
  <2> QED BY <1>7, <2>1, MinedEmpty DEF ChainStep, SpentType
<1> QED BY <1>1, <1>2, <1>3, <1>4, <1>5, <1>6, <1>7, NextSplit

-----------------------------------------------------------------------------
(* What becomes of a block.                                                *)

\* Block i of the new chain is block i of the old one, perhaps handled by now.
Kept(i) ==
  /\ i \in 1..Len(chain)
  /\ chain'[i].fork = chain[i].fork /\ chain'[i].event = chain[i].event
  /\ chain'[i].reg = chain[i].reg
  /\ chain'[i].handled => chain[i].handled \/ watch.block = <<i, chain[i].fork>>

\* The chain with one more block.
LEMMA ExtendsFields ==
  ASSUME ChainType, SpentType, NEW reg, NEW ev, Extends(reg, ev)
  PROVE  /\ chain' \in Seq(Block) /\ Len(chain') = Len(chain) + 1
         /\ \A i \in 1..Len(chain) : chain'[i] = chain[i]
         /\ chain'[Len(chain) + 1] = [fork |-> spent.reorgs, event |-> ev, handled |-> FALSE, reg |-> reg]
<1> DEFINE b == [fork |-> spent.reorgs, event |-> ev, handled |-> FALSE, reg |-> reg]
<1>1. b \in Block
  BY DEF Extends, SpentType, Block
<1>2. chain' = Append(chain, b) /\ chain \in Seq(Block)
  BY DEF Extends, Mined, ChainType
<1> HIDE DEF b
<1>3. QED BY <1>1, <1>2 DEF b

\* The chain with the block of the watcher marked.
LEMMA HandledFields ==
  ASSUME ChainType, watch.block = <<watch.block[1], watch.block[2]>>, chain' = HandledBlock
  PROVE  /\ chain' \in Seq(Block) /\ Len(chain') = Len(chain)
         /\ \A i \in 1..Len(chain) : Kept(i)
         /\ \A i \in 1..Len(chain) : chain'[i].handled <=>
              chain[i].handled \/ watch.block = <<i, chain[i].fork>>
<1> DEFINE n == watch.block[1]
<1>0. \A i \in 1..Len(chain) : chain[i] \in Block
  BY ChainFacts
<1>1. CASE n \in 1..Len(chain) /\ chain[n].fork = watch.block[2]
  <2>1. chain' = [chain EXCEPT ![n].handled = TRUE]
    BY <1>1 DEF HandledBlock
  <2>2. [chain[n] EXCEPT !.handled = TRUE] \in Block
    BY <1>0, <1>1 DEF Block
  <2>3. chain' \in Seq(Block) /\ Len(chain') = Len(chain)
    BY <1>1, <2>1, <2>2 DEF ChainType
  <2>4. chain'[n] = [chain[n] EXCEPT !.handled = TRUE]
        /\ \A i \in 1..Len(chain) : i # n => chain'[i] = chain[i]
    <3>1. DOMAIN chain = 1..Len(chain)
      BY DEF ChainType
    <3> HIDE DEF n
    <3> QED BY <1>1, <2>1, <3>1
  <2>5. /\ chain'[n].fork = chain[n].fork /\ chain'[n].event = chain[n].event
        /\ chain'[n].reg = chain[n].reg /\ chain'[n].handled = TRUE
    BY <1>0, <1>1, <2>4 DEF Block
  <2>6. watch.block = <<n, chain[n].fork>>
    BY <1>1
  <2> HIDE DEF n
  <2>7. ASSUME NEW i \in 1..Len(chain)
        PROVE  Kept(i) /\ (chain'[i].handled <=> chain[i].handled \/ watch.block = <<i, chain[i].fork>>)
    <3>1. CASE i = n
      BY <3>1, <2>5, <2>6, <1>1 DEF Kept
    <3>2. CASE i # n
      <4>1. watch.block # <<i, chain[i].fork>>
        BY <3>2, <2>6
      <4> QED BY <4>1, <3>2, <2>4 DEF Kept
    <3> QED BY <3>1, <3>2
  <2> QED BY <2>3, <2>7
<1>2. CASE ~(n \in 1..Len(chain) /\ chain[n].fork = watch.block[2])
  <2>1. chain' = chain
    BY <1>2 DEF HandledBlock
  <2>2. \A i \in 1..Len(chain) : watch.block # <<i, chain[i].fork>>
    BY <1>2
  <2> QED BY <2>1, <2>2 DEF Kept, ChainType
<1> QED BY <1>1, <1>2

\* Every block of the new chain is an old one or the one that was just mined.
LEMMA BlocksKept ==
  ASSUME ChainType, SpentType, PubType, KnownInv, [Next]_vars
  PROVE  /\ ChainType'
         /\ spent.reorgs \in Nat
         /\ \/ spent'.reorgs = spent.reorgs /\ Len(chain') >= Len(chain)
            \/ spent'.reorgs = spent.reorgs + 1 /\ Len(chain') <= Len(chain)
         /\ \A i \in 1..Len(chain') :
              \/ Kept(i)
              \/ /\ i = Len(chain) + 1 /\ chain'[i].fork = spent.reorgs /\ ~chain'[i].handled
                 /\ spent'.reorgs = spent.reorgs /\ UNCHANGED watch
<1>0. Len(chain) \in Nat /\ Len(chain) >= 1 /\ spent.reorgs \in Nat /\ chain \in Seq(Block)
  BY ChainFacts DEF SpentType, ChainType
<1>1. CASE UNCHANGED chain /\ spent'.reorgs = spent.reorgs
  BY <1>0, <1>1 DEF ChainType, Kept
<1>2. ASSUME NEW reg, NEW ev, Extends(reg, ev), spent'.reorgs = spent.reorgs
      PROVE  /\ ChainType' /\ Len(chain') >= Len(chain)
             /\ \A i \in 1..Len(chain') :
                  \/ Kept(i)
                  \/ i = Len(chain) + 1 /\ chain'[i].fork = spent.reorgs /\ ~chain'[i].handled
  <2>1. /\ chain' \in Seq(Block) /\ Len(chain') = Len(chain) + 1
        /\ \A i \in 1..Len(chain) : chain'[i] = chain[i]
        /\ chain'[Len(chain) + 1]
             = [fork |-> spent.reorgs, event |-> ev, handled |-> FALSE, reg |-> reg]
    BY <1>2, ExtendsFields
  <2>0. chain'[Len(chain) + 1].fork = spent.reorgs /\ ~chain'[Len(chain) + 1].handled
    BY <2>1
  <2>2. \A i \in 1..Len(chain') : i \in 1..Len(chain) \/ i = Len(chain) + 1
    BY <1>0, <2>1
  <2>3. chain' # <<>> /\ Len(chain') >= Len(chain)
    BY <1>0, <2>1
  <2> QED BY <2>0, <2>1, <2>2, <2>3 DEF ChainType, Kept
<1>3. ASSUME NEW n \in 1..Len(chain), Reorg(n)
      PROVE  /\ ChainType' /\ Len(chain') <= Len(chain) /\ spent'.reorgs = spent.reorgs + 1
             /\ \A i \in 1..Len(chain') : Kept(i)
  <2>1. n < Len(chain) /\ chain' = SubSeq(chain, 1, n) /\ spent'.reorgs = spent.reorgs + 1
    BY <1>3, ReorgFrame
  <2>2. chain' \in Seq(Block) /\ Len(chain') = n /\ \A i \in 1..n : chain'[i] = chain[i]
    BY <1>0, <2>1
  <2>3. Len(chain') <= Len(chain) /\ chain' # <<>> /\ \A i \in 1..n : i \in 1..Len(chain)
    BY <1>0, <2>1, <2>2
  <2>4. \A i \in 1..Len(chain') : Kept(i)
    BY <2>2, <2>3 DEF Kept
  <2> QED BY <2>1, <2>2, <2>3, <2>4 DEF ChainType
<1>4. CASE chain' = HandledBlock /\ spent'.reorgs = spent.reorgs
  <2>1. watch.block = <<watch.block[1], watch.block[2]>>
    BY DEF KnownInv
  <2>2. chain' \in Seq(Block) /\ Len(chain') = Len(chain) /\ \A i \in 1..Len(chain) : Kept(i)
    BY <1>4, <2>1, HandledFields
  <2> QED BY <1>0, <1>4, <2>2 DEF ChainType
<1> QED BY <1>0, <1>1, <1>2, <1>3, <1>4, ChainSteps DEF ChainStep

\* Who knows a block goes on knowing it.
LEMMA KnownKept ==
  ASSUME ChainType, SpentType, PubType, KnownInv, [Next]_vars,
         NEW n, NEW f, NEW e, Known(n, f, e)
  PROVE  Known(n, f, e)'
<1>1. /\ Len(chain) \in Nat /\ Len(chain') \in Nat /\ spent.reorgs \in Nat /\ n \in Nat /\ f \in Nat
      /\ f <= spent.reorgs
  <2>1. ChainType'
    BY BlocksKept
  <2> QED BY <2>1, ChainFacts DEF Known, ChainType, SpentType
<1>2. CASE spent'.reorgs = spent.reorgs + 1
  <2>1. f <= spent'.reorgs /\ f # spent'.reorgs
    BY <1>1, <1>2
  <2>2. \A i \in 1..Len(chain') : Kept(i)
    <3>1. spent'.reorgs # spent.reorgs
      BY <1>1, <1>2
    <3> QED BY <3>1, BlocksKept
  <2> QED BY <1>1, <2>1, <2>2 DEF Known, Kept
<1>3. CASE spent'.reorgs = spent.reorgs /\ Len(chain') >= Len(chain)
  <2>1. f = spent'.reorgs => n <= Len(chain')
    BY <1>1, <1>3 DEF Known
  <2>2. ASSUME n \in 1..Len(chain'), chain'[n].fork = f
        PROVE  chain'[n].event = e
    <3>1. CASE Kept(n)
      BY <2>2, <3>1 DEF Kept, Known
    <3>2. CASE n = Len(chain) + 1 /\ chain'[n].fork = spent.reorgs
      <4>1. n <= Len(chain)
        BY <2>2, <3>2 DEF Known
      <4> QED BY <1>1, <3>2, <4>1
    <3> QED BY <2>2, <3>1, <3>2, BlocksKept
  <2> QED BY <1>1, <1>3, <2>1, <2>2 DEF Known
<1> QED BY <1>2, <1>3, BlocksKept

\* No block is of a branch yet to come.
LEMMA ForkKept ==
  ASSUME ChainType, SpentType, PubType, KnownInv, ForkInv, [Next]_vars
  PROVE  ForkInv'
<1> SUFFICES ASSUME NEW i \in 1..Len(chain')
             PROVE  chain'[i].fork <= spent'.reorgs
  BY DEF ForkInv
<1>1. CASE Kept(i)
  <2>1. chain[i].fork \in Nat
    BY <1>1, ChainFacts DEF Kept, Block
  <2>2. chain[i].fork <= spent.reorgs /\ chain'[i].fork = chain[i].fork
    BY <1>1 DEF Kept, ForkInv
  <2>3. spent.reorgs \in Nat /\ (spent'.reorgs = spent.reorgs \/ spent'.reorgs = spent.reorgs + 1)
    BY BlocksKept
  <2> QED BY <2>1, <2>2, <2>3
<1>2. CASE chain'[i].fork = spent.reorgs /\ spent'.reorgs = spent.reorgs
  BY <1>2 DEF SpentType
<1> QED BY <1>1, <1>2, BlocksKept

\* What was revoked on a branch stays revoked there.
LEMMA RevokedKept ==
  ASSUME ChainType, SpentType, PubType, KnownInv, RevokedInv, [Next]_vars
  PROVE  RevokedInv'
<1> DEFINE Held(i, j) ==
      /\ chain'[i].event.type = "ResolverRevoked" => chain'[j].reg.status = "REVOKED"
      /\ \A v \in Version : chain'[i].event = [type |-> "RootRevoked", arg |-> v]
                              => chain'[j].reg.root[v] = "REVOKED"
<1>0. Len(chain) \in Nat /\ Len(chain) >= 1
  BY ChainFacts
<1>1. ASSUME NEW i \in 1..Len(chain), NEW j \in i..Len(chain),
             chain'[i].event = chain[i].event, chain'[j].reg = chain[j].reg
      PROVE  Held(i, j)
  BY <1>1 DEF RevokedInv
<1>2. ASSUME NEW reg, NEW ev, Extends(reg, ev)
      PROVE  RevokedInv'
  <2>1. /\ Len(chain') = Len(chain) + 1
        /\ \A i \in 1..Len(chain) : chain'[i] = chain[i]
        /\ chain'[Len(chain) + 1]
             = [fork |-> spent.reorgs, event |-> ev, handled |-> FALSE, reg |-> reg]
    BY <1>2, ExtendsFields
  <2>2. chain'[Len(chain) + 1].event = ev /\ chain'[Len(chain) + 1].reg = reg
    BY <2>1
  <2>3. ASSUME NEW i \in 1..Len(chain)
        PROVE  Held(i, Len(chain) + 1)
    <3>1. chain'[i] = chain[i] /\ Len(chain) \in i..Len(chain)
      BY <1>0, <2>1
    <3>2. /\ chain[i].event.type = "ResolverRevoked" => Registry.status = "REVOKED"
          /\ \A v \in Version : chain[i].event = [type |-> "RootRevoked", arg |-> v]
                                  => Registry.root[v] = "REVOKED"
      BY <3>1 DEF RevokedInv, Registry
    <3> QED BY <1>2, <2>2, <3>1, <3>2 DEF Extends
  <2>4. Held(Len(chain) + 1, Len(chain) + 1)
    BY <1>2, <2>2 DEF Extends
  <2>5. ASSUME NEW i \in 1..Len(chain'), NEW j \in i..Len(chain')
        PROVE  Held(i, j)
    <3>1. \/ i \in 1..Len(chain) /\ j \in i..Len(chain)
          \/ i \in 1..Len(chain) /\ j = Len(chain) + 1
          \/ i = Len(chain) + 1 /\ j = Len(chain) + 1
      BY <1>0, <2>1
    <3>2. CASE i \in 1..Len(chain) /\ j \in i..Len(chain)
      <4>1. j \in 1..Len(chain)
        BY <1>0, <3>2
      <4>2. chain'[i].event = chain[i].event /\ chain'[j].reg = chain[j].reg
        BY <2>1, <3>2, <4>1
      <4> QED BY <1>1, <3>2, <4>2
    <3> HIDE DEF Held
    <3> QED BY <2>3, <2>4, <3>1, <3>2
  <2> QED BY <2>5 DEF RevokedInv
<1>3. ASSUME \A i \in 1..Len(chain') : Kept(i)
      PROVE  RevokedInv'
  <2>1. Len(chain') \in Nat
    BY BlocksKept, ChainFacts DEF ChainType
  <2>2. ASSUME NEW i \in 1..Len(chain'), NEW j \in i..Len(chain')
        PROVE  Held(i, j)
    <3>1. j \in 1..Len(chain')
      BY <2>1
    <3>2. Kept(i) /\ Kept(j)
      BY <1>3, <3>1
    <3>3. i \in 1..Len(chain) /\ j \in i..Len(chain)
      BY <1>0, <2>1, <3>2 DEF Kept
    <3> QED BY <1>1, <3>2, <3>3 DEF Kept
  <2> QED BY <2>2 DEF RevokedInv
<1>4. CASE spent'.reorgs = spent.reorgs /\ (UNCHANGED chain \/ chain' = HandledBlock)
  <2>1. CASE chain' = HandledBlock
    <3>1. Len(chain') = Len(chain) /\ \A i \in 1..Len(chain) : Kept(i)
      BY <2>1, HandledFields DEF KnownInv
    <3> QED BY <1>3, <3>1
  <2>2. CASE UNCHANGED chain
    BY <2>2, <1>3 DEF Kept
  <2> QED BY <1>4, <2>1, <2>2
<1>5. ASSUME NEW n \in 1..Len(chain), Reorg(n)
      PROVE  RevokedInv'
  <2>1. spent'.reorgs = spent.reorgs + 1 /\ spent.reorgs \in Nat
    BY <1>5, ReorgFrame DEF SpentType
  <2>2. spent'.reorgs # spent.reorgs
    BY <2>1
  <2> QED BY <1>3, <2>2, BlocksKept
<1> QED BY <1>2, <1>4, <1>5, ChainSteps DEF ChainStep

\* Every step keeps the types of the publisher's state.
LEMMA PublicationKept ==
  ASSUME ChainType, SpentType, PubType, [Next]_vars
  PROVE  PubType'
<1>0. \A v \in Version : EndpointsOf[v] \subseteq Endpoint
  BY Parameters DEF Version
<1>1. ASSUME NEW v \in Version, PublishStart(v)
      PROVE  PubType'
  <2>1. pub' = [pc |-> "root", v |-> v, todo |-> EndpointsOf[v], old |-> idx.endpoints \ EndpointsOf[v]]
        /\ UNCHANGED idx
    BY <1>1 DEF PublishStart
  <2> QED BY <1>0, <2>1 DEF PubType
<1>2. ASSUME UNCHANGED idx, pub' = PubIdle
      PROVE  PubType'
  BY <1>2 DEF PubType, PubIdle
<1>3. ASSUME NEW pc, PubGoto(pc), UNCHANGED idx, pub.pc # "idle"
      PROVE  PubType'
  BY <1>3 DEF PubType, PubGoto
<1>4. CASE PublishRoot \/ PublishAnchor
  BY <1>2, <1>3, <1>4 DEF PublishRoot, PublishAnchor
<1>5. ASSUME NEW e, Bound(e), UNCHANGED idx, pub.pc # "idle"
      PROVE  PubType'
  BY <1>5 DEF Bound, PubType
<1>6. CASE PublishBind
  BY <1>2, <1>5, <1>6 DEF PublishBind
<1>7. CASE PublishUnbind
  BY <1>7 DEF PublishUnbind, PubType
<1>8. CASE PublishObject \/ PublishProof \/ PublishLookup
  <2>1. PICK pc : PubGoto(pc)
    BY <1>8 DEF PublishObject, PublishProof, PublishLookup
  <2>2. pub.pc # "idle"
    BY <1>8 DEF PublishObject, PublishProof, PublishLookup
  <2>3. PICK object, proof, lookup :
          idx' = [object |-> object, proof |-> proof, lookup |-> lookup, endpoints |-> idx.endpoints]
    <3>1. CASE PublishObject
      BY <3>1 DEF PublishObject, PubType
    <3>2. CASE PublishProof
      BY <3>2 DEF PublishProof, PubType
    <3>3. CASE PublishLookup
      <4> DEFINE new == DeleteLookups(PutLookups(idx.lookup, EndpointsOf[pub.v]), pub.old)
      <4>1. idx' = [idx EXCEPT !.lookup = new]
        BY <3>3 DEF PublishLookup
      <4> HIDE DEF new
      <4> QED BY <4>1 DEF PubType
    <3> QED BY <1>8, <3>1, <3>2, <3>3
  <2> QED BY <2>1, <2>2, <2>3 DEF PubType, PubGoto
<1>9. CASE PublishEndpoints
  <2>1. pub.v \in Version
    BY <1>9 DEF PublishEndpoints, PubType
  <2>2. idx' = [idx EXCEPT !.endpoints = EndpointsOf[pub.v]] /\ pub' = PubIdle
    BY <1>9 DEF PublishEndpoints
  <2> QED BY <1>0, <2>1, <2>2 DEF PubType, PubIdle
<1>10. CASE PublishFails
  BY <1>2, <1>10 DEF PublishFails
<1>11. CASE Publishes
  BY <1>1, <1>4, <1>6, <1>7, <1>8, <1>9, <1>10, <1>11 DEF Publishes, Publish
<1>12. ASSUME UNCHANGED <<idx, pub>>
       PROVE  PubType'
  BY <1>12 DEF PubType
<1>13. CASE MineEmpty \/ Revokes
  BY <1>12, <1>13 DEF MineEmpty, Revokes, RevokeResolver, RevokeRoot
<1> QED BY <1>11, <1>12, <1>13, NextSplit, VerifiesFrame, WatchesFrame, OthersFrame, ReorgFrame

-----------------------------------------------------------------------------
(* The rows of the cache.                                                  *)

\* What an UPDATE makes of a row.
LEMMA MarkedRow ==
  ASSUME RowsType, NEW keys, NEW status \in Status, NEW k \in Key, NEW row,
         row = Marked(keys, status)[k]
  PROVE  /\ IsRow(row)
         /\ Trusted(row) /\ ~row.revived => Trusted(rows[k]) /\ ~rows[k].revived
         /\ k \in keys /\ status \in {"REVOKED", "EXPIRED"} => ~Trusted(row)
<1>0. IsRow(rows[k])
  BY DEF RowsType
<1>1. CASE k \in keys /\ rows[k] # Nothing
  <2> DEFINE revived == status \in {"VERIFIED", "REFRESHING"} /\ (rows[k].revived \/ ~Trusted(rows[k]))
  <2>1. row = [rows[k] EXCEPT !.status = status, !.revived = revived]
    BY <1>1 DEF Marked
  <2>2. rows[k] = [status |-> rows[k].status, at |-> rows[k].at, soft |-> rows[k].soft,
                   hard |-> rows[k].hard, revived |-> rows[k].revived]
    BY <1>0, <1>1 DEF IsRow
  <2> HIDE DEF revived
  <2>3. row = [status |-> status, at |-> rows[k].at, soft |-> rows[k].soft,
               hard |-> rows[k].hard, revived |-> revived]
    BY <2>1, <2>2
  <2>4. row.status = status /\ row.revived = revived
    BY <2>3
  <2>5. IsRow(row)
    BY <2>3, <2>4 DEF IsRow
  <2>6. Trusted(row) /\ ~row.revived => Trusted(rows[k]) /\ ~rows[k].revived
    BY <2>4 DEF revived, Trusted
  <2>7. status \in {"REVOKED", "EXPIRED"} => ~Trusted(row)
    BY <2>4 DEF Trusted
  <2> QED BY <2>5, <2>6, <2>7
<1>2. CASE ~(k \in keys /\ rows[k] # Nothing)
  <2>1. row = rows[k]
    BY <1>2 DEF Marked
  <2>2. k \in keys => ~Trusted(row)
    BY <1>2, <2>1 DEF Trusted, Nothing
  <2> QED BY <1>0, <2>1, <2>2
<1> QED BY <1>1, <1>2

\* The rows are marked.
LEMMA RowsMarked ==
  ASSUME RowsType, NEW keys, NEW status \in Status, rows' = Marked(keys, status)
  PROVE  /\ RowsType' /\ Plain' \subseteq Plain
         /\ status \in {"REVOKED", "EXPIRED"} => Plain' \cap keys = {}
<1>1. ASSUME NEW k \in Key
      PROVE  /\ IsRow(rows'[k])
             /\ Trusted(rows'[k]) /\ ~rows'[k].revived => Trusted(rows[k]) /\ ~rows[k].revived
             /\ k \in keys /\ status \in {"REVOKED", "EXPIRED"} => ~Trusted(rows'[k])
  BY MarkedRow
<1>2. rows' = [k \in Key |-> rows'[k]]
  BY DEF Marked
<1> QED BY <1>1, <1>2 DEF RowsType, Plain

\* A verification stores a row whose generation is current.
Stores(t) == StoreVerified(t) /\ th[t].current

\* put_if_generation stores one row, or none when the generation has moved.
LEMMA RowsStored ==
  ASSUME RowsType, ThreadType, NEW t \in Thread, StoreVerified(t)
  PROVE  /\ RowsType' /\ <<th[t].e, th[t].ver>> \in Key
         /\ Plain' \subseteq Plain \cup {<<th[t].e, th[t].ver>>}
         /\ ~th[t].current => UNCHANGED rows
<1> DEFINE key == <<th[t].e, th[t].ver>>
           row == VerifiedRow(th[t].now)
<1>1. key \in Key
  BY DEF StoreVerified, ThreadType, IsThread, Verifying, Anchored, Key
<1>2. IsRow(row)
  BY DEF VerifiedRow, IsRow, Status
<1>3. rows' = IF th[t].current THEN [rows EXCEPT ![key] = row] ELSE rows
  BY DEF StoreVerified, PutIfGeneration
<1> HIDE DEF key, row
<1>4. rows' = [k \in Key |-> rows'[k]] /\ \A k \in Key : k # key => rows'[k] = rows[k]
  BY <1>1, <1>3 DEF RowsType
<1>5. rows'[key] = row \/ rows'[key] = rows[key]
  BY <1>1, <1>3 DEF RowsType
<1>6. RowsType'
  BY <1>1, <1>2, <1>4, <1>5 DEF RowsType
<1>7. Plain' \subseteq Plain \cup {key}
  BY <1>4 DEF Plain
<1> QED BY <1>1, <1>3, <1>6, <1>7 DEF key

\* A row becomes trusted only by put_if_generation with a current generation.
LEMMA RowsKept ==
  ASSUME ChainType, SpentType, PubType, RowsType, ThreadType, WatchType, [Next]_vars
  PROVE  /\ RowsType'
         /\ \/ Plain' \subseteq Plain
            \/ \E t \in Thread : /\ Stores(t) /\ <<th[t].e, th[t].ver>> \in Key
                                 /\ Plain' \subseteq Plain \cup {<<th[t].e, th[t].ver>>}
<1>0. ASSUME UNCHANGED rows
      PROVE  RowsType' /\ Plain' \subseteq Plain
  BY <1>0 DEF RowsType, Plain
<1>1. ASSUME NEW t \in Thread, TouchRow(t) \/ ExpireRow(t)
      PROVE  RowsType' /\ Plain' \subseteq Plain
  <2>1. UNCHANGED rows \/ \E keys : \E status \in Status : rows' = Marked(keys, status)
    <3>1. EffectiveStatus(t) \in Status /\ "EXPIRED" \in Status
      BY DEF EffectiveStatus, Status
    <3> QED BY <1>1, <3>1 DEF TouchRow, ExpireRow
  <2> QED BY <1>0, <2>1, RowsMarked
<1>2. ASSUME NEW t \in Thread, StoreVerified(t)
      PROVE  /\ RowsType'
             /\ \/ Plain' \subseteq Plain
                \/ /\ Stores(t) /\ <<th[t].e, th[t].ver>> \in Key
                   /\ Plain' \subseteq Plain \cup {<<th[t].e, th[t].ver>>}
  <2>1. CASE th[t].current
    BY <1>2, <2>1, RowsStored DEF Stores
  <2>2. CASE ~th[t].current
    BY <1>0, <1>2, <2>2, RowsStored
  <2> QED BY <2>1, <2>2
<1>3. ASSUME NEW t \in Thread, \/ ReadGeneration(t) \/ ReadRow(t) \/ CheckRow(t)
                               \/ ColdStart(t) \/ ColdLookup(t) \/ ColdBound(t) \/ ColdAnchor(t)
                               \/ ColdObject(t) \/ ColdRoot(t) \/ ColdProof(t) \/ FinalBound(t)
                               \/ FinalAnchor(t) \/ FinalRoot(t) \/ ColdUnavailable(t)
      PROVE  UNCHANGED rows
  BY <1>3 DEF ReadGeneration, ReadRow, CheckRow, ColdStart, ColdLookup, ColdBound, ColdAnchor,
       ColdObject, ColdRoot, ColdProof, FinalBound, FinalAnchor, FinalRoot, ColdStep, ColdUnavailable
<1>4. CASE Verifies
  BY <1>0, <1>1, <1>2, <1>3, <1>4 DEF Verifies, Verify
<1>5. CASE Watches
  <2>1. UNCHANGED rows \/ \E keys : \E status \in Status : rows' = Marked(keys, status)
    <3>1. CASE PollStart \/ Quarantine \/ RollbackForReorg \/ FetchLogs \/ HandleEvent
               \/ InvalidateBump \/ PollEnd \/ ReconcileList \/ ReconcileRow \/ Persist
               \/ WatcherRestarts
      BY <3>1 DEF PollStart, Quarantine, RollbackForReorg, FetchLogs, HandleEvent,
           InvalidateBump, PollEnd, ReconcileList, ReconcileRow, Persist, WatcherRestarts
    <3>2. CASE ApplyEvent
      <4>1. "REVOKED" \in Status
        BY DEF Status
      <4> QED BY <3>2, <4>1 DEF ApplyEvent
    <3>3. CASE InvalidateMark
      <4>1. PICK item \in watch.todo : rows' = Marked({item[1]}, item[2])
        BY <3>3 DEF InvalidateMark
      <4>2. item[2] \in Status
        BY DEF WatchType, Status
      <4> QED BY <4>1, <4>2
    <3> QED BY <1>5, <3>1, <3>2, <3>3 DEF Watches, Watcher
  <2> QED BY <1>0, <2>1, RowsMarked
<1>6. CASE MineEmpty \/ Revokes
  BY <1>0, <1>6 DEF MineEmpty, Revokes, RevokeResolver, RevokeRoot
<1> QED BY <1>0, <1>4, <1>5, <1>6, NextSplit, PublishesFrame, OthersFrame, ReorgFrame

-----------------------------------------------------------------------------
(* The verifying threads.                                                  *)

Same(u) ==
  /\ th'[u].pc = th[u].pc /\ th'[u].ver = th[u].ver /\ th'[u].read = th[u].read
  /\ th'[u].current => th[u].current
  /\ th'[u].late => th[u].late

Watched == {"check", "touch", "release", "allowed", "final_root", "store"}

Elsewhere(u) ==
  /\ th'[u].pc \notin Watched
  /\ th'[u].late => th[u].late \/ \A v \in Version : HandledRevocation(v)

Moves(u, from, to) ==
  /\ th[u].pc = from /\ th'[u].pc = to
  /\ th'[u].current = th[u].current /\ th'[u].late = th[u].late /\ th'[u].ver = th[u].ver

ThreadStep(u) ==
  \/ Elsewhere(u)
  \/ /\ th'[u].pc = "check" /\ th'[u].late = th[u].late
     /\ th'[u].read = Nothing \/ \E k \in Key : th'[u].read = rows[k]
  \/ /\ th[u].pc = "check" /\ Trusted(th[u].read) /\ th'[u].pc \in {"touch", "release"}
     /\ th'[u].late = th[u].late /\ th'[u].read.revived = th[u].read.revived
  \/ /\ Moves(u, "touch", "release") /\ th'[u].read.revived = th[u].read.revived
  \/ Stores(u) /\ th'[u].pc = "release" /\ th'[u].late = th[u].late
  \/ Moves(u, "final_anchor", "final_root") /\ Registry.status = "ACTIVE"
  \/ Moves(u, "final_root", "store") /\ Registry.root[th[u].ver] = "ACTIVE"
  \/ Moves(u, "release", "allowed") /\ th'[u].read = th[u].read

\* Thread t has become x; the others are as they were.
Becomes(t, x) == th' = [u \in Thread |-> IF u = t THEN x ELSE th[u]]

Moved(x, pc) ==
  [pc |-> pc, pos |-> x.pos, e |-> x.e, now |-> x.now, current |-> x.current, ver |-> x.ver,
   read |-> x.read, late |-> x.late]

\* A thread that becomes a well-formed one leaves the others as they were.
LEMMA BecomesTyped ==
  ASSUME ThreadType, NEW t \in Thread, NEW x, Becomes(t, x), IsThread(x), IsRead(x.read)
  PROVE  ThreadType' /\ th'[t] = x /\ \A u \in Thread : u # t => Same(u)
  BY DEF ThreadType, Becomes, Same

\* A thread that is idle but for its place is well formed.
LEMMA IdleTyped ==
  ASSUME NEW pc, pc \notin Verifying, NEW pos \in Position
  PROVE  LET x == [IdleThread EXCEPT !.pc = pc, !.pos = pos]
         IN  IsThread(x) /\ IsRead(x.read) /\ x.pc = pc /\ x.late = FALSE
<1> DEFINE x == [IdleThread EXCEPT !.pc = pc, !.pos = pos]
           no == FALSE
           base == IdleThread
<1>0. base = [pc |-> "idle", pos |-> 0, e |-> "none", now |-> 0, current |-> no, ver |-> 0,
              read |-> Nothing, late |-> no]
  BY DEF IdleThread
<1> HIDE DEF no, base
<1>1. [base EXCEPT !.pc = pc, !.pos = pos]
        = [pc |-> pc, pos |-> pos, e |-> "none", now |-> 0, current |-> no, ver |-> 0,
           read |-> Nothing, late |-> no]
  <2> DEFINE y == [base EXCEPT !.pc = pc]
  <2>1. base = [pc |-> base.pc, pos |-> base.pos, e |-> base.e, now |-> base.now,
                current |-> base.current, ver |-> base.ver, read |-> base.read, late |-> base.late]
    BY <1>0
  <2>2. y = Moved(base, pc)
    BY <2>1 DEF Moved
  <2>3. base.e = "none" /\ base.now = 0 /\ base.current = no /\ base.ver = 0 /\ base.read = Nothing
        /\ base.late = no
    BY <1>0
  <2> HIDE DEF y
  <2>4. [y EXCEPT !.pos = pos]
          = [pc |-> pc, pos |-> pos, e |-> base.e, now |-> base.now, current |-> base.current,
             ver |-> base.ver, read |-> base.read, late |-> base.late]
    BY <2>2 DEF Moved
  <2> QED BY <2>3, <2>4 DEF y
<1>5. x = [pc |-> pc, pos |-> pos, e |-> "none", now |-> 0, current |-> no, ver |-> 0,
           read |-> Nothing, late |-> no]
  BY <1>1 DEF base
<1> HIDE DEF x
<1>2. x.pc = pc /\ x.read = Nothing /\ x.late = no
  BY <1>5
<1>3. IsThread(x)
  BY <1>5, <1>2 DEF IsThread, Verifying
<1>4. IsRead(Nothing)
  BY DEF IsRead, Status, Nothing
<1> QED BY <1>2, <1>3, <1>4 DEF x, no

\* A thread goes to its next call.
LEMMA ThreadMoved ==
  ASSUME ThreadType, NEW t \in Thread, NEW pc, Goto(t, pc),
         pc \in Verifying => th[t].e \in Endpoint,
         pc \in Anchored => th[t].ver \in Version
  PROVE  /\ ThreadType' /\ th'[t] = Moved(th[t], pc)
         /\ \A u \in Thread : u # t => Same(u)
<1>1. th[t] = Moved(th[t], th[t].pc) /\ IsThread(th[t]) /\ IsRead(th[t].read)
  BY DEF ThreadType, IsThread, Moved
<1>2. [th[t] EXCEPT !.pc = pc] = Moved(th[t], pc)
  BY <1>1 DEF Moved
<1>3. Becomes(t, [th[t] EXCEPT !.pc = pc])
  BY DEF Goto, ThreadType, Becomes
<1>4. IsThread(Moved(th[t], pc)) /\ IsRead(Moved(th[t], pc).read)
  BY <1>1 DEF IsThread, Moved
<1>5. Becomes(t, Moved(th[t], pc))
  BY <1>2, <1>3
<1> QED BY <1>4, <1>5, BecomesTyped

\* A thread whose result is rejected starts afresh.
LEMMA ThreadRejected ==
  ASSUME ThreadType, NEW t \in Thread, Rejected(t)
  PROVE  /\ ThreadType' /\ Elsewhere(t)
         /\ \A u \in Thread : u # t => Same(u)
<1>0. th[t].pos \in Position /\ 0 \in Position
  BY DEF ThreadType, IsThread, Position
<1> DEFINE x == IF t = "query" THEN [IdleThread EXCEPT !.pc = "next", !.pos = th[t].pos] ELSE IdleThread
<1>1. Becomes(t, x)
  BY DEF Rejected, ThreadType, Becomes
<1>2. IsThread(x) /\ IsRead(x.read) /\ x.pc \in {"next", "idle"} /\ x.late = FALSE
  BY <1>0 DEF IdleThread, IsThread, IsRead, Verifying, Anchored, Status, Nothing
<1> HIDE DEF x
<1>3. ThreadType' /\ th'[t] = x /\ \A u \in Thread : u # t => Same(u)
  BY <1>1, <1>2, BecomesTyped
<1> QED BY <1>2, <1>3 DEF Elsewhere, Watched

\* A thread whose result is accepted keeps what it has read, but for the
\* status.
LEMMA ThreadAccepted ==
  ASSUME ThreadType, NEW t \in Thread, NEW status \in Status, Accepted(t, status),
         th[t].pc \in Verifying
  PROVE  /\ ThreadType'
         /\ \A u \in Thread : u # t => Same(u)
         /\ \/ Elsewhere(t)
            \/ /\ th'[t].pc = "release" /\ th'[t].late = th[t].late
               /\ th'[t].current = th[t].current /\ th'[t].ver = th[t].ver
               /\ th'[t].read.revived = th[t].read.revived
<1>0. th[t] = Moved(th[t], th[t].pc) /\ IsThread(th[t]) /\ IsRead(th[t].read)
  BY DEF ThreadType, IsThread, Moved
<1>1. CASE t # "query"
  <2>1. Becomes(t, IdleThread)
    BY <1>1 DEF Accepted, ThreadType, Becomes
  <2>2. IsThread(IdleThread) /\ IsRead(IdleThread.read) /\ IdleThread.pc = "idle" /\ IdleThread.late = FALSE
    BY DEF IdleThread, IsThread, IsRead, Verifying, Anchored, Status, Nothing, Position
  <2>3. ThreadType' /\ th'[t] = IdleThread /\ \A u \in Thread : u # t => Same(u)
    BY <2>1, <2>2, BecomesTyped
  <2> QED BY <2>2, <2>3 DEF Elsewhere, Watched
<1>2. CASE t = "query"
  <2> DEFINE read == [th[t].read EXCEPT !.status = status]
             x == [pc |-> "release", pos |-> th[t].pos, e |-> th[t].e, now |-> th[t].now,
                   current |-> th[t].current, ver |-> th[t].ver, read |-> read, late |-> th[t].late]
  <2>1. IsRead(read) /\ read.revived = th[t].read.revived
    <3> DEFINE r == th[t].read
    <3>1. CASE r = [status |-> r.status, revived |-> FALSE]
      <4> DEFINE no == FALSE
      <4>0. r = [status |-> r.status, revived |-> no]
        BY <3>1
      <4> HIDE DEF r, no
      <4>1. [r EXCEPT !.status = status] = [status |-> status, revived |-> no] /\ r.revived = no
        BY <4>0
      <4> QED BY <4>1 DEF IsRead, r, no
    <3>3. r = Nothing => r = [status |-> r.status, revived |-> FALSE]
      BY DEF Nothing
    <3>2. CASE r = [status |-> r.status, at |-> r.at, soft |-> r.soft, hard |-> r.hard,
                    revived |-> r.revived]
      <4> HIDE DEF r
      <4>1. [r EXCEPT !.status = status] = [status |-> status, at |-> r.at, soft |-> r.soft,
               hard |-> r.hard, revived |-> r.revived]
        BY <3>2
      <4> QED BY <4>1 DEF IsRead, IsRow, r
    <3> QED BY <1>0, <3>1, <3>2, <3>3 DEF IsRead, IsRow
  <2>2. th' = [th EXCEPT !["query"] = [th["query"] EXCEPT !.pc = "release", !.read.status = status]]
    BY <1>2 DEF Accepted
  <2>3. [th["query"] EXCEPT !.pc = "release", !.read.status = status] = x
    <3> DEFINE z == th["query"]
    <3>1. z = Moved(z, z.pc) /\ z = th[t]
      BY <1>0, <1>2
    <3> HIDE DEF z
    <3>2. [z EXCEPT !.pc = "release", !.read.status = status] =
            [pc |-> "release", pos |-> z.pos, e |-> z.e, now |-> z.now, current |-> z.current,
             ver |-> z.ver, read |-> [z.read EXCEPT !.status = status], late |-> z.late]
      <4> DEFINE y == [z EXCEPT !.pc = "release"]
      <4>1. y = Moved(z, "release")
        BY <3>1 DEF Moved
      <4> HIDE DEF y
      <4>2. y.read = z.read
        BY <4>1 DEF Moved
      <4>3. [y EXCEPT !.read = [z.read EXCEPT !.status = status]] = 
            [pc |-> "release", pos |-> z.pos, e |-> z.e, now |-> z.now, current |-> z.current,
             ver |-> z.ver, read |-> [z.read EXCEPT !.status = status], late |-> z.late]
        BY <4>1 DEF Moved
      <4>4. [y EXCEPT !.read = [z.read EXCEPT !.status = status]]
              = [y EXCEPT !.read = [y.read EXCEPT !.status = status]]
        BY <4>2
      <4> QED BY <4>3, <4>4 DEF y
    <3> QED BY <3>1, <3>2 DEF z
  <2>4. Becomes(t, x)
    BY <1>2, <2>2, <2>3 DEF ThreadType, Becomes
  <2>5. th[t].e \in Endpoint /\ th[t].pos \in Position
    BY <1>0 DEF IsThread
  <2> HIDE DEF read
  <2>6. IsThread(x) /\ x.read = read
    BY <2>5 DEF IsThread, Anchored
  <2>7. x.pc = "release" /\ x.late = th[t].late /\ x.current = th[t].current /\ x.ver = th[t].ver
    OBVIOUS
  <2> HIDE DEF x
  <2>8. ThreadType' /\ th'[t] = x /\ \A u \in Thread : u # t => Same(u)
    BY <2>1, <2>4, <2>6, BecomesTyped
  <2> QED BY <2>1, <2>6, <2>7, <2>8
<1> QED BY <1>1, <1>2

\* The record of a thread, and a thread that is given another one.
Thr(pc, pos, e, now, current, ver, read, late) ==
  [pc |-> pc, pos |-> pos, e |-> e, now |-> now, current |-> current, ver |-> ver,
   read |-> read, late |-> late]

\* A thread's record and its fields.
LEMMA ThrFields ==
  ASSUME NEW pc, NEW pos, NEW e, NEW now, NEW current, NEW ver, NEW read, NEW late,
         pc \in Verifying => e \in Endpoint, pc \in Anchored => ver \in Version, pos \in Position
  PROVE  LET x == Thr(pc, pos, e, now, current, ver, read, late)
         IN  /\ IsThread(x) /\ x.pc = pc /\ x.current = current /\ x.ver = ver
             /\ x.read = read /\ x.late = late
  BY DEF Thr, IsThread

\* The updates of a thread, as records.
LEMMA ThreadUpdated ==
  ASSUME ThreadType, NEW t \in Thread, NEW pc, NEW current, NEW ver, NEW read
  PROVE  LET z == th[t] IN
         /\ th' = [th EXCEPT ![t].pc = pc, ![t].current = current]
              => Becomes(t, Thr(pc, z.pos, z.e, z.now, current, z.ver, z.read, z.late))
         /\ th' = [th EXCEPT ![t].pc = pc, ![t].read = read]
              => Becomes(t, Thr(pc, z.pos, z.e, z.now, z.current, z.ver, read, z.late))
         /\ th' = [th EXCEPT ![t].pc = pc, ![t].read = read, ![t].ver = ver]
              => Becomes(t, Thr(pc, z.pos, z.e, z.now, z.current, ver, read, z.late))
         /\ th' = [th EXCEPT ![t].pc = pc, ![t].current = current, ![t].ver = ver, ![t].read = read]
              => Becomes(t, Thr(pc, z.pos, z.e, z.now, current, ver, read, z.late))
         /\ th' = [th EXCEPT ![t].pc = pc, ![t].ver = ver]
              => Becomes(t, Thr(pc, z.pos, z.e, z.now, z.current, ver, z.read, z.late))
<1> DEFINE z == th[t]
<1>0. z = Thr(z.pc, z.pos, z.e, z.now, z.current, z.ver, z.read, z.late)
  BY DEF ThreadType, IsThread, Thr
<1>1. ASSUME NEW x, th' = [th EXCEPT ![t] = x]
      PROVE  Becomes(t, x)
  BY <1>1 DEF ThreadType, Becomes
<1>20. [th EXCEPT ![t].pc = pc, ![t].current = current]
        = [th EXCEPT ![t] = [z EXCEPT !.pc = pc, !.current = current]]
  BY DEF ThreadType
<1>21. [th EXCEPT ![t].pc = pc, ![t].read = read]
        = [th EXCEPT ![t] = [z EXCEPT !.pc = pc, !.read = read]]
  BY DEF ThreadType
<1>22. [th EXCEPT ![t].pc = pc, ![t].read = read, ![t].ver = ver]
        = [th EXCEPT ![t] = [z EXCEPT !.pc = pc, !.read = read, !.ver = ver]]
  BY DEF ThreadType
<1>23. [th EXCEPT ![t].pc = pc, ![t].current = current, ![t].ver = ver, ![t].read = read]
        = [th EXCEPT ![t] = [z EXCEPT !.pc = pc, !.current = current, !.ver = ver, !.read = read]]
  BY DEF ThreadType
<1>24. [th EXCEPT ![t].pc = pc, ![t].ver = ver]
        = [th EXCEPT ![t] = [z EXCEPT !.pc = pc, !.ver = ver]]
  BY DEF ThreadType
<1> HIDE DEF z
<1>30. [z EXCEPT !.pc = pc, !.current = current]
       = Thr(pc, z.pos, z.e, z.now, current, z.ver, z.read, z.late)
  <2> DEFINE y1 == [z EXCEPT !.pc = pc]
  <2>1. y1 = Thr(pc, z.pos, z.e, z.now, z.current, z.ver, z.read, z.late)
    BY <1>0 DEF Thr
  <2> HIDE DEF y1
  <2>2. [y1 EXCEPT !.current = current] = Thr(pc, z.pos, z.e, z.now, current, z.ver, z.read, z.late)
    BY <2>1 DEF Thr
  <2> QED BY <2>2 DEF y1
<1>31. [z EXCEPT !.pc = pc, !.read = read]
       = Thr(pc, z.pos, z.e, z.now, z.current, z.ver, read, z.late)
  <2> DEFINE y1 == [z EXCEPT !.pc = pc]
  <2>1. y1 = Thr(pc, z.pos, z.e, z.now, z.current, z.ver, z.read, z.late)
    BY <1>0 DEF Thr
  <2> HIDE DEF y1
  <2>2. [y1 EXCEPT !.read = read] = Thr(pc, z.pos, z.e, z.now, z.current, z.ver, read, z.late)
    BY <2>1 DEF Thr
  <2> QED BY <2>2 DEF y1
<1>32. [z EXCEPT !.pc = pc, !.read = read, !.ver = ver]
       = Thr(pc, z.pos, z.e, z.now, z.current, ver, read, z.late)
  <2> DEFINE y1 == [z EXCEPT !.pc = pc]
  <2>1. y1 = Thr(pc, z.pos, z.e, z.now, z.current, z.ver, z.read, z.late)
    BY <1>0 DEF Thr
  <2> HIDE DEF y1
  <2> DEFINE y2 == [y1 EXCEPT !.read = read]
  <2>2. y2 = Thr(pc, z.pos, z.e, z.now, z.current, z.ver, read, z.late)
    BY <2>1 DEF Thr
  <2> HIDE DEF y2
  <2>3. [y2 EXCEPT !.ver = ver] = Thr(pc, z.pos, z.e, z.now, z.current, ver, read, z.late)
    BY <2>2 DEF Thr
  <2> QED BY <2>3 DEF y1, y2
<1>33. [z EXCEPT !.pc = pc, !.current = current, !.ver = ver, !.read = read]
       = Thr(pc, z.pos, z.e, z.now, current, ver, read, z.late)
  <2> DEFINE y1 == [z EXCEPT !.pc = pc]
  <2>1. y1 = Thr(pc, z.pos, z.e, z.now, z.current, z.ver, z.read, z.late)
    BY <1>0 DEF Thr
  <2> HIDE DEF y1
  <2> DEFINE y2 == [y1 EXCEPT !.current = current]
  <2>2. y2 = Thr(pc, z.pos, z.e, z.now, current, z.ver, z.read, z.late)
    BY <2>1 DEF Thr
  <2> HIDE DEF y2
  <2> DEFINE y3 == [y2 EXCEPT !.ver = ver]
  <2>3. y3 = Thr(pc, z.pos, z.e, z.now, current, ver, z.read, z.late)
    BY <2>2 DEF Thr
  <2> HIDE DEF y3
  <2>4. [y3 EXCEPT !.read = read] = Thr(pc, z.pos, z.e, z.now, current, ver, read, z.late)
    BY <2>3 DEF Thr
  <2> QED BY <2>4 DEF y1, y2, y3
<1>34. [z EXCEPT !.pc = pc, !.ver = ver]
       = Thr(pc, z.pos, z.e, z.now, z.current, ver, z.read, z.late)
  <2> DEFINE y1 == [z EXCEPT !.pc = pc]
  <2>1. y1 = Thr(pc, z.pos, z.e, z.now, z.current, z.ver, z.read, z.late)
    BY <1>0 DEF Thr
  <2> HIDE DEF y1
  <2>2. [y1 EXCEPT !.ver = ver] = Thr(pc, z.pos, z.e, z.now, z.current, ver, z.read, z.late)
    BY <2>1 DEF Thr
  <2> QED BY <2>2 DEF y1
<1>40. th' = [th EXCEPT ![t].pc = pc, ![t].current = current]
        => Becomes(t, Thr(pc, z.pos, z.e, z.now, current, z.ver, z.read, z.late))
  BY <1>1, <1>20, <1>30 DEF z
<1>41. th' = [th EXCEPT ![t].pc = pc, ![t].read = read]
        => Becomes(t, Thr(pc, z.pos, z.e, z.now, z.current, z.ver, read, z.late))
  BY <1>1, <1>21, <1>31 DEF z
<1>42. th' = [th EXCEPT ![t].pc = pc, ![t].read = read, ![t].ver = ver]
        => Becomes(t, Thr(pc, z.pos, z.e, z.now, z.current, ver, read, z.late))
  BY <1>1, <1>22, <1>32 DEF z
<1>43. th' = [th EXCEPT ![t].pc = pc, ![t].current = current, ![t].ver = ver, ![t].read = read]
        => Becomes(t, Thr(pc, z.pos, z.e, z.now, current, ver, read, z.late))
  BY <1>1, <1>23, <1>33 DEF z
<1>44. th' = [th EXCEPT ![t].pc = pc, ![t].ver = ver]
        => Becomes(t, Thr(pc, z.pos, z.e, z.now, z.current, ver, z.read, z.late))
  BY <1>1, <1>24, <1>34 DEF z
<1> QED BY <1>40, <1>41, <1>42, <1>43, <1>44 DEF z

\* The updates of an idle thread, as records.
LEMMA IdleUpdated ==
  ASSUME NEW pc, NEW pos, NEW e, NEW now, NEW late
  PROVE  /\ [IdleThread EXCEPT !.pc = pc]
              = Thr(pc, 0, "none", 0, FALSE, 0, Nothing, FALSE)
         /\ [IdleThread EXCEPT !.pc = pc, !.pos = pos]
              = Thr(pc, pos, "none", 0, FALSE, 0, Nothing, FALSE)
         /\ [IdleThread EXCEPT !.pc = pc, !.e = e, !.now = now]
              = Thr(pc, 0, e, now, FALSE, 0, Nothing, FALSE)
         /\ [IdleThread EXCEPT !.pc = pc, !.pos = pos, !.e = e, !.now = now, !.late = late]
              = Thr(pc, pos, e, now, FALSE, 0, Nothing, late)
<1> DEFINE no == FALSE
           zero == 0
           none == "none"
           idle == "idle"
           nothing == Nothing
           base == IdleThread
<1>0. base = [pc |-> idle, pos |-> zero, e |-> none, now |-> zero, current |-> no, ver |-> zero,
              read |-> nothing, late |-> no]
  BY DEF IdleThread
<1> HIDE DEF no, base, zero, none, nothing, idle
<1>10. [base EXCEPT !.pc = pc] = Thr(pc, zero, none, zero, no, zero, nothing, no)
  BY <1>0 DEF Thr
<1>11. [base EXCEPT !.pc = pc, !.pos = pos]
       = Thr(pc, pos, none, zero, no, zero, nothing, no)
  <2> DEFINE y1 == [base EXCEPT !.pc = pc]
  <2>1. y1 = Thr(pc, zero, none, zero, no, zero, nothing, no)
    BY <1>0 DEF Thr
  <2> HIDE DEF y1
  <2>2. [y1 EXCEPT !.pos = pos] = Thr(pc, pos, none, zero, no, zero, nothing, no)
    BY <2>1 DEF Thr
  <2> QED BY <2>2 DEF y1
<1>12. [base EXCEPT !.pc = pc, !.e = e, !.now = now]
       = Thr(pc, zero, e, now, no, zero, nothing, no)
  <2> DEFINE y1 == [base EXCEPT !.pc = pc]
  <2>1. y1 = Thr(pc, zero, none, zero, no, zero, nothing, no)
    BY <1>0 DEF Thr
  <2> HIDE DEF y1
  <2> DEFINE y2 == [y1 EXCEPT !.e = e]
  <2>2. y2 = Thr(pc, zero, e, zero, no, zero, nothing, no)
    BY <2>1 DEF Thr
  <2> HIDE DEF y2
  <2>3. [y2 EXCEPT !.now = now] = Thr(pc, zero, e, now, no, zero, nothing, no)
    BY <2>2 DEF Thr
  <2> QED BY <2>3 DEF y1, y2
<1>13. [base EXCEPT !.pc = pc, !.pos = pos, !.e = e, !.now = now, !.late = late]
       = Thr(pc, pos, e, now, no, zero, nothing, late)
  <2> DEFINE y1 == [base EXCEPT !.pc = pc]
  <2>1. y1 = Thr(pc, zero, none, zero, no, zero, nothing, no)
    BY <1>0 DEF Thr
  <2> HIDE DEF y1
  <2> DEFINE y2 == [y1 EXCEPT !.pos = pos]
  <2>2. y2 = Thr(pc, pos, none, zero, no, zero, nothing, no)
    BY <2>1 DEF Thr
  <2> HIDE DEF y2
  <2> DEFINE y3 == [y2 EXCEPT !.e = e]
  <2>3. y3 = Thr(pc, pos, e, zero, no, zero, nothing, no)
    BY <2>2 DEF Thr
  <2> HIDE DEF y3
  <2> DEFINE y4 == [y3 EXCEPT !.now = now]
  <2>4. y4 = Thr(pc, pos, e, now, no, zero, nothing, no)
    BY <2>3 DEF Thr
  <2> HIDE DEF y4
  <2>5. [y4 EXCEPT !.late = late] = Thr(pc, pos, e, now, no, zero, nothing, late)
    BY <2>4 DEF Thr
  <2> QED BY <2>5 DEF y1, y2, y3, y4
<1> QED BY <1>10, <1>11, <1>12, <1>13 DEF base, no, zero, none, nothing

\* A thread moves on without anything that the argument watches.
LEMMA MovesElsewhere ==
  ASSUME ThreadType, NEW t \in Thread, NEW pc, NEW pos, NEW e, NEW now, NEW current, NEW ver,
         NEW read, NEW late,
         Becomes(t, Thr(pc, pos, e, now, current, ver, read, late)),
         pc \notin Watched, pos \in Position,
         pc \in Verifying => e \in Endpoint, pc \in Anchored => ver \in Version,
         IsRead(read), late => th[t].late \/ \A v \in Version : HandledRevocation(v)
  PROVE  ThreadType' /\ Elsewhere(t) /\ \A u \in Thread : u # t => Same(u)
<1> DEFINE x == Thr(pc, pos, e, now, current, ver, read, late)
<1>1. IsThread(x) /\ x.pc = pc /\ x.read = read /\ x.late = late
  BY ThrFields
<1> HIDE DEF x
<1>2. ThreadType' /\ th'[t] = x /\ \A u \in Thread : u # t => Same(u)
  BY <1>1, BecomesTyped DEF x
<1> QED BY <1>1, <1>2 DEF Elsewhere

AllSteps == \A u \in Thread : Same(u) \/ ThreadStep(u)

\* Nothing is a row that is neither trusted nor written back.
LEMMA NothingRead == IsRow(Nothing) /\ IsRead(Nothing) /\ ~Trusted(Nothing) /\ Nothing.revived = FALSE
  BY DEF Nothing, IsRow, IsRead, Status, Trusted

\* get_valid up to its second look at the generation, and the start of a cold
\* verification.
LEMMA ReadSteps ==
  ASSUME ThreadType, RowsType, NEW t \in Thread, ReadGeneration(t) \/ ReadRow(t) \/ ColdStart(t)
  PROVE  ThreadType' /\ AllSteps
<1>0. /\ th[t].pc \in Verifying => th[t].e \in Endpoint
      /\ th[t].pc \in Anchored => th[t].ver \in Version
      /\ IsRead(th[t].read) /\ th[t].pos \in Position
  BY DEF ThreadType, IsThread
<1> DEFINE z == th[t]
           yes == TRUE
<1>1. CASE ReadGeneration(t)
  <2>1. Becomes(t, Thr("row", z.pos, z.e, z.now, yes, z.ver, z.read, z.late)) /\ z.e \in Endpoint
    BY <1>0, <1>1, ThreadUpdated DEF ReadGeneration, Verifying
  <2>2. ThreadType' /\ Elsewhere(t) /\ \A u \in Thread : u # t => Same(u)
    <3> HIDE DEF yes
    <3> QED BY <1>0, <2>1, MovesElsewhere DEF Watched, Anchored
  <2> QED BY <2>2 DEF AllSteps, ThreadStep
<1>2. CASE ColdStart(t)
  <2>1. Becomes(t, Thr("lookup", z.pos, z.e, z.now, yes, 0, Nothing, z.late)) /\ z.e \in Endpoint
    BY <1>0, <1>2, ThreadUpdated DEF ColdStart, Verifying
  <2>2. ThreadType' /\ Elsewhere(t) /\ \A u \in Thread : u # t => Same(u)
    <3> HIDE DEF yes
    <3> QED BY NothingRead, <1>0, <2>1, MovesElsewhere DEF Watched, Anchored
  <2> QED BY <2>2 DEF AllSteps, ThreadStep
<1>3. CASE ReadRow(t)
  <2>0. th[t].pc = "row" /\ z.e \in Endpoint
    BY <1>0, <1>3 DEF ReadRow, Verifying
  <2>1. ASSUME NEW ver, NEW read, IsRead(read),
               Becomes(t, Thr("check", z.pos, z.e, z.now, z.current, ver, read, z.late)),
               read = Nothing \/ \E k \in Key : read = rows[k]
        PROVE  ThreadType' /\ AllSteps
    <3> DEFINE x == Thr("check", z.pos, z.e, z.now, z.current, ver, read, z.late)
    <3>1. IsThread(x) /\ x.pc = "check" /\ x.read = read /\ x.late = z.late
      <4>1. "check" \notin Anchored
        BY DEF Anchored
      <4> QED BY <1>0, <2>0, <4>1, ThrFields
    <3> HIDE DEF x
    <3>2. ThreadType' /\ th'[t] = x /\ \A u \in Thread : u # t => Same(u)
      BY <2>1, <3>1, BecomesTyped DEF x
    <3> QED BY <2>1, <3>1, <3>2 DEF AllSteps, ThreadStep
  <2>2. CASE th' = [th EXCEPT ![t].pc = "check", ![t].read = Nothing]
    <3>1. Becomes(t, Thr("check", z.pos, z.e, z.now, z.current, z.ver, Nothing, z.late))
      BY <2>2, ThreadUpdated
    <3> QED BY <2>1, <3>1, NothingRead
  <2>3. ASSUME NEW k \in Newest(th[t].e),
               th' = [th EXCEPT ![t].pc = "check", ![t].read = rows[k], ![t].ver = k[2]]
        PROVE  ThreadType' /\ AllSteps
    <3>1. Becomes(t, Thr("check", z.pos, z.e, z.now, z.current, k[2], rows[k], z.late))
      BY <2>3, ThreadUpdated
    <3>2. k \in Key
      BY <2>0 DEF Newest, Key
    <3>3. IsRead(rows[k])
      BY <3>2 DEF RowsType, IsRead
    <3> HIDE DEF z
    <3> QED BY <2>1, <3>1, <3>2, <3>3
  <2> QED BY <1>3, <2>2, <2>3 DEF ReadRow
<1> QED BY <1>1, <1>2, <1>3

\* A call that only moves the thread on, and to none of the calls watched.
LEMMA GotoSteps ==
  ASSUME ThreadType, NEW t \in Thread, NEW pc, Goto(t, pc), pc \notin Watched,
         th[t].pc \in Verifying, pc \in Anchored => th[t].ver \in Version
  PROVE  ThreadType' /\ AllSteps
<1>1. th[t].e \in Endpoint
  BY DEF ThreadType, IsThread
<1>2. ThreadType' /\ th'[t] = Moved(th[t], pc) /\ \A u \in Thread : u # t => Same(u)
  BY <1>1, ThreadMoved
<1>3. th'[t].pc = pc /\ th'[t].late = th[t].late
  BY <1>2 DEF Moved
<1> QED BY <1>2, <1>3 DEF AllSteps, ThreadStep, Elsewhere

\* A rejection.
LEMMA RejectedSteps ==
  ASSUME ThreadType, NEW t \in Thread, Rejected(t)
  PROVE  ThreadType' /\ AllSteps
  BY ThreadRejected DEF AllSteps, ThreadStep

\* get_valid decides about the row it has read.
LEMMA CheckSteps ==
  ASSUME ThreadType, NEW t \in Thread, CheckRow(t)
  PROVE  ThreadType' /\ AllSteps
<1>0. /\ th[t].pc = "check" /\ th[t].pc \in Verifying /\ th[t].e \in Endpoint
      /\ th[t].read.status \in Status
  BY DEF CheckRow, ThreadType, IsThread, IsRead, IsRow, Verifying
<1>1. \/ Goto(t, "cold") \/ Rejected(t)
      \/ Goto(t, "expire")
      \/ Trusted(th[t].read) /\ (Goto(t, "touch") \/ Accepted(t, th[t].read.status))
  BY <1>0 DEF CheckRow, Status, Trusted
<1>2. CASE Goto(t, "cold") \/ Goto(t, "expire")
  BY <1>0, <1>2, GotoSteps DEF Watched, Anchored
<1>3. CASE Rejected(t)
  BY <1>3, RejectedSteps
<1>4. CASE Trusted(th[t].read) /\ Goto(t, "touch")
  <2>1. ThreadType' /\ th'[t] = Moved(th[t], "touch") /\ \A u \in Thread : u # t => Same(u)
    BY <1>0, <1>4, ThreadMoved DEF Anchored
  <2>2. th'[t].pc = "touch" /\ th'[t].late = th[t].late /\ th'[t].read = th[t].read
    BY <2>1 DEF Moved
  <2> QED BY <1>0, <1>4, <2>1, <2>2 DEF AllSteps, ThreadStep
<1>5. CASE Trusted(th[t].read) /\ Accepted(t, th[t].read.status)
  <2>1. /\ ThreadType'
        /\ \A u \in Thread : u # t => Same(u)
        /\ \/ Elsewhere(t)
           \/ /\ th'[t].pc = "release" /\ th'[t].late = th[t].late
              /\ th'[t].read.revived = th[t].read.revived
    BY <1>0, <1>5, ThreadAccepted
  <2> QED BY <1>0, <1>5, <2>1 DEF AllSteps, ThreadStep
<1> QED BY <1>1, <1>2, <1>3, <1>4, <1>5

\* The status is written back, or the verified row is stored.
LEMMA TouchSteps ==
  ASSUME ThreadType, NEW t \in Thread, TouchRow(t) \/ StoreVerified(t)
  PROVE  ThreadType' /\ AllSteps
<1>1. CASE TouchRow(t)
  <2>1. EffectiveStatus(t) \in Status /\ th[t].pc \in Verifying /\ th[t].pc = "touch"
    BY <1>1 DEF TouchRow, EffectiveStatus, Status, Verifying
  <2>2. /\ ThreadType'
        /\ \A u \in Thread : u # t => Same(u)
        /\ \/ Elsewhere(t)
           \/ /\ th'[t].pc = "release" /\ th'[t].late = th[t].late
              /\ th'[t].current = th[t].current /\ th'[t].ver = th[t].ver
              /\ th'[t].read.revived = th[t].read.revived
    BY <1>1, <2>1, ThreadAccepted DEF TouchRow
  <2> QED BY <2>1, <2>2 DEF AllSteps, ThreadStep, Moves
<1>2. CASE StoreVerified(t) /\ th[t].current
  <2>1. "VERIFIED" \in Status /\ th[t].pc \in Verifying
    BY <1>2 DEF StoreVerified, Status, Verifying, Anchored
  <2>2. /\ ThreadType'
        /\ \A u \in Thread : u # t => Same(u)
        /\ \/ Elsewhere(t)
           \/ th'[t].pc = "release" /\ th'[t].late = th[t].late
    BY <1>2, <2>1, ThreadAccepted DEF StoreVerified
  <2> QED BY <1>2, <2>2 DEF AllSteps, ThreadStep, Stores
<1>3. CASE StoreVerified(t) /\ ~th[t].current
  BY <1>3, RejectedSteps DEF StoreVerified
<1> QED BY <1>1, <1>2, <1>3

\* The calls of a cold verification.
LEMMA ColdSteps ==
  ASSUME ThreadType, ChainType, NEW t \in Thread,
         \/ ColdLookup(t) \/ ColdBound(t) \/ ColdAnchor(t) \/ ColdObject(t) \/ ColdRoot(t)
         \/ ColdProof(t) \/ FinalBound(t) \/ FinalAnchor(t) \/ FinalRoot(t) \/ ColdUnavailable(t)
  PROVE  ThreadType' /\ AllSteps
<1>0. /\ th[t].pc \in Verifying => th[t].e \in Endpoint
      /\ th[t].pc \in Anchored => th[t].ver \in Version
      /\ IsRead(th[t].read) /\ th[t].pos \in Position
  BY DEF ThreadType, IsThread
<1>1. CASE ColdLookup(t) \/ ColdBound(t)
  <2>1. (Goto(t, "bound") \/ Goto(t, "anchor") \/ Rejected(t)) /\ th[t].pc \in Verifying
    BY <1>1 DEF ColdLookup, ColdBound, ColdStep, Verifying
  <2> QED BY <2>1, GotoSteps, RejectedSteps DEF Watched, Anchored
<1>2. CASE ColdObject(t) \/ ColdRoot(t) \/ ColdProof(t) \/ FinalBound(t)
  <2>1. /\ \/ Goto(t, "root") \/ Goto(t, "proof") \/ Goto(t, "final_bound") \/ Goto(t, "final_anchor")
           \/ Rejected(t)
        /\ th[t].pc \in Verifying /\ th[t].pc \in Anchored
    BY <1>2 DEF ColdObject, ColdRoot, ColdProof, FinalBound, ColdStep, Verifying, Anchored
  <2> QED BY <1>0, <2>1, GotoSteps, RejectedSteps DEF Watched
<1>3. CASE ColdAnchor(t)
  <2>1. CASE Registry.status = "ACTIVE"
    <3> DEFINE z == th[t]
    <3>1. Becomes(t, Thr("object", z.pos, z.e, z.now, z.current, Registry.ver, z.read, z.late))
      BY <1>3, <2>1, ThreadUpdated DEF ColdAnchor
    <3>2. Registry.ver \in Version /\ z.e \in Endpoint
      BY <1>0, <1>3, ChainFacts DEF ColdAnchor, Verifying, RegistryState
    <3>3. ThreadType' /\ Elsewhere(t) /\ \A u \in Thread : u # t => Same(u)
      BY <1>0, <3>1, <3>2, MovesElsewhere DEF Watched
    <3> QED BY <3>3 DEF AllSteps, ThreadStep
  <2>2. CASE Registry.status # "ACTIVE"
    BY <1>3, <2>2, RejectedSteps DEF ColdAnchor
  <2> QED BY <2>1, <2>2
<1>4. CASE FinalAnchor(t)
  <2>1. th[t].pc = "final_anchor" /\ th[t].e \in Endpoint /\ th[t].ver \in Version
    BY <1>0, <1>4 DEF FinalAnchor, ColdStep, Verifying, Anchored
  <2>2. CASE Registry.status = "ACTIVE" /\ Registry.ver = th[t].ver
    <3>1. Goto(t, "final_root")
      BY <1>4, <2>2 DEF FinalAnchor, ColdStep
    <3>2. ThreadType' /\ th'[t] = Moved(th[t], "final_root") /\ \A u \in Thread : u # t => Same(u)
      BY <2>1, <3>1, ThreadMoved
    <3>3. Moves(t, "final_anchor", "final_root")
      BY <2>1, <3>2 DEF Moves, Moved
    <3> QED BY <2>2, <3>2, <3>3 DEF AllSteps, ThreadStep
  <2>3. CASE ~(Registry.status = "ACTIVE" /\ Registry.ver = th[t].ver)
    BY <1>4, <2>3, RejectedSteps DEF FinalAnchor, ColdStep
  <2> QED BY <2>2, <2>3
<1>5. CASE FinalRoot(t)
  <2>1. th[t].pc = "final_root" /\ th[t].e \in Endpoint /\ th[t].ver \in Version
    BY <1>0, <1>5 DEF FinalRoot, ColdStep, Verifying, Anchored
  <2>2. CASE Registry.root[th[t].ver] = "ACTIVE"
    <3>1. Goto(t, "store")
      BY <1>5, <2>2 DEF FinalRoot, ColdStep
    <3>2. ThreadType' /\ th'[t] = Moved(th[t], "store") /\ \A u \in Thread : u # t => Same(u)
      BY <2>1, <3>1, ThreadMoved
    <3>3. Moves(t, "final_root", "store")
      BY <2>1, <3>2 DEF Moves, Moved
    <3> QED BY <2>2, <3>2, <3>3 DEF AllSteps, ThreadStep
  <2>3. CASE Registry.root[th[t].ver] # "ACTIVE"
    BY <1>5, <2>3, RejectedSteps DEF FinalRoot, ColdStep
  <2> QED BY <2>2, <2>3
<1>6. CASE ColdUnavailable(t)
  BY <1>6, RejectedSteps DEF ColdUnavailable
<1> QED BY <1>1, <1>2, <1>3, <1>4, <1>5, <1>6

\* The generation is bumped: every thread is as it was, but for that.
LEMMA BumpedFields ==
  ASSUME ThreadType, NEW u \in Thread
  PROVE  BumpedGeneration(th)[u] = Thr(th[u].pc, th[u].pos, th[u].e, th[u].now, FALSE, th[u].ver,
                                       th[u].read, th[u].late)
<1> DEFINE z == th[u]
           no == FALSE
<1>1. z = Thr(z.pc, z.pos, z.e, z.now, z.current, z.ver, z.read, z.late)
  BY DEF ThreadType, IsThread, Thr
<1>2. BumpedGeneration(th)[u] = [z EXCEPT !.current = no]
  BY DEF BumpedGeneration
<1> HIDE DEF z, no
<1>3. [z EXCEPT !.current = no] = Thr(z.pc, z.pos, z.e, z.now, no, z.ver, z.read, z.late)
  BY <1>1 DEF Thr
<1> QED BY <1>2, <1>3 DEF z, no

\* The generation is bumped, and no thread holds it any more.
LEMMA Bumped ==
  ASSUME ThreadType, th' = BumpedGeneration(th)
  PROVE  /\ ThreadType' /\ AllSteps
         /\ \A u \in Thread : th'[u].current = FALSE
<1> DEFINE no == FALSE
<1>1. ASSUME NEW u \in Thread
      PROVE  IsThread(th'[u]) /\ IsRead(th'[u].read) /\ th'[u].current = FALSE /\ Same(u)
  <2>1. th'[u] = Thr(th[u].pc, th[u].pos, th[u].e, th[u].now, no, th[u].ver, th[u].read, th[u].late)
    BY BumpedFields
  <2>2. /\ th[u].pc \in Verifying => th[u].e \in Endpoint
        /\ th[u].pc \in Anchored => th[u].ver \in Version
        /\ IsRead(th[u].read) /\ th[u].pos \in Position
    BY DEF ThreadType, IsThread
  <2> HIDE DEF no
  <2>3. /\ IsThread(th'[u]) /\ th'[u].pc = th[u].pc /\ th'[u].current = no /\ th'[u].ver = th[u].ver
        /\ th'[u].read = th[u].read /\ th'[u].late = th[u].late
    BY <2>1, <2>2, ThrFields
  <2> QED BY <2>2, <2>3 DEF Same, no
<1>2. th' = [u \in Thread |-> th'[u]]
  BY DEF BumpedGeneration
<1> QED BY <1>1, <1>2 DEF ThreadType, AllSteps

\* get_valid invalidates a row after its hard TTL.
LEMMA ExpireSteps ==
  ASSUME ThreadType, NEW t \in Thread, ExpireRow(t)
  PROVE  ThreadType' /\ AllSteps
<1>1. CASE th[t].pc = "expired" /\ Goto(t, "cold")
  BY <1>1, GotoSteps DEF Watched, Anchored, Verifying
<1>2. CASE th[t].pc = "expire" /\ th' = [BumpedGeneration(th) EXCEPT ![t].pc = "expired"]
  <2> DEFINE b == BumpedGeneration(th)
             no == FALSE
  <2>1. \A u \in Thread : b[u] = Thr(th[u].pc, th[u].pos, th[u].e, th[u].now, no, th[u].ver,
                                     th[u].read, th[u].late)
    BY BumpedFields
  <2>2. b = [u \in Thread |-> b[u]]
    BY DEF BumpedGeneration
  <2>3. th' = [b EXCEPT ![t] = [b[t] EXCEPT !.pc = "expired"]]
    BY <1>2
  <2> HIDE DEF b, no
  <2> DEFINE bt == b[t]
  <2>4. bt = Thr(th[t].pc, th[t].pos, th[t].e, th[t].now, no, th[t].ver, th[t].read, th[t].late)
    BY <2>1
  <2> HIDE DEF bt
  <2>5. [bt EXCEPT !.pc = "expired"]
          = Thr("expired", th[t].pos, th[t].e, th[t].now, no, th[t].ver, th[t].read, th[t].late)
    BY <2>4 DEF Thr
  <2>6. /\ th'[t] = Thr("expired", th[t].pos, th[t].e, th[t].now, no, th[t].ver, th[t].read, th[t].late)
        /\ \A u \in Thread : u # t => th'[u] = b[u]
        /\ th' = [u \in Thread |-> th'[u]]
    BY <2>2, <2>3, <2>5 DEF bt
  <2>7. ASSUME NEW u \in Thread
        PROVE  /\ IsThread(th'[u]) /\ IsRead(th'[u].read) /\ th'[u].current = no
               /\ u # t => Same(u)
               /\ u = t => Elsewhere(u)
    <3>1. /\ th[u].pc \in Verifying => th[u].e \in Endpoint
          /\ th[u].pc \in Anchored => th[u].ver \in Version
          /\ IsRead(th[u].read) /\ th[u].pos \in Position
      BY DEF ThreadType, IsThread
    <3>2. CASE u # t
      <4>1. th'[u] = Thr(th[u].pc, th[u].pos, th[u].e, th[u].now, no, th[u].ver, th[u].read, th[u].late)
        BY <2>1, <2>6, <3>2
      <4>2. /\ IsThread(th'[u]) /\ th'[u].pc = th[u].pc /\ th'[u].current = no
            /\ th'[u].ver = th[u].ver /\ th'[u].read = th[u].read /\ th'[u].late = th[u].late
        BY <3>1, <4>1, ThrFields
      <4> QED BY <3>1, <3>2, <4>2 DEF Same, no
    <3>3. CASE u = t
      <4>1. th[u].e \in Endpoint
        BY <1>2, <3>1, <3>3 DEF Verifying
      <4>2. /\ IsThread(th'[u]) /\ th'[u].pc = "expired" /\ th'[u].current = no
            /\ th'[u].read = th[u].read /\ th'[u].late = th[u].late
        <5>1. "expired" \notin Anchored
          BY DEF Anchored
        <5> QED BY <2>6, <3>1, <3>3, <4>1, <5>1, ThrFields
      <4> QED BY <3>1, <3>3, <4>2 DEF Elsewhere, Watched
    <3> QED BY <3>2, <3>3
  <2> QED BY <2>6, <2>7 DEF ThreadType, AllSteps, ThreadStep
<1> QED BY <1>1, <1>2 DEF ExpireRow

\* A query starts or is forwarded.
LEMMA AskSteps ==
  ASSUME ThreadType, QueryStart \/ Forward
  PROVE  ThreadType' /\ AllSteps
<1> DEFINE q == th["query"]
           no == FALSE
<1>0. "query" \in Thread /\ IsRead(Nothing)
  BY NothingRead DEF Thread
<1>1. ASSUME NEW x, th' = [th EXCEPT !["query"] = x]
      PROVE  Becomes("query", x)
  BY <1>1 DEF ThreadType, Becomes
<1>2. ASSUME NEW pc \in {"next", "refused"},
             th' = [th EXCEPT !["query"] = [IdleThread EXCEPT !.pc = pc]]
      PROVE  ThreadType' /\ AllSteps
  <2>1. Becomes("query", Thr(pc, 0, "none", 0, no, 0, Nothing, no))
    BY <1>1, <1>2, IdleUpdated
  <2>2. ~no /\ 0 \in Position
    BY DEF Position
  <2>3. pc \notin Verifying /\ pc \notin Anchored /\ pc \notin Watched
    BY DEF Verifying, Anchored, Watched
  <2> HIDE DEF no
  <2>4. ThreadType' /\ Elsewhere("query") /\ \A u \in Thread : u # "query" => Same(u)
    BY <1>0, <2>1, <2>2, <2>3, MovesElsewhere
  <2> QED BY <2>4 DEF AllSteps, ThreadStep
<1>3. CASE QueryStart
  BY <1>2, <1>3 DEF QueryStart
<1>4. CASE Forward
  <2> DEFINE pos == q.pos + 1
             late == \A v \in Version : HandledRevocation(v)
  <2>1. CASE pos <= Len(Upstream) /\
             th' = [th EXCEPT !["query"] =
                      [IdleThread EXCEPT !.pc = "gen", !.pos = pos, !.e = Upstream[pos],
                         !.now = time, !.late = late]]
    <3>0. pos \in Nat /\ pos >= 1
      BY <1>0 DEF ThreadType, IsThread, Position
    <3>6. pos \in Position
      BY <3>0 DEF Position
    <3>4. late => \A v \in Version : HandledRevocation(v)
      OBVIOUS
    <3>2. Upstream[pos] \in Endpoint
      BY <2>1, <3>0, Parameters
    <3> HIDE DEF late, pos
    <3>1. Becomes("query", Thr("gen", pos, Upstream[pos], time, no, 0, Nothing, late))
      <4> DEFINE up == Upstream[pos]
      <4>1. th' = [th EXCEPT !["query"] = [IdleThread EXCEPT !.pc = "gen", !.pos = pos, !.e = up,
                                                             !.now = time, !.late = late]]
        BY <2>1
      <4> HIDE DEF up
      <4>2. [IdleThread EXCEPT !.pc = "gen", !.pos = pos, !.e = up, !.now = time, !.late = late]
              = Thr("gen", pos, up, time, no, 0, Nothing, late)
        <5> DEFINE no2 == FALSE
                   zero == 0
                   none == "none"
                   idle == "idle"
                   nothing == Nothing
                   gen == "gen"
                   base == IdleThread
        <5>1. base = Thr(idle, zero, none, zero, no2, zero, nothing, no2)
          BY DEF IdleThread, Thr
        <5> HIDE DEF no2, base, zero, none, nothing, idle, gen
        <5> DEFINE y1 == [base EXCEPT !.pc = gen]
        <5>2. y1 = Thr(gen, zero, none, zero, no2, zero, nothing, no2)
          BY <5>1 DEF Thr
        <5> HIDE DEF y1
        <5> DEFINE y2 == [y1 EXCEPT !.pos = pos]
        <5>3. y2 = Thr(gen, pos, none, zero, no2, zero, nothing, no2)
          BY <5>2 DEF Thr
        <5> HIDE DEF y2
        <5> DEFINE y3 == [y2 EXCEPT !.e = up]
        <5>4. y3 = Thr(gen, pos, up, zero, no2, zero, nothing, no2)
          BY <5>3 DEF Thr
        <5> HIDE DEF y3
        <5> DEFINE y4 == [y3 EXCEPT !.now = time]
        <5>5. y4 = Thr(gen, pos, up, time, no2, zero, nothing, no2)
          BY <5>4 DEF Thr
        <5> HIDE DEF y4
        <5>6. [y4 EXCEPT !.late = late] = Thr(gen, pos, up, time, no2, zero, nothing, late)
          BY <5>5 DEF Thr
        <5> QED BY <5>6 DEF y1, y2, y3, y4, base, no2, zero, nothing, gen
      <4>3. Becomes("query", [IdleThread EXCEPT !.pc = "gen", !.pos = pos, !.e = up, !.now = time,
                                                !.late = late])
        BY <1>1, <4>1
      <4> QED BY <4>2, <4>3 DEF up
    <3>3. "gen" \notin Watched /\ "gen" \notin Anchored
      BY DEF Watched, Anchored
    <3> HIDE DEF no
    <3>5. ThreadType' /\ Elsewhere("query") /\ \A u \in Thread : u # "query" => Same(u)
      BY <1>0, <3>6, <3>1, <3>2, <3>3, <3>4, MovesElsewhere
    <3> QED BY <3>5 DEF AllSteps, ThreadStep
  <2>2. CASE th' = [th EXCEPT !["query"].pos = pos]
    <3>0. q.pos \in Position /\ pos \in Position
      BY <1>0 DEF ThreadType, IsThread, Position
    <3> HIDE DEF pos
    <3>1. q = Thr(q.pc, q.pos, q.e, q.now, q.current, q.ver, q.read, q.late)
          /\ IsRead(q.read) /\ q.pos \in Position /\ (q.pc \in Verifying => q.e \in Endpoint)
          /\ (q.pc \in Anchored => q.ver \in Version)
      BY <1>0 DEF ThreadType, IsThread, Thr
    <3>2. th' = [th EXCEPT !["query"] = [q EXCEPT !.pos = pos]]
      BY <2>2
    <3> HIDE DEF q
    <3>3. [q EXCEPT !.pos = pos] = Thr(q.pc, pos, q.e, q.now, q.current, q.ver, q.read, q.late)
      BY <3>1 DEF Thr
    <3> DEFINE x == Thr(q.pc, pos, q.e, q.now, q.current, q.ver, q.read, q.late)
    <3>4. /\ IsThread(x) /\ x.pc = q.pc /\ x.current = q.current /\ x.ver = q.ver
          /\ x.read = q.read /\ x.late = q.late
      BY <3>0, <3>1, ThrFields
    <3>5. Becomes("query", x)
      BY <1>1, <3>2, <3>3
    <3> HIDE DEF x
    <3>6. ThreadType' /\ th'["query"] = x /\ \A u \in Thread : u # "query" => Same(u)
      BY <1>0, <3>1, <3>4, <3>5, BecomesTyped
    <3>7. Same("query")
      BY <3>4, <3>6 DEF Same, q
    <3> QED BY <3>6, <3>7 DEF AllSteps
  <2> QED BY <1>2, <1>4, <2>1, <2>2 DEF Forward
<1> QED BY <1>3, <1>4

\* result_is_current decides, and a refresh may start.
LEMMA ReleaseSteps ==
  ASSUME ThreadType, Release
  PROVE  ThreadType' /\ AllSteps
<1> DEFINE q == th["query"]
           decided == IF ResultIsCurrent(q) THEN [q EXCEPT !.pc = "allowed"]
                      ELSE [IdleThread EXCEPT !.pc = "next", !.pos = q.pos]
           begun == [IdleThread EXCEPT !.pc = "cold", !.e = q.e, !.now = time]
           no == FALSE
<1>0. /\ q = Thr(q.pc, q.pos, q.e, q.now, q.current, q.ver, q.read, q.late)
      /\ q.pc = "release" /\ q.e \in Endpoint /\ q.pos \in Position /\ IsRead(q.read)
      /\ 0 \in Position
  BY DEF ThreadType, IsThread, Thr, Release, Verifying, Thread, Position
<1>1. /\ IsThread(decided) /\ IsRead(decided.read)
      /\ \/ decided.pc = "next" /\ ~decided.late
         \/ /\ decided.pc = "allowed" /\ decided.read = q.read /\ decided.late = q.late
            /\ decided.current = q.current /\ decided.ver = q.ver
  <2>1. CASE ResultIsCurrent(q)
    <3>1. decided = [q EXCEPT !.pc = "allowed"]
      BY <2>1
    <3> HIDE DEF q, decided
    <3>2. [q EXCEPT !.pc = "allowed"] = Thr("allowed", q.pos, q.e, q.now, q.current, q.ver, q.read, q.late)
      BY <1>0 DEF Thr
    <3>3. decided = Thr("allowed", q.pos, q.e, q.now, q.current, q.ver, q.read, q.late)
      BY <3>1, <3>2
    <3>4. "allowed" \notin Verifying /\ "allowed" \notin Anchored
      BY DEF Verifying, Anchored
    <3>5. /\ IsThread(decided) /\ decided.pc = "allowed" /\ decided.read = q.read
          /\ decided.late = q.late /\ decided.current = q.current /\ decided.ver = q.ver
      BY <1>0, <3>3, <3>4, ThrFields
    <3> QED BY <1>0, <3>5
  <2>2. CASE ~ResultIsCurrent(q)
    <3>1. decided = [IdleThread EXCEPT !.pc = "next", !.pos = q.pos]
      BY <2>2
    <3>2. "next" \notin Verifying
      BY DEF Verifying, Anchored
    <3> HIDE DEF q, decided
    <3> QED BY <1>0, <3>1, <3>2, IdleTyped
  <2> QED BY <2>1, <2>2
<1>2. /\ IsThread(begun) /\ IsRead(begun.read) /\ begun.pc = "cold" /\ ~begun.late
  <2> HIDE DEF q
  <2>1. begun = Thr("cold", 0, q.e, time, no, 0, Nothing, no)
    BY IdleUpdated
  <2>2. "cold" \notin Anchored /\ ~no
    BY DEF Anchored
  <2> HIDE DEF begun, no
  <2>3. IsThread(begun) /\ begun.pc = "cold" /\ begun.read = Nothing /\ begun.late = no
    BY <1>0, <2>1, <2>2, ThrFields
  <2> QED BY <2>2, <2>3, NothingRead
<1>3. \/ th' = [th EXCEPT !["query"] = decided]
      \/ th' = [th EXCEPT !["query"] = decided, !["refresh"] = begun]
  BY DEF Release
<1> HIDE DEF decided, begun, no
<1>5. /\ th' = [u \in Thread |-> th'[u]]
      /\ th'["query"] = decided
      /\ th'["refresh"] = th["refresh"] \/ th'["refresh"] = begun
  BY <1>3 DEF ThreadType, Thread
<1>6. ThreadType'
  BY <1>1, <1>2, <1>5 DEF ThreadType, Thread
<1>7. ThreadStep("query")
  <2>1. CASE decided.pc = "next" /\ ~decided.late
    BY <1>5, <2>1 DEF ThreadStep, Elsewhere, Watched
  <2>2. CASE /\ decided.pc = "allowed" /\ decided.read = q.read /\ decided.late = q.late
             /\ decided.current = q.current /\ decided.ver = q.ver
    BY <1>0, <1>5, <2>2 DEF ThreadStep, Moves
  <2> QED BY <1>1, <2>1, <2>2
<1>8. Same("refresh") \/ ThreadStep("refresh")
  BY <1>2, <1>5 DEF Same, ThreadStep, Elsewhere, Watched
<1> QED BY <1>6, <1>7, <1>8 DEF AllSteps, Thread

\* A reorganisation withdraws the history flag late.
LEMMA ReorgSteps ==
  ASSUME ThreadType, th' = [th EXCEPT !["query"].late = FALSE]
  PROVE  ThreadType' /\ AllSteps /\ ~th'["query"].late
<1> DEFINE q == th["query"]
           no == FALSE
<1>0. /\ q = Thr(q.pc, q.pos, q.e, q.now, q.current, q.ver, q.read, q.late)
      /\ IsThread(q) /\ IsRead(q.read) /\ "query" \in Thread
  BY DEF ThreadType, IsThread, Thr, Thread
<1>1. th' = [th EXCEPT !["query"] = [q EXCEPT !.late = no]] /\ ~no
  OBVIOUS
<1> HIDE DEF q, no
<1>2. [q EXCEPT !.late = no] = Thr(q.pc, q.pos, q.e, q.now, q.current, q.ver, q.read, no)
  BY <1>0 DEF Thr
<1> DEFINE x == Thr(q.pc, q.pos, q.e, q.now, q.current, q.ver, q.read, no)
<1>3. /\ IsThread(x) /\ x.pc = q.pc /\ x.current = q.current /\ x.ver = q.ver
      /\ x.read = q.read /\ x.late = no
  <2>1. /\ q.pc \in Verifying => q.e \in Endpoint
        /\ q.pc \in Anchored => q.ver \in Version
        /\ q.pos \in Position
    BY <1>0 DEF IsThread
  <2> QED BY <2>1, ThrFields
<1>4. th' = [th EXCEPT !["query"] = x]
  BY <1>1, <1>2
<1> HIDE DEF x
<1>5. Becomes("query", x)
  BY <1>4 DEF ThreadType, Becomes
<1>6. ThreadType' /\ th'["query"] = x /\ \A u \in Thread : u # "query" => Same(u)
  BY <1>0, <1>3, <1>5, BecomesTyped
<1>7. Same("query")
  BY <1>1, <1>3, <1>6 DEF Same, q
<1> QED BY <1>1, <1>3, <1>6, <1>7 DEF AllSteps

\* Every step moves the threads in one of these ways.
LEMMA ThreadsMoved ==
  ASSUME ChainType, SpentType, PubType, RowsType, ThreadType, [Next]_vars
  PROVE  ThreadType' /\ AllSteps
<1>0. ASSUME UNCHANGED th
      PROVE  ThreadType' /\ AllSteps
  BY <1>0 DEF ThreadType, AllSteps, Same
<1>1. CASE Verifies
  BY <1>1, ReadSteps, CheckSteps, TouchSteps, ExpireSteps, ColdSteps DEF Verifies, Verify
<1>2. CASE QueryStart \/ Forward \/ Release
  BY <1>2, AskSteps, ReleaseSteps
<1>3. CASE Watches
  <2>1. UNCHANGED th \/ th' = BumpedGeneration(th)
    <3>1. CASE PollStart \/ Quarantine \/ RollbackForReorg \/ FetchLogs \/ HandleEvent
               \/ ApplyEvent \/ InvalidateBump
      BY <3>1 DEF PollStart, Quarantine, RollbackForReorg, FetchLogs, HandleEvent, ApplyEvent,
                  InvalidateBump
    <3>2. CASE InvalidateMark \/ PollEnd \/ ReconcileList \/ ReconcileRow \/ Persist \/ WatcherRestarts
      BY <3>2 DEF InvalidateMark, PollEnd, ReconcileList, ReconcileRow, Persist, WatcherRestarts
    <3> QED BY <1>3, <3>1, <3>2 DEF Watches, Watcher
  <2> QED BY <1>0, <2>1, Bumped
<1>4. CASE \E n \in 1..Len(chain) : Reorg(n)
  BY <1>4, ReorgFrame, ReorgSteps
<1>5. CASE MineEmpty \/ Revokes \/ Tick \/ UNCHANGED vars
  BY <1>0, <1>5 DEF MineEmpty, Revokes, RevokeResolver, RevokeRoot, Tick, vars
<1>6. CASE Publishes
  BY <1>0, <1>6, PublishesFrame
<1> QED BY <1>1, <1>2, <1>3, <1>4, <1>5, <1>6, NextSplit

-----------------------------------------------------------------------------
(* The watcher.                                                            *)

\* The watcher looks at the same block, or at an event it has fetched, or at none.
Looks ==
  \/ /\ watch'.block = watch.block /\ watch'.event = watch.event
     /\ watch'.events \subseteq watch.events
  \/ HandleEvent
  \/ watch'.block = <<0, 0>> /\ watch'.event = NoEvent /\ watch'.events = {}
  \/ /\ watch'.block = watch.block /\ watch'.event = watch.event
     /\ watch'.events = Logs(watch.last + 1, watch.to) /\ UNCHANGED <<chain, spent>>

\* What it has to mark, and where it is.
Tasks ==
  \/ watch'.pc \notin {"invalidate", "mark"} \/ watch'.back # "events"
  \/ /\ ApplyEvent /\ watch'.event = watch.event /\ watch'.block = watch.block
     /\ \/ /\ watch.event.type = "ResolverRevoked" /\ UNCHANGED rows
           /\ watch'.todo = {<<k, "REVOKED">> : k \in {k \in Key : rows[k] # Nothing}}
        \/ watch.event.type \notin {"ResolverRevoked", "RootRevoked"}
  \/ /\ watch.pc \in {"invalidate", "mark"} /\ watch.back = "events"
     /\ watch'.event = watch.event /\ watch'.block = watch.block
     /\ \/ watch'.todo = watch.todo
        \/ \E item \in watch.todo : /\ rows' = Marked({item[1]}, item[2])
                                    /\ watch'.todo = watch.todo \ {item}

IsTask(item) == item[2] \in {"REVOKED", "EXPIRED"}

\* The watcher takes on rows to invalidate, or goes on when there are none.
LEMMA InvalidateFields ==
  ASSUME WatchType, NEW items, NEW back, Invalidate(items, back)
  PROVE  /\ watch' = [f \in WatchField |-> watch'[f]]
         /\ watch'.todo = items /\ watch'.last = watch.last /\ watch'.to = watch.to
         /\ watch'.block = watch.block /\ watch'.event = watch.event
         /\ watch'.events = watch.events
         /\ items = {} => watch'.pc = back /\ watch'.back = "idle"
         /\ items # {} => watch'.pc = "invalidate" /\ watch'.back = back
<1>1. PICK b, pc : /\ watch' = [watch EXCEPT !.todo = items, !.back = b, !.pc = pc]
                   /\ items = {} => b = "idle" /\ pc = back
                   /\ items # {} => b = back /\ pc = "invalidate"
  BY DEF Invalidate
<1> QED BY <1>1 DEF WatchType, WatchField

\* The steps of the watcher.
LEMMA WatchSteps ==
  ASSUME WatchType, Watches
  PROVE  WatchType' /\ Looks /\ Tasks
<1>0. watch = [f \in WatchField |-> watch[f]] /\ watch.last \in Nat /\ watch.to \in Int
      /\ disk = [last |-> disk.last, hash |-> disk.hash] /\ disk.last \in Nat
      /\ \A item \in watch.todo : IsTask(item)
  BY DEF WatchType, IsTask
<1>1. CASE PollStart
  <2>1. PICK pc : watch' = [watch EXCEPT !.to = Len(chain) - Confirmations, !.pc = pc]
                  /\ pc \in {"list", "quarantine", "fetch"}
    BY <1>1 DEF PollStart
  <2>2. Len(chain) - Confirmations \in Int
    BY Parameters
  <2> QED BY <1>1, <2>1, <2>2 DEF PollStart, WatchType, WatchField, Looks, Tasks
<1>2. CASE Quarantine
  <2> DEFINE items == {<<k, "EXPIRED">> : k \in {k \in Key : rows[k] # Nothing}}
  <2>1. Invalidate(items, "rollback") /\ UNCHANGED disk
    BY <1>2 DEF Quarantine
  <2>2. \A item \in items : IsTask(item)
    BY DEF IsTask
  <2> HIDE DEF items
  <2> QED BY <1>0, <2>1, <2>2, InvalidateFields DEF WatchType, Looks, Tasks, IsTask
<1>3. CASE RollbackForReorg
  <2>1. PICK last : /\ watch' = [watch EXCEPT !.pc = "fetch", !.hash = <<>>, !.last = last]
                    /\ last = IF watch.last > SafetyBlocks THEN watch.last - SafetyBlocks ELSE 0
    BY <1>3 DEF RollbackForReorg
  <2>2. last \in Nat
    BY <1>0, <2>1, Parameters
  <2> QED BY <1>3, <2>1, <2>2 DEF RollbackForReorg, WatchType, WatchField, Looks, Tasks
<1>4. CASE FetchLogs
  <2>1. CASE watch.to <= watch.last
    <3>1. watch' = [watch EXCEPT !.pc = "list"]
      BY <1>4, <2>1 DEF FetchLogs, WGoto
    <3> QED BY <1>4, <3>1 DEF FetchLogs, WatchType, WatchField, Looks, Tasks
  <2>2. CASE ~(watch.to <= watch.last)
    <3> DEFINE logs == Logs(watch.last + 1, watch.to)
    <3>1. watch' = [watch EXCEPT !.pc = "events", !.events = logs]
      BY <1>4, <2>2 DEF FetchLogs
    <3> HIDE DEF logs
    <3>2. /\ WatchType' /\ watch'.pc = "events" /\ watch'.events = logs
          /\ watch'.block = watch.block /\ watch'.event = watch.event
      BY <1>4, <3>1 DEF FetchLogs, WatchType, WatchField
    <3> QED BY <1>4, <3>2 DEF FetchLogs, Looks, Tasks, logs
  <2> QED BY <2>1, <2>2
<1>5. CASE HandleEvent
  <2>1. PICK ev \in watch.events :
          watch' = [watch EXCEPT !.events = @ \ {ev}, !.event = ev.event,
                                 !.block = <<ev.n, ev.fork>>, !.pc = "apply"]
    BY <1>5 DEF HandleEvent
  <2>2. UNCHANGED disk
    BY <1>5 DEF HandleEvent
  <2>3. WatchType' /\ watch'.pc = "apply"
    BY <2>1, <2>2 DEF WatchType, WatchField
  <2> QED BY <1>5, <2>3 DEF Looks, Tasks
<1>6. CASE ApplyEvent
  <2> DEFINE stored == {k \in Key : rows[k] # Nothing}
  <2>0. UNCHANGED disk
    BY <1>6 DEF ApplyEvent
  <2>1. \E items :
          /\ Invalidate(items, "events")
          /\ \A item \in items : IsTask(item)
          /\ \/ /\ watch.event.type = "ResolverRevoked" /\ UNCHANGED rows
                /\ items = {<<k, "REVOKED">> : k \in stored}
             \/ watch.event.type \notin {"ResolverRevoked", "RootRevoked"}
             \/ items = {}
    <3>1. CASE watch.event.type = "ResolverRevoked"
      <4> WITNESS {<<k, "REVOKED">> : k \in stored}
      <4> QED BY <1>6, <3>1 DEF ApplyEvent, IsTask
    <3>2. CASE watch.event.type = "ResolverUpdated"
      <4> WITNESS {<<k, "EXPIRED">> : k \in {k \in stored : k[2] # watch.event.arg}}
      <4> QED BY <1>6, <3>2 DEF ApplyEvent, IsTask
    <3>3. CASE watch.event.type = "RootRevoked"
      <4> WITNESS {}
      <4> QED BY <1>6, <3>3 DEF ApplyEvent, IsTask
    <3>4. CASE watch.event.type \in {"EndpointBound", "EndpointUnbound"}
      <4>1. CASE Newest(watch.event.arg) = {}
        <5> WITNESS {}
        <5> QED BY <1>6, <3>4, <4>1 DEF ApplyEvent, IsTask
      <4>2. CASE Newest(watch.event.arg) # {}
        <5>1. PICK k \in Newest(watch.event.arg) : Invalidate({<<k, "EXPIRED">>}, "events")
          BY <1>6, <3>4, <4>2 DEF ApplyEvent
        <5> WITNESS {<<k, "EXPIRED">>}
        <5> QED BY <3>4, <5>1 DEF IsTask
      <4> QED BY <4>1, <4>2
    <3> QED BY <1>6, <3>1, <3>2, <3>3, <3>4 DEF ApplyEvent
  <2>2. PICK items :
          /\ Invalidate(items, "events")
          /\ \A item \in items : IsTask(item)
          /\ \/ /\ watch.event.type = "ResolverRevoked" /\ UNCHANGED rows
                /\ items = {<<k, "REVOKED">> : k \in stored}
             \/ watch.event.type \notin {"ResolverRevoked", "RootRevoked"}
             \/ items = {}
    BY <2>1
  <2>3. /\ watch' = [f \in WatchField |-> watch'[f]]
        /\ watch'.todo = items /\ watch'.last = watch.last /\ watch'.to = watch.to
        /\ watch'.block = watch.block /\ watch'.event = watch.event /\ watch'.events = watch.events
        /\ items = {} => watch'.pc = "events" /\ watch'.back = "idle"
    BY <2>2, InvalidateFields
  <2>4. WatchType'
    BY <1>0, <2>0, <2>2, <2>3 DEF WatchType, IsTask
  <2> HIDE DEF stored
  <2>5. Looks
    BY <2>3 DEF Looks
  <2>6. Tasks
    <3>1. CASE items = {}
      BY <2>3, <3>1 DEF Tasks
    <3>2. CASE /\ watch.event.type = "ResolverRevoked" /\ UNCHANGED rows
               /\ items = {<<k, "REVOKED">> : k \in stored}
      BY <1>6, <2>3, <3>2 DEF Tasks, stored
    <3>3. CASE watch.event.type \notin {"ResolverRevoked", "RootRevoked"}
      BY <1>6, <2>3, <3>3 DEF Tasks
    <3> QED BY <2>2, <3>1, <3>2, <3>3
  <2> QED BY <2>4, <2>5, <2>6
<1>7. CASE InvalidateBump
  <2>1. watch' = [watch EXCEPT !.pc = "mark"] /\ watch.pc = "invalidate" /\ UNCHANGED disk
    BY <1>7 DEF InvalidateBump, WGoto
  <2> QED BY <2>1 DEF WatchType, WatchField, Looks, Tasks
<1>8. CASE InvalidateMark
  <2>1. PICK item \in watch.todo : /\ rows' = Marked({item[1]}, item[2])
                                   /\ Invalidate(watch.todo \ {item}, watch.back)
    BY <1>8 DEF InvalidateMark
  <2>2. UNCHANGED disk /\ watch.pc = "mark"
    BY <1>8 DEF InvalidateMark
  <2> DEFINE items == watch.todo \ {item}
  <2>3. /\ watch' = [f \in WatchField |-> watch'[f]]
        /\ watch'.todo = items /\ watch'.last = watch.last /\ watch'.to = watch.to
        /\ watch'.block = watch.block /\ watch'.event = watch.event /\ watch'.events = watch.events
        /\ items = {} => watch'.back = "idle"
        /\ items # {} => watch'.back = watch.back
    BY <2>1, InvalidateFields
  <2>4. \A i \in items : i \in watch.todo
    OBVIOUS
  <2>5. WatchType'
    BY <1>0, <2>2, <2>3, <2>4 DEF WatchType, IsTask
  <2>6. Tasks
    <3>1. CASE items = {}
      BY <2>3, <3>1 DEF Tasks
    <3>2. CASE items # {}
      BY <2>1, <2>2, <2>3, <3>2 DEF Tasks
    <3> QED BY <3>1, <3>2
  <2> QED BY <2>3, <2>5, <2>6 DEF Looks
<1>9. CASE PollEnd
  <2> DEFINE last == IF watch.last < watch.to THEN watch.to ELSE watch.last
             hash == BlockHash(watch.to)
  <2>1. watch' = [watch EXCEPT !.pc = "list", !.hash = hash, !.last = last, !.event = NoEvent,
                               !.block = <<0, 0>>]
        /\ watch.events = {} /\ UNCHANGED disk
    BY <1>9 DEF PollEnd
  <2>2. last \in Nat
    BY <1>0
  <2> HIDE DEF last, hash
  <2> QED BY <2>1, <2>2 DEF WatchType, WatchField, Looks, Tasks
<1>10. CASE ReconcileList
  <2> DEFINE check == {k \in Key : rows[k] # Nothing}
  <2>1. watch' = [watch EXCEPT !.pc = "reconcile", !.check = check] /\ UNCHANGED disk
    BY <1>10 DEF ReconcileList
  <2> HIDE DEF check
  <2> QED BY <2>1 DEF WatchType, WatchField, Looks, Tasks
<1>11. CASE ReconcileRow
  <2>1. PICK k, verdict, pc :
          /\ watch' = [watch EXCEPT !.todo = verdict, !.check = @ \ {k}, !.back = "reconcile",
                                    !.pc = pc]
          /\ verdict \in {{}, {<<k, "REVOKED">>}, {<<k, "EXPIRED">>}}
    BY <1>11 DEF ReconcileRow
  <2>2. \A item \in verdict : IsTask(item)
    BY <2>1 DEF IsTask
  <2>3. UNCHANGED disk
    BY <1>11 DEF ReconcileRow
  <2>4. /\ watch' = [f \in WatchField |-> watch'[f]]
        /\ watch'.todo = verdict /\ watch'.last = watch.last /\ watch'.to = watch.to
        /\ watch'.block = watch.block /\ watch'.event = watch.event /\ watch'.events = watch.events
        /\ watch'.back = "reconcile"
    BY <2>1 DEF WatchType, WatchField
  <2> QED BY <1>0, <2>2, <2>3, <2>4 DEF WatchType, Looks, Tasks, IsTask
<1>12. CASE Persist \/ WatcherRestarts
  <2>1. PICK state : /\ watch' = WatcherAt(state)
                     /\ state = [last |-> state.last, hash |-> state.hash] /\ state.last \in Nat
                     /\ disk' = state
    <3>1. CASE Persist
      <4>1. disk' = [last |-> watch.last, hash |-> watch.hash] /\ watch' = WatcherAt(disk')
        BY <3>1 DEF Persist, RuntimeState
      <4>2. disk'.last = watch.last /\ disk'.hash = watch.hash
        BY <4>1
      <4> QED BY <1>0, <4>1, <4>2
    <3>2. CASE WatcherRestarts
      BY <1>0, <3>2 DEF WatcherRestarts
    <3> QED BY <1>12, <3>1, <3>2
  <2>2. /\ watch' = [f \in WatchField |-> watch'[f]]
        /\ watch'.pc = "idle" /\ watch'.last = state.last /\ watch'.to = 0 /\ watch'.events = {}
        /\ watch'.event = NoEvent /\ watch'.block = <<0, 0>> /\ watch'.todo = {}
    BY <2>1 DEF WatcherAt, WatchField
  <2> QED BY <2>1, <2>2 DEF WatchType, Looks, Tasks
<1> QED BY <1>1, <1>2, <1>3, <1>4, <1>5, <1>6, <1>7, <1>8, <1>9, <1>10, <1>11, <1>12
        DEF Watches, Watcher

\* Every step keeps the watcher typed and moves it in one of these ways.
LEMMA WatchKept ==
  ASSUME ChainType, SpentType, PubType, WatchType, [Next]_vars
  PROVE  WatchType' /\ Looks /\ Tasks
<1>1. ASSUME UNCHANGED <<watch, disk>>
      PROVE  WatchType' /\ Looks /\ Tasks
  BY <1>1 DEF WatchType, Looks, Tasks
<1>2. CASE MineEmpty \/ Revokes
  BY <1>1, <1>2 DEF MineEmpty, Revokes, RevokeResolver, RevokeRoot
<1> QED BY <1>1, <1>2, NextSplit, WatchSteps, VerifiesFrame, PublishesFrame, OthersFrame, ReorgFrame

\* Every step keeps what the watcher knows of the blocks.
LEMMA KnownInvKept ==
  ASSUME ChainType, SpentType, PubType, WatchType, ForkInv, KnownInv, [Next]_vars
  PROVE  KnownInv'
<1>0. PICK n, f, e : /\ n = watch.block[1] /\ f = watch.block[2] /\ e = watch.event
                     /\ watch.block = <<n, f>> /\ Known(n, f, e)
  BY DEF KnownInv
<1>1. Known(n, f, e)'
  BY <1>0, KnownKept
<1>2. ASSUME NEW ev \in watch.events
      PROVE  Known(ev.n, ev.fork, ev.event)'
  <2>1. Known(ev.n, ev.fork, ev.event)
    BY DEF KnownInv
  <2> QED BY <2>1, KnownKept
<1> DEFINE SameBlock == watch'.block = watch.block /\ watch'.event = watch.event
           Block2 == /\ watch'.block = <<watch'.block[1], watch'.block[2]>>
                     /\ Known(watch.block[1], watch.block[2], watch.event)'
<1>3. SameBlock => Block2
  BY <1>0, <1>1 DEF Known
<1>4. CASE SameBlock /\ watch'.events \subseteq watch.events
  BY <1>2, <1>3, <1>4 DEF KnownInv
<1>5. CASE HandleEvent
  <2>1. PICK ev \in watch.events :
          watch' = [watch EXCEPT !.events = @ \ {ev}, !.event = ev.event,
                                 !.block = <<ev.n, ev.fork>>, !.pc = "apply"]
    BY <1>5 DEF HandleEvent
  <2>2. /\ watch'.block = <<ev.n, ev.fork>> /\ watch'.event = ev.event
        /\ watch'.events \subseteq watch.events
    BY <2>1 DEF WatchType, WatchField
  <2>3. Known(watch.block[1], watch.block[2], watch.event)'
    BY <1>2, <2>2 DEF Known
  <2> QED BY <1>2, <2>2, <2>3 DEF KnownInv
<1>6. CASE watch'.block = <<0, 0>> /\ watch'.event = NoEvent /\ watch'.events = {}
  <2>1. Len(chain') \in Nat /\ spent'.reorgs \in Nat
    BY BlocksKept, ChainSteps DEF ChainType, SpentType
  <2>2. Known(0, 0, NoEvent)'
    BY <2>1 DEF Known
  <2> QED BY <1>6, <2>2 DEF KnownInv, Known
<1>7. CASE SameBlock /\ watch'.events = Logs(watch.last + 1, watch.to) /\ UNCHANGED <<chain, spent>>
  <2>1. ASSUME NEW ev \in watch'.events
        PROVE  Known(ev.n, ev.fork, ev.event)'
    <3>1. PICK i \in (watch.last + 1)..watch.to :
            /\ i <= Len(chain) /\ ev = [n |-> i, fork |-> chain[i].fork, event |-> chain[i].event]
      BY <1>7 DEF Logs, NormalizedEvent
    <3>2. watch.last \in Nat /\ watch.to \in Int /\ Len(chain) \in Nat
      BY ChainFacts DEF WatchType
    <3>3. i \in 1..Len(chain) /\ i \in Nat
      BY <3>1, <3>2
    <3>4. chain[i].fork \in Nat /\ chain[i].fork <= spent.reorgs
      BY <3>3, ChainFacts DEF ForkInv, Block
    <3>5. ev.n = i /\ ev.fork = chain[i].fork /\ ev.event = chain[i].event
      BY <3>1
    <3>6. Known(i, chain[i].fork, chain[i].event)
      BY <3>1, <3>3, <3>4 DEF Known
    <3>7. Known(ev.n, ev.fork, ev.event)
      BY <3>5, <3>6 DEF Known
    <3> QED BY <1>7, <3>7 DEF Known
  <2> QED BY <1>3, <1>7, <2>1 DEF KnownInv
<1> QED BY <1>4, <1>5, <1>6, <1>7, WatchKept DEF Looks

-----------------------------------------------------------------------------
(* Revocations that the watcher has announced or handled.                  *)

\* What the watcher has announced is on the chain already, and was announced
\* before, unless this is the step that bumps the generation for it.
LEMMA AnnouncedKept ==
  ASSUME ChainType, SpentType, PubType, WatchType, KnownInv, [Next]_vars,
         NEW i \in 1..Len(chain'), chain'[i].handled \/ watch'.block = <<i, chain'[i].fork>>
  PROVE  /\ Kept(i)
         /\ \/ Announced(i)
            \/ HandleEvent /\ watch'.event = chain[i].event
<1>0. Len(chain) \in Nat /\ spent.reorgs \in Nat
  BY ChainFacts DEF SpentType
<1>1. chain'[i].handled \/ watch'.block = <<i, chain'[i].fork>>
  OBVIOUS
<1>2. CASE Kept(i)
  <2>1. CASE chain'[i].handled
    BY <1>2, <2>1 DEF Kept, Announced
  <2>2. CASE watch'.block = <<i, chain'[i].fork>>
    <3>1. CASE watch'.block = watch.block
      BY <1>2, <2>2, <3>1 DEF Kept, Announced
    <3>2. CASE watch'.block = <<0, 0>>
      BY <2>2, <3>2
    <3>3. CASE HandleEvent
      <4>1. PICK ev \in watch.events :
              watch' = [watch EXCEPT !.events = @ \ {ev}, !.event = ev.event,
                                     !.block = <<ev.n, ev.fork>>, !.pc = "apply"]
        BY <3>3 DEF HandleEvent
      <4>2. watch'.block = <<ev.n, ev.fork>> /\ watch'.event = ev.event
        BY <4>1 DEF WatchType, WatchField
      <4>3. Known(ev.n, ev.fork, ev.event)
        BY DEF KnownInv
      <4>4. ev.n = i /\ ev.fork = chain[i].fork
        BY <1>2, <2>2, <4>2 DEF Kept
      <4>5. chain[i].event = ev.event
        BY <1>2, <4>3, <4>4 DEF Known, Kept
      <4> QED BY <1>2, <3>3, <4>2, <4>5
    <3> QED BY <3>1, <3>2, <3>3, WatchKept DEF Looks
  <2> QED BY <1>1, <2>1, <2>2
<1>3. CASE i = Len(chain) + 1 /\ chain'[i].fork = spent.reorgs /\ ~chain'[i].handled /\ UNCHANGED watch
  <2>1. watch.block = <<i, spent.reorgs>>
    BY <1>1, <1>3
  <2>2. watch.block[1] = i /\ watch.block[2] = spent.reorgs
    BY <2>1
  <2>3. i <= Len(chain)
    BY <2>2 DEF KnownInv, Known
  <2> QED BY <1>0, <1>3, <2>3
<1> QED BY <1>2, <1>3, BlocksKept

\* A bump for a revocation leaves no generation current.
LEMMA RevocationBumps ==
  ASSUME ThreadType, WatchType, HandleEvent,
         watch'.event.type \in {"ResolverRevoked", "RootRevoked"}
  PROVE  \A u \in Thread : ~th'[u].current
<1>1. PICK ev \in watch.events :
        /\ watch' = [watch EXCEPT !.events = @ \ {ev}, !.event = ev.event,
                                  !.block = <<ev.n, ev.fork>>, !.pc = "apply"]
        /\ th' = IF ev.event.type \in {"EndpointBound", "EndpointUnbound"}
                 THEN th ELSE BumpedGeneration(th)
  BY DEF HandleEvent
<1>2. watch'.event = ev.event
  BY <1>1 DEF WatchType, WatchField
<1>3. th' = BumpedGeneration(th)
  BY <1>1, <1>2
<1> QED BY <1>3, Bumped

\* While a thread holds a current generation, nothing is announced beside it.
LEMMA AnnouncedSteps ==
  ASSUME ChainType, SpentType, PubType, WatchType, ThreadType, KnownInv, [Next]_vars,
         NEW u \in Thread, th'[u].current
  PROVE  /\ ResolverAnnounced' => ResolverAnnounced
         /\ \A v \in Version : RootAnnounced(v)' => RootAnnounced(v)
<1>1. ASSUME NEW i \in 1..Len(chain'), Announced(i)',
             chain'[i].event.type \in {"ResolverRevoked", "RootRevoked"}
      PROVE  i \in 1..Len(chain) /\ Announced(i) /\ chain'[i].event = chain[i].event
  <2>1. Kept(i) /\ (Announced(i) \/ (HandleEvent /\ watch'.event = chain[i].event))
    BY <1>1, AnnouncedKept DEF Announced
  <2>2. i \in 1..Len(chain) /\ chain'[i].event = chain[i].event
    BY <2>1 DEF Kept
  <2>3. ~(HandleEvent /\ watch'.event = chain[i].event)
    BY <1>1, <2>2, RevocationBumps
  <2> QED BY <2>1, <2>2, <2>3
<1>2. ResolverAnnounced' => ResolverAnnounced
  BY <1>1 DEF ResolverAnnounced
<1>3. ASSUME NEW v \in Version, RootAnnounced(v)'
      PROVE  RootAnnounced(v)
  <2>1. PICK i \in 1..Len(chain') :
          Announced(i)' /\ chain'[i].event = [type |-> "RootRevoked", arg |-> v]
    BY <1>3 DEF RootAnnounced
  <2>2. chain'[i].event.type = "RootRevoked"
    BY <2>1
  <2> QED BY <1>1, <2>1, <2>2 DEF RootAnnounced
<1> QED BY <1>2, <1>3

\* A Registry that is read as active has no revocation before it.
LEMMA ActiveUnannounced ==
  ASSUME ChainType, RevokedInv
  PROVE  /\ Registry.status = "ACTIVE" => ~ResolverAnnounced
         /\ \A v \in Version : Registry.root[v] = "ACTIVE" => ~RootAnnounced(v)
<1>1. ASSUME NEW i \in 1..Len(chain)
      PROVE  Len(chain) \in i..Len(chain)
  BY ChainFacts
<1> QED BY <1>1 DEF RevokedInv, ResolverAnnounced, RootAnnounced, Registry

\* Every step keeps current generations free of announced revocations.
LEMMA ThreadInvKept ==
  ASSUME ChainType, SpentType, PubType, RowsType, ThreadType, WatchType, KnownInv, RevokedInv,
         ThreadInv, [Next]_vars
  PROVE  ThreadInv'
<1> SUFFICES ASSUME NEW u \in Thread, th'[u].current
             PROVE  /\ th'[u].pc \in {"final_root", "store"} => ~ResolverAnnounced'
                    /\ th'[u].pc = "store" => ~RootAnnounced(th[u].ver)'
  BY DEF ThreadInv, RootAnnounced
<1>0. /\ ResolverAnnounced' => ResolverAnnounced
      /\ \A v \in Version : RootAnnounced(v)' => RootAnnounced(v)
  BY AnnouncedSteps
<1>1. Same(u) \/ ThreadStep(u)
  BY ThreadsMoved DEF AllSteps
<1>2. ThreadType /\ IsThread(th[u])
  BY DEF ThreadType
<1>3. CASE Same(u)
  <2>1. th[u].current /\ th'[u].pc = th[u].pc /\ th'[u].ver = th[u].ver
    BY <1>3 DEF Same
  <2>2. /\ th[u].pc \in {"final_root", "store"} => ~ResolverAnnounced
        /\ th[u].pc = "store" => ~RootAnnounced(th[u].ver)
    BY <2>1 DEF ThreadInv
  <2>3. th[u].pc = "store" => th[u].ver \in Version
    BY <1>2 DEF IsThread, Anchored
  <2> QED BY <1>0, <2>1, <2>2, <2>3 DEF RootAnnounced
<1>4. CASE Moves(u, "final_anchor", "final_root") /\ Registry.status = "ACTIVE"
  <2>1. ~ResolverAnnounced /\ th'[u].pc = "final_root"
    BY <1>4, ActiveUnannounced DEF Moves
  <2> QED BY <1>0, <2>1
<1>5. CASE Moves(u, "final_root", "store") /\ Registry.root[th[u].ver] = "ACTIVE"
  <2>1. /\ th[u].current /\ th[u].pc = "final_root" /\ th'[u].pc = "store"
        /\ th'[u].ver = th[u].ver
    BY <1>5 DEF Moves
  <2>2. th[u].ver \in Version
    BY <1>2, <2>1 DEF IsThread, Anchored
  <2>3. ~ResolverAnnounced /\ ~RootAnnounced(th[u].ver)
    BY <1>5, <2>1, <2>2, ActiveUnannounced DEF ThreadInv
  <2> QED BY <1>0, <2>1, <2>2, <2>3 DEF RootAnnounced
<1>6. CASE th'[u].pc \notin {"final_root", "store"}
  BY <1>6
<1>7. ThreadStep(u) => \/ th'[u].pc \notin {"final_root", "store"}
                       \/ Moves(u, "final_anchor", "final_root") /\ Registry.status = "ACTIVE"
                       \/ Moves(u, "final_root", "store") /\ Registry.root[th[u].ver] = "ACTIVE"
  BY DEF ThreadStep, Elsewhere, Watched, Moves
<1> QED BY <1>1, <1>3, <1>4, <1>5, <1>6, <1>7

-----------------------------------------------------------------------------
(* The rows, once a revocation has been handled.                           *)

\* What has been handled was announced.
LEMMA HandledAnnounced ==
  ASSUME NEW v, HandledRevocation(v)
  PROVE  ResolverAnnounced \/ RootAnnounced(v)
  BY DEF HandledRevocation, ResolverAnnounced, RootAnnounced, Announced

\* The event the watcher is busy with revokes version v.
Current(v) ==
  /\ OnChain(watch.block)
  /\ watch.event.type = "ResolverRevoked" \/ watch.event = [type |-> "RootRevoked", arg |-> v]

\* A revocation is handled when the watcher is done with its event.
LEMMA HandledSteps ==
  ASSUME ChainType, SpentType, PubType, KnownInv, [Next]_vars, NEW v,
         HandledRevocation(v)', ~HandledRevocation(v)
  PROVE  Current(v) /\ chain' # chain /\ Watches
<1>1. PICK i \in 1..Len(chain') :
        /\ chain'[i].handled
        /\ \/ chain'[i].event.type = "ResolverRevoked"
           \/ chain'[i].event = [type |-> "RootRevoked", arg |-> v]
  BY DEF HandledRevocation
<1>2. Kept(i)
  BY <1>1, BlocksKept
<1>3. i \in 1..Len(chain) /\ chain'[i].event = chain[i].event /\ ~chain[i].handled
      /\ watch.block = <<i, chain[i].fork>>
  BY <1>1, <1>2 DEF Kept, HandledRevocation
<1>4. watch.block[1] = i /\ watch.block[2] = chain[i].fork
  BY <1>3
<1>5. chain[i].event = watch.event /\ OnChain(watch.block)
  BY <1>3, <1>4 DEF KnownInv, Known, OnChain
<1>6. Current(v) /\ chain' # chain
  BY <1>1, <1>3, <1>5 DEF Current
<1>7. ASSUME NEW n \in 1..Len(chain), Reorg(n)
      PROVE  FALSE
  <2>1. n < Len(chain) /\ chain' = SubSeq(chain, 1, n) /\ chain \in Seq(Block) /\ Len(chain) \in Nat
    BY <1>7, ReorgFrame, ChainFacts DEF ChainType
  <2>2. Len(chain') = n /\ \A j \in 1..n : chain'[j] = chain[j]
    BY <2>1
  <2> QED BY <1>1, <1>3, <2>2
<1>8. ASSUME NEW reg, NEW ev, Extends(reg, ev)
      PROVE  FALSE
  BY <1>1, <1>3, <1>8, ExtendsFields
<1> QED BY <1>6, <1>7, <1>8, ChainSteps DEF ChainStep

\* What has been handled stays handled until it is reorganised away.
LEMMA HandledKept ==
  ASSUME ChainType, SpentType, PubType, KnownInv, [Next]_vars, NEW v, HandledRevocation(v)
  PROVE  HandledRevocation(v)' \/ \E n \in 1..Len(chain) : Reorg(n)
<1>1. PICK i \in 1..Len(chain) :
        /\ chain[i].handled
        /\ \/ chain[i].event.type = "ResolverRevoked"
           \/ chain[i].event = [type |-> "RootRevoked", arg |-> v]
  BY DEF HandledRevocation
<1>2. ASSUME i \in 1..Len(chain'), chain'[i].handled, chain'[i].event = chain[i].event
      PROVE  HandledRevocation(v)'
  BY <1>1, <1>2 DEF HandledRevocation
<1>3. CASE UNCHANGED chain
  BY <1>1, <1>2, <1>3
<1>4. ASSUME NEW reg, NEW ev, Extends(reg, ev)
      PROVE  HandledRevocation(v)'
  <2>1. Len(chain') = Len(chain) + 1 /\ chain'[i] = chain[i]
    BY <1>4, ExtendsFields
  <2>2. i \in 1..Len(chain')
    BY <2>1, ChainFacts
  <2> QED BY <1>1, <1>2, <2>1, <2>2
<1>5. CASE chain' = HandledBlock
  <2>1. Len(chain') = Len(chain) /\ Kept(i) /\ chain'[i].handled
    BY <1>1, <1>5, HandledFields DEF KnownInv
  <2> QED BY <1>1, <1>2, <2>1 DEF Kept
<1> QED BY <1>3, <1>4, <1>5, ChainSteps DEF ChainStep

\* A trusted row is a stored row.
LEMMA PlainStored ==
  ASSUME NEW k \in Plain
  PROVE  k \in Key /\ rows[k] # Nothing
  BY DEF Plain, Trusted, Nothing

\* Every step keeps the rows settled.
LEMMA SettledKept ==
  ASSUME ChainType, SpentType, PubType, RowsType, ThreadType, WatchType, KnownInv, ThreadInv,
         PendingInv, SettledInv, [Next]_vars
  PROVE  SettledInv'
<1> SUFFICES ASSUME NEW k \in Plain', HandledRevocation(k[2])'
             PROVE  FALSE
  BY DEF SettledInv, HandledRevocation
<1>1. ASSUME NEW t \in Thread, Stores(t), <<th[t].e, th[t].ver>> \in Key,
             Plain' \subseteq Plain \cup {<<th[t].e, th[t].ver>>}
      PROVE  FALSE
  <2>1. UNCHANGED chain /\ th[t].pc = "store" /\ th[t].current
    <3>1. Verifies
      BY <1>1 DEF Stores, Verifies, Verify
    <3> QED BY <1>1, <3>1, VerifiesFrame DEF Stores, StoreVerified
  <2>2. HandledRevocation(k[2])
    BY <2>1 DEF HandledRevocation
  <2>3. k = <<th[t].e, th[t].ver>>
    BY <1>1, <2>2 DEF SettledInv
  <2>4. k[2] = th[t].ver
    BY <2>3
  <2> QED BY <2>1, <2>2, <2>4, HandledAnnounced DEF ThreadInv
<1>2. CASE Plain' \subseteq Plain
  <2>1. k \in Plain /\ ~HandledRevocation(k[2]) /\ k \in Key /\ rows[k] # Nothing
    BY <1>2, PlainStored DEF SettledInv
  <2>2. Current(k[2]) /\ chain' # chain /\ Watches
    BY <2>1, HandledSteps
  <2>3. CASE ApplyEvent
    <3> DEFINE stored == {j \in Key : rows[j] # Nothing}
    <3>1. CASE watch.event.type = "ResolverRevoked"
      <4>1. Invalidate({<<j, "REVOKED">> : j \in stored}, "events")
        BY <2>3, <3>1 DEF ApplyEvent
      <4>2. {<<j, "REVOKED">> : j \in stored} = {}
        BY <2>2, <4>1 DEF Invalidate
      <4>3. <<k, "REVOKED">> \in {<<j, "REVOKED">> : j \in stored}
        BY <2>1
      <4> QED BY <4>2, <4>3
    <3>2. CASE watch.event.type # "ResolverRevoked"
      <4>1. watch.event = [type |-> "RootRevoked", arg |-> k[2]]
        BY <2>2, <3>2 DEF Current
      <4>2. watch.event.type = "RootRevoked" /\ watch.event.arg = k[2]
        BY <4>1
      <4>3. rows' = Marked({j \in Key : j[2] = watch.event.arg}, "REVOKED")
        BY <2>3, <4>2 DEF ApplyEvent
      <4>4. k \in {j \in Key : j[2] = watch.event.arg} /\ "REVOKED" \in Status
        BY <2>1, <4>2 DEF Status
      <4> QED BY <4>3, <4>4, RowsMarked
    <3> QED BY <3>1, <3>2
  <2>4. CASE InvalidateMark
    <3>1. PICK item \in watch.todo : /\ rows' = Marked({item[1]}, item[2])
                                     /\ Invalidate(watch.todo \ {item}, watch.back)
      BY <2>4 DEF InvalidateMark
    <3>2. watch.todo \ {item} = {} /\ watch.back = "events" /\ watch.pc = "mark"
      BY <2>2, <2>4, <3>1 DEF Invalidate, InvalidateMark
    <3>3. watch.event.type # "RootRevoked"
      BY <3>2 DEF PendingInv
    <3>4. Revoking
      BY <2>2, <3>2, <3>3 DEF Current, Revoking
    <3>5. <<k, "REVOKED">> \in watch.todo
      BY <2>1, <3>4 DEF PendingInv
    <3>6. item = <<k, "REVOKED">>
      BY <3>2, <3>5
    <3>7. rows' = Marked({k}, "REVOKED") /\ "REVOKED" \in Status
      BY <3>1, <3>6 DEF Status
    <3> QED BY <3>7, RowsMarked
  <2>5. ASSUME Watches, ~ApplyEvent, ~InvalidateMark
        PROVE  chain' = chain
    <3>1. CASE Quarantine
      BY <3>1 DEF Quarantine, Invalidate
    <3>2. CASE PollStart \/ RollbackForReorg \/ FetchLogs \/ HandleEvent
               \/ InvalidateBump \/ PollEnd \/ ReconcileList \/ ReconcileRow \/ Persist
               \/ WatcherRestarts
      BY <3>2 DEF PollStart, RollbackForReorg, FetchLogs, HandleEvent,
           InvalidateBump, PollEnd, ReconcileList, ReconcileRow, Persist, WatcherRestarts
    <3> QED BY <2>5, <3>1, <3>2 DEF Watches, Watcher
  <2> QED BY <2>2, <2>3, <2>4, <2>5
<1> QED BY <1>1, <1>2, RowsKept

\* Every step keeps the rows that are yet to be marked on the list.
LEMMA PendingKept ==
  ASSUME ChainType, SpentType, PubType, RowsType, ThreadType, WatchType, KnownInv, ThreadInv,
         PendingInv, [Next]_vars
  PROVE  PendingInv'
<1>1. ASSUME watch'.pc \in {"invalidate", "mark"}, watch'.back = "events"
      PROVE  watch'.event.type # "RootRevoked"
  BY <1>1, WatchKept DEF Tasks, PendingInv
<1>2. ASSUME Revoking'
      PROVE  /\ \A k \in Plain' : <<k, "REVOKED">> \in watch'.todo
             /\ \A item \in watch'.todo : item[2] = "REVOKED"
  <2>0. /\ watch'.pc \in {"invalidate", "mark"} /\ watch'.back = "events"
        /\ watch'.event.type = "ResolverRevoked"
        /\ watch'.block[1] \in 1..Len(chain') /\ chain'[watch'.block[1]].fork = watch'.block[2]
    BY <1>2 DEF Revoking, OnChain
  <2>1. CASE /\ UNCHANGED rows
             /\ watch'.todo = {<<k, "REVOKED">> : k \in {k \in Key : rows[k] # Nothing}}
    <3>1. Plain' = Plain
      BY <2>1 DEF Plain
    <3>2. \A k \in Plain : k \in {j \in Key : rows[j] # Nothing}
      BY PlainStored
    <3> QED BY <2>1, <3>1, <3>2
  <2>2. CASE /\ watch.pc \in {"invalidate", "mark"} /\ watch.back = "events"
             /\ watch'.event = watch.event /\ watch'.block = watch.block
             /\ \/ watch'.todo = watch.todo
                \/ \E item \in watch.todo : /\ rows' = Marked({item[1]}, item[2])
                                            /\ watch'.todo = watch.todo \ {item}
    <3> DEFINE n == watch.block[1]
    <3>1. OnChain(watch.block)
      <4>1. CASE Kept(n)
        BY <2>0, <2>2, <4>1 DEF Kept, OnChain
      <4>2. CASE n = Len(chain) + 1 /\ chain'[n].fork = spent.reorgs
        <5>1. n <= Len(chain)
          BY <2>0, <2>2, <4>2 DEF KnownInv, Known
        <5> QED BY <4>2, <5>1, ChainFacts
      <4> QED BY <2>0, <2>2, <4>1, <4>2, BlocksKept
    <3>2. Revoking
      BY <2>0, <2>2, <3>1 DEF Revoking
    <3>3. /\ \A k \in Plain : <<k, "REVOKED">> \in watch.todo
          /\ \A item \in watch.todo : item[2] = "REVOKED"
      BY <3>2 DEF PendingInv
    <3>4. ResolverAnnounced
      <4>1. n \in 1..Len(chain) /\ watch.block = <<n, chain[n].fork>> /\ chain[n].event = watch.event
        BY <3>1 DEF KnownInv, Known, OnChain
      <4> QED BY <3>2, <4>1 DEF ResolverAnnounced, Announced, Revoking
    <3>5. Plain' \subseteq Plain
      <4>1. ASSUME NEW t \in Thread, Stores(t)
            PROVE  FALSE
        BY <3>4, <4>1 DEF Stores, StoreVerified, ThreadInv
      <4> QED BY <4>1, RowsKept
    <3>6. CASE watch'.todo = watch.todo
      BY <3>3, <3>5, <3>6
    <3>7. ASSUME NEW item \in watch.todo, rows' = Marked({item[1]}, item[2]),
                 watch'.todo = watch.todo \ {item}
          PROVE  /\ \A k \in Plain' : <<k, "REVOKED">> \in watch'.todo
                 /\ \A i \in watch'.todo : i[2] = "REVOKED"
      <4>1. item[2] = "REVOKED" /\ "REVOKED" \in Status
        BY <3>3 DEF Status
      <4>2. item[1] \notin Plain'
        BY <3>7, <4>1, RowsMarked
      <4>3. ASSUME NEW k \in Plain'
            PROVE  <<k, "REVOKED">> \in watch'.todo
        <5>1. k # item[1] /\ <<k, "REVOKED">> \in watch.todo
          BY <3>3, <3>5, <4>2
        <5>2. <<k, "REVOKED">> # item
          BY <5>1
        <5> QED BY <3>7, <5>1, <5>2
      <4> QED BY <3>3, <3>7, <4>3
    <3> QED BY <2>2, <3>6, <3>7
  <2>3. Tasks
    BY WatchKept
  <2> QED BY <2>0, <2>1, <2>2, <2>3 DEF Tasks
<1> QED BY <1>1, <1>2 DEF PendingInv

\* Every step keeps late queries away from trusted rows.
LEMMA LateKept ==
  ASSUME ChainType, SpentType, PubType, RowsType, ThreadType, WatchType, KnownInv, ThreadInv,
         SettledInv, LateInv, [Next]_vars
  PROVE  LateInv'
<1> DEFINE q == th["query"]
           r == th'["query"]
           All == \A v \in Version : HandledRevocation(v)
<1> SUFFICES ASSUME r.late
             PROVE  /\ \A v \in Version : HandledRevocation(v)'
                    /\ r.pc = "check" /\ Trusted(r.read) => r.read.revived
                    /\ r.pc \in {"touch", "release", "allowed"} => r.read.revived
  BY DEF LateInv, HandledRevocation, Trusted
<1>0. "query" \in Thread
  BY DEF Thread
<1>1. ~\E n \in 1..Len(chain) : Reorg(n)
  BY ReorgFrame, ReorgSteps
<1>2. All => \A v \in Version : HandledRevocation(v)'
  BY <1>1, HandledKept
<1>3. q.late => /\ All
                /\ q.pc = "check" /\ Trusted(q.read) => q.read.revived
                /\ q.pc \in {"touch", "release", "allowed"} => q.read.revived
  BY DEF LateInv
<1>4. Same("query") \/ ThreadStep("query")
  BY <1>0, ThreadsMoved DEF AllSteps
<1>5. CASE Same("query")
  BY <1>2, <1>3, <1>5 DEF Same
<1>6. CASE Elsewhere("query")
  BY <1>2, <1>3, <1>6 DEF Elsewhere, Watched
<1>7. CASE /\ r.pc = "check" /\ r.late = q.late
           /\ r.read = Nothing \/ \E k \in Key : r.read = rows[k]
  <2>1. ASSUME NEW k \in Key, r.read = rows[k], Trusted(r.read)
        PROVE  r.read.revived
    <3>1. k[2] \in Version
      BY DEF Key
    <3>2. HandledRevocation(k[2])
      BY <1>3, <1>7, <3>1
    <3> QED BY <2>1, <3>2 DEF SettledInv, Plain
  <2> QED BY <1>2, <1>3, <1>7, <2>1, NothingRead
<1>8. CASE /\ q.pc = "check" /\ Trusted(q.read) /\ r.pc \in {"touch", "release"}
           /\ r.late = q.late /\ r.read.revived = q.read.revived
  BY <1>2, <1>3, <1>8
<1>9. CASE Moves("query", "touch", "release") /\ r.read.revived = q.read.revived
  BY <1>2, <1>3, <1>9 DEF Moves
<1>10. CASE Stores("query") /\ r.late = q.late
  <2>1. q.pc = "store" /\ q.current /\ q.ver \in Version
    BY <1>0, <1>10 DEF Stores, StoreVerified, ThreadType, IsThread, Anchored
  <2>2. HandledRevocation(q.ver)
    BY <1>3, <1>10, <2>1
  <2> QED BY <1>0, <2>1, <2>2, HandledAnnounced DEF ThreadInv
<1>11. CASE Moves("query", "final_anchor", "final_root") \/ Moves("query", "final_root", "store")
  BY <1>2, <1>3, <1>11 DEF Moves
<1>12. CASE Moves("query", "release", "allowed") /\ r.read = q.read
  BY <1>2, <1>3, <1>12 DEF Moves
<1> QED BY <1>4, <1>5, <1>6, <1>7, <1>8, <1>9, <1>10, <1>11, <1>12 DEF ThreadStep

-----------------------------------------------------------------------------
\* The invariant holds at the start.
LEMMA CacheInit ==
  ASSUME Init
  PROVE  CacheInv
<1> DEFINE reg == [root |-> [v \in Version |-> IF v = 1 THEN "ACTIVE" ELSE "none"],
                   ver |-> 1, status |-> "ACTIVE", bound |-> EndpointsOf[1]]
           genesis == [fork |-> 0, event |-> NoEvent, handled |-> FALSE, reg |-> reg]
<1>0. 1 \in Version /\ EndpointsOf[1] \subseteq Endpoint
  BY VersionFacts, Parameters DEF Version
<1>1. reg \in RegistryState
  BY <1>0 DEF RegistryState
<1>2. NoEvent \in Event /\ NoEvent.type = "none"
  BY DEF NoEvent, Event, Arg
<1>3. chain = <<genesis>>
  BY DEF Init
<1>4. genesis.fork = 0 /\ genesis.handled = FALSE /\ genesis.event = NoEvent
  OBVIOUS
<1> HIDE DEF reg
<1>5. genesis \in Block
  BY <1>1, <1>2 DEF Block
<1> HIDE DEF genesis
<1>6. chain \in Seq(Block) /\ Len(chain) = 1 /\ chain[1] = genesis /\ chain # <<>>
  BY <1>3, <1>5
<1>7. ChainType
  BY <1>6 DEF ChainType
<1>8. SpentType /\ spent.reorgs = 0
  BY DEF Init, SpentType
<1>9. PubType
  BY <1>0 DEF Init, PubType, PubIdle
<1>10. RowsType
  <2>1. PICK known \in SUBSET (EndpointsOf[1] \X {1}), at \in 0..time :
          rows = [k \in Key |-> IF k \in known
                               THEN [status |-> "VERIFIED", at |-> at, soft |-> at + Soft,
                                     hard |-> Lesser(at + Hard, ValidUntil), revived |-> FALSE]
                               ELSE Nothing]
    BY DEF Init
  <2>2. \A k \in Key : IsRow(rows[k])
    BY <2>1 DEF IsRow, Status, Nothing
  <2> QED BY <2>1, <2>2 DEF RowsType
<1>11. ThreadType /\ \A t \in Thread : th[t].pc = "idle" /\ th[t].late = FALSE
  <2>1. IsThread(IdleThread) /\ IsRead(IdleThread.read) /\ IdleThread.pc = "idle" /\ IdleThread.late = FALSE
    BY DEF IdleThread, IsThread, IsRead, Verifying, Anchored, Status, Nothing, Position
  <2>2. th = [t \in Thread |-> IdleThread]
    BY DEF Init
  <2> QED BY <2>1, <2>2 DEF ThreadType
<1>12. /\ WatchType /\ watch.block = <<0, 0>> /\ watch.events = {} /\ watch.event = NoEvent
       /\ watch.pc = "idle"
  <2>1. watch = WatcherAt(disk) /\ disk = [last |-> 0, hash |-> <<>>]
    BY DEF Init, RuntimeState
  <2>2. disk.last = 0 /\ disk.hash = <<>>
    BY <2>1
  <2>3. watch = [pc |-> "idle", last |-> 0, hash |-> <<>>, to |-> 0,
                 events |-> {}, event |-> NoEvent, block |-> <<0, 0>>,
                 todo |-> {}, check |-> {}, back |-> "idle"]
    BY <2>1, <2>2 DEF WatcherAt
  <2> QED BY <2>1, <2>2, <2>3 DEF WatchType, WatchField
<1>13. ForkInv
  BY <1>4, <1>6, <1>8 DEF ForkInv
<1>14. KnownInv
  BY <1>6, <1>8, <1>12 DEF KnownInv, Known
<1>15. \A i \in 1..Len(chain) : chain[i].event = NoEvent /\ chain[i].handled = FALSE
  BY <1>4, <1>6
<1>16. NoEvent.type # "ResolverRevoked" /\ \A v \in Version : NoEvent # [type |-> "RootRevoked", arg |-> v]
  BY DEF NoEvent
<1>17. RevokedInv
  BY <1>15, <1>16 DEF RevokedInv
<1>18. ThreadInv /\ LateInv
  BY <1>11 DEF ThreadInv, LateInv, Thread
<1>19. PendingInv
  BY <1>12 DEF PendingInv, Revoking
<1>20. SettledInv
  BY <1>15 DEF SettledInv, HandledRevocation
<1> QED BY <1>7, <1>8, <1>9, <1>10, <1>11, <1>12, <1>13, <1>14, <1>17, <1>18, <1>19, <1>20 DEF CacheInv

\* Every step keeps the invariant.
LEMMA CacheStep ==
  ASSUME CacheInv, [Next]_vars
  PROVE  CacheInv'
<1>1. /\ ChainType /\ SpentType /\ PubType /\ RowsType /\ ThreadType /\ WatchType
      /\ ForkInv /\ KnownInv /\ RevokedInv /\ ThreadInv /\ PendingInv /\ SettledInv /\ LateInv
  BY DEF CacheInv
<1>2. ChainType' /\ SpentType' /\ PubType'
  BY <1>1, BlocksKept, ChainSteps, PublicationKept
<1>3. RowsType' /\ ThreadType' /\ WatchType'
  BY <1>1, RowsKept, ThreadsMoved, WatchKept
<1>4. ForkInv' /\ KnownInv' /\ RevokedInv'
  BY <1>1, ForkKept, KnownInvKept, RevokedKept
<1>5. ThreadInv' /\ PendingInv'
  BY <1>1, ThreadInvKept, PendingKept
<1>6. SettledInv' /\ LateInv'
  BY <1>1, SettledKept, LateKept
<1> QED BY <1>2, <1>3, <1>4, <1>5, <1>6 DEF CacheInv

\* CacheInv holds in every state the service can reach.
THEOREM CacheInvariant == Spec => []CacheInv
<1>1. Init => CacheInv
  BY CacheInit
<1>2. CacheInv /\ [Next]_vars => CacheInv'
  BY CacheStep
<1> QED BY <1>1, <1>2, PTL DEF Spec

\* Once the watcher has handled a revocation that is on the chain, no row of what
\* was revoked is trusted, whichever verifications, publications, stopped
\* processes and reorganisations came between; the rows that get_valid writes
\* back (cache_manager.py:55) are the one exception.
THEOREM RevocationAlwaysSettles == Spec => []RevocationSettles
<1>1. CacheInv => RevocationSettles
  BY DEF CacheInv, SettledInv, Plain, RevocationSettles
<1> QED BY <1>1, CacheInvariant, PTL

\* A query that began after the watcher had handled the revocation of the resolver
\* is never answered from a row that the revocation reached
\* (query_coordinator.py:105-107).
THEOREM RevokedNeverAllowed == Spec => []RevokedNeverReleased
<1>1. CacheInv => RevokedNeverReleased
  BY DEF CacheInv, LateInv, RevokedNeverReleased
<1> QED BY <1>1, CacheInvariant, PTL
==============================================================================
