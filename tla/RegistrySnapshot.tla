--------------------------- MODULE RegistrySnapshot ---------------------------
(***************************************************************************)
(* Registry Sync, the local Registry snapshot and the evidence graphs that *)
(* rest on it.                                                             *)
(*                                                                         *)
(* Registry Sync reads a finalized snapshot of the chain's Registry,       *)
(* checks it against the signed identities file, and applies it in one     *)
(* transaction.  The Agent, another process on the same database, reads    *)
(* identities one by one while it builds a graph, and stores the graph     *)
(* under the cache generation.  The Wrapper compares the nodes of a graph, *)
(* again one by one, with the local snapshot before it releases an answer. *)
(* A cache hit rests on a stored source graph of the current generation.   *)
(***************************************************************************)
EXTENDS Naturals, FiniteSets, Functions

CONSTANTS
  Servers,     \* server IDs; numbers, so that they are ordered
  Self,        \* the server this Agent speaks for
  Choices,     \* the identity objects [ver, eps] each server may publish
  Builds,      \* graph requests the Agent serves at a time
  MaxHeight,   \* bound: finalized height
  MaxChanges,  \* bound: generation of the Registry
  MaxReorgs,   \* bound: reorganisations below the finalized height
  MaxEdits,    \* bound: new versions of the identities file
  MayRollback  \* the snapshot source may go back to an earlier generation

Objects == UNION {Choices[s] : s \in Servers}
Endpoints == UNION {r.eps : r \in Objects}
None == [height |-> 0, fork |-> 0]
Forks == 0..MaxReorgs

ASSUME ServersAssumption == Servers \subseteq Nat /\ IsFiniteSet(Servers) /\ Self \in Servers
ASSUME ChoicesAssumption ==
  /\ DOMAIN Choices = Servers
  /\ \A s \in Servers : \A r \in Choices[s] : r.ver \in Nat \ {0}
ASSUME LimitsAssumption ==
  /\ MaxHeight \in Nat \ {0} /\ MaxChanges \in Nat \ {0} /\ MaxReorgs \in Nat
  /\ MaxEdits \in Nat
  /\ MayRollback \in BOOLEAN

VARIABLES
  height, fork,  \* the finalized checkpoint the source serves
  gen,           \* its Registry generation
  hist,          \* generation -> Registry content: server -> [obj, active]
  file,          \* the identities file: server -> object
  edits,
  sync,          \* where Registry Sync is
  snap,          \* what it read: [height, fork, gen, root], and
  want,          \* the identities file it read
  ids,           \* ri_v2_identities: server -> [obj, root, gen, status]
  lookup,        \* ri_v2_endpoint_lookup: endpoint -> server
  cp,            \* the stored checkpoint [height, fork], or None
  fresh,         \* registry_last_success_epoch is recent enough
  cacheGen,      \* cache_generation
  graphs,        \* ri_v2_evidence_graphs: [gen, nodes, source]
  bpc,           \* where a graph request is
  nodes,         \* the nodes read for it: server -> row of ids
  source,        \* the nodes of its source graph, for a cache hit
  bgen,          \* the generation read for it
  todo           \* nodes the Wrapper has still to compare

sourceVars == <<height, fork, gen, hist>>
syncVars == <<sync, snap, want>>
storeVars == <<ids, lookup, cp, cacheGen>>
buildVars == <<bpc, nodes, source, bgen, todo>>
vars == <<sourceVars, file, edits, syncVars, storeVars, fresh, graphs, buildVars>>

Empty == [x \in {} |-> x]
Put(f, x, v) == [y \in DOMAIN f \cup {x} |-> IF y = x THEN v ELSE f[y]]
Registry == hist[gen]
Active(reg) == {s \in DOMAIN reg : reg[s].active}
Listed == {s \in DOMAIN ids : ids[s].status = "ACTIVE"}

RowOK(r) ==
  /\ r.obj \in Objects /\ r.gen \in Nat /\ DOMAIN r.root \subseteq Servers
  /\ r.status \in {"ACTIVE", "REMOVED"}
NodesOK(f) == DOMAIN f \subseteq Servers /\ \A s \in DOMAIN f : RowOK(f[s])

TypeOK ==
  /\ height \in 1..MaxHeight /\ fork \in Forks
  /\ gen \in 0..MaxChanges /\ DOMAIN hist = 0..MaxChanges
  /\ DOMAIN file \subseteq Servers /\ Range(file) \subseteq Objects
  /\ edits \in 0..MaxEdits
  /\ sync \in {"idle", "check", "confirm", "apply"}
  /\ NodesOK(ids)
  /\ DOMAIN lookup \subseteq Endpoints /\ Range(lookup) \subseteq DOMAIN ids
  /\ cp = None \/ cp \in [height : 1..MaxHeight, fork : Forks]
  /\ fresh \in BOOLEAN /\ cacheGen \in Nat
  /\ \A g \in graphs : g.gen \in 0..cacheGen /\ NodesOK(g.nodes) /\ NodesOK(g.source)
  /\ bpc \in [Builds -> {"idle", "target", "generation", "insert", "verify", "compare",
                         "released", "rejected"}]
  /\ \A b \in Builds : NodesOK(nodes[b]) /\ NodesOK(source[b]) /\ todo[b] \subseteq DOMAIN nodes[b]

\* Every server has published its first object, and the operator listed it.
Genesis == [s \in Servers |-> [obj |-> CHOOSE r \in Choices[s] : r.ver = 1, active |-> TRUE]]

\* The contract bound every endpoint of those first objects to one server.
ASSUME GenesisAssumption ==
  /\ \A s \in Servers : Genesis[s].obj \in Choices[s]
  /\ \A s, t \in Servers : s # t => Genesis[s].obj.eps \cap Genesis[t].obj.eps = {}

Init ==
  /\ height = 1 /\ fork = 0 /\ gen = 0
  /\ hist = [g \in 0..MaxChanges |-> IF g = 0 THEN Genesis ELSE Empty]
  /\ file = [s \in Servers |-> Genesis[s].obj] /\ edits = 0
  /\ sync = "idle" /\ want = Empty
  /\ snap = [height |-> 0, fork |-> 0, gen |-> 0, root |-> Empty]
  /\ ids = Empty /\ lookup = Empty /\ cp = None /\ fresh = FALSE /\ cacheGen = 0
  /\ graphs = {}
  /\ bpc = [b \in Builds |-> "idle"]
  /\ nodes = [b \in Builds |-> Empty]
  /\ source = [b \in Builds |-> Empty]
  /\ bgen = [b \in Builds |-> 0]
  /\ todo = [b \in Builds |-> {}]

-----------------------------------------------------------------------------
(* The chain, its operators and the identities file.                       *)

\* A change of the Registry is a new generation.
Change(reg) ==
  /\ gen < MaxChanges
  /\ gen' = gen + 1
  /\ hist' = [hist EXCEPT ![gen + 1] = reg]
  /\ UNCHANGED <<height, fork, file, edits, syncVars, storeVars, fresh, graphs, buildVars>>

\* A new version of an identity, its endpoints bound to nobody else.
Publish(s, obj) ==
  /\ s \in DOMAIN Registry => Registry[s].active /\ Registry[s].obj.ver < obj.ver
  /\ \A t \in Active(Registry) \ {s} : Registry[t].obj.eps \cap obj.eps = {}
  /\ Change(Put(Registry, s, [obj |-> obj, active |-> TRUE]))

\* Revocation is permanent.
Revoke(s) ==
  /\ s \in Active(Registry)
  /\ Change([Registry EXCEPT ![s].active = FALSE])

Finalize ==
  /\ height < MaxHeight
  /\ height' = height + 1
  /\ UNCHANGED <<fork, gen, hist, file, edits, syncVars, storeVars, fresh, graphs, buildVars>>

\* What must not happen to finalized blocks, and the code checks for.
Reorganise ==
  /\ fork < MaxReorgs
  /\ fork' = fork + 1
  /\ UNCHANGED <<height, gen, hist, file, edits, syncVars, storeVars, fresh, graphs, buildVars>>

\* The source of signed snapshots returns to an earlier state.
RollBack ==
  /\ MayRollback
  /\ \E g \in 0..gen : g < gen /\ gen' = g
  /\ UNCHANGED <<height, fork, hist, file, edits, syncVars, storeVars, fresh, graphs, buildVars>>

\* The operator installs the signed identities of some active servers.
EditFile ==
  /\ edits < MaxEdits
  /\ edits' = edits + 1
  /\ \E S \in SUBSET Active(Registry) :
       Self \in S /\ file' = [s \in S |-> Registry[s].obj]
  /\ UNCHANGED <<sourceVars, syncVars, storeVars, fresh, graphs, buildVars>>

-----------------------------------------------------------------------------
(* Registry Sync: reconcile, validate_registry_record.                     *)

\* read_snapshot returns a finalized checkpoint, perhaps not the latest one.
Read ==
  /\ sync = "idle"
  /\ DOMAIN file # {}
  /\ \E h \in 1..height :
       snap' = [height |-> h, fork |-> fork, gen |-> gen, root |-> Registry]
  /\ want' = file
  /\ sync' = "check"
  /\ UNCHANGED <<sourceVars, file, edits, storeVars, fresh, graphs, buildVars>>

\* Mutant of Canonical: the stored checkpoint's hash is not asked for.
CanonicalHeightOnly == cp # None => snap.height >= cp.height

\* The stored checkpoint is not above the new one and is still canonical.
Canonical == cp # None => snap.height >= cp.height /\ fork = cp.fork

\* Mutant of RecordsMatch: the resolver's status is not checked.
RecordsMatchAnyStatus ==
  \A s \in DOMAIN want : s \in DOMAIN snap.root /\ snap.root[s].obj = want[s]

\* Every identity of the file has its active record.
RecordsMatch ==
  \A s \in DOMAIN want : s \in Active(snap.root) /\ snap.root[s].obj = want[s]

Check ==
  /\ sync = "check"
  /\ sync' = IF Canonical /\ RecordsMatch THEN "confirm" ELSE "idle"
  /\ UNCHANGED <<sourceVars, file, edits, snap, want, storeVars, fresh, graphs, buildVars>>

\* The hash of the new checkpoint, asked for once more.
Confirm ==
  /\ sync = "confirm"
  /\ sync' = IF fork = snap.fork THEN "apply" ELSE "idle"
  /\ UNCHANGED <<sourceVars, file, edits, snap, want, storeVars, fresh, graphs, buildVars>>

-----------------------------------------------------------------------------
(* EvidenceStore::apply_registry_snapshot                                  *)

\* The row with the smallest server_id stands for the stored snapshot.
FirstRow(s) == s \in DOMAIN ids /\ \A t \in DOMAIN ids : s <= t

\* Mutant of NoRollback: an unchanged generation counts as a rollback.
NoRollbackStrict ==
  /\ \A s \in DOMAIN ids : FirstRow(s) => snap.gen > ids[s].gen
  /\ cp # None => snap.height >= cp.height

NoRollback ==
  /\ \A s \in DOMAIN ids : FirstRow(s) =>
       /\ snap.gen >= ids[s].gen
       /\ snap.gen = ids[s].gen => snap.root = ids[s].root
  /\ cp # None => /\ snap.height >= cp.height
                  /\ snap.height = cp.height => snap.fork = cp.fork

\* Endpoints are reinserted server by server, in the order of the file: one
\* that still belongs to a later server violates the primary key.
EndpointConflict ==
  \E s, t \in DOMAIN want : s < t /\ \E e \in want[s].eps : e \in DOMAIN lookup /\ lookup[e] = t

\* Mutant of NewRow: an identity whose object did not change keeps its row.
NewRowIfChanged(s) ==
  IF s \in DOMAIN ids /\ ids[s].obj = want[s] THEN [ids[s] EXCEPT !.status = "ACTIVE"]
  ELSE [obj |-> want[s], root |-> snap.root, gen |-> snap.gen, status |-> "ACTIVE"]

NewRow(s) == [obj |-> want[s], root |-> snap.root, gen |-> snap.gen, status |-> "ACTIVE"]

\* Mutant of SameState: the state root is not compared.
SameStateIgnoringRoot(r, q) == r.obj = q.obj /\ r.status = q.status

SameState(r, q) == r.obj = q.obj /\ r.root = q.root /\ r.status = q.status

SemanticChange ==
  \/ \E s \in Listed : s \notin DOMAIN want
  \/ \E s \in DOMAIN want : s \in DOMAIN ids => ~SameState(ids[s], NewRow(s))

Wanted == UNION {want[s].eps : s \in DOMAIN want}
OwnerOf(e) == CHOOSE s \in DOMAIN want : e \in want[s].eps

\* Mutant of NewLookup: the endpoints of removed servers stay.
LookupWithoutDelete ==
  [e \in DOMAIN lookup \cup Wanted |-> IF e \in Wanted THEN OwnerOf(e) ELSE lookup[e]]

\* The entries of every stored server are deleted, those of the file inserted.
NewLookup == [e \in Wanted |-> OwnerOf(e)]

Apply ==
  /\ sync = "apply"
  /\ NoRollback /\ ~EndpointConflict
  /\ ids' = [s \in DOMAIN ids \cup DOMAIN want |->
               IF s \in DOMAIN want THEN NewRow(s) ELSE [ids[s] EXCEPT !.status = "REMOVED"]]
  /\ lookup' = NewLookup
  /\ cp' = [height |-> snap.height, fork |-> snap.fork]
  /\ \/ /\ SemanticChange
        /\ cacheGen' = cacheGen + 1 /\ graphs' = {}
     \/ /\ ~SemanticChange
        /\ UNCHANGED <<cacheGen, graphs>>
  /\ fresh' = TRUE
  /\ sync' = "idle"
  /\ UNCHANGED <<sourceVars, file, edits, snap, want, buildVars>>

\* The transaction is rolled back; the next poll starts over.
ApplyFails ==
  /\ sync = "apply"
  /\ ~NoRollback \/ EndpointConflict
  /\ sync' = "idle"
  /\ UNCHANGED <<sourceVars, file, edits, snap, want, storeVars, fresh, graphs, buildVars>>

\* registry_max_staleness_seconds pass without a success.
GoStale ==
  /\ fresh
  /\ fresh' = FALSE
  /\ UNCHANGED <<sourceVars, file, edits, syncVars, storeVars, graphs, buildVars>>

-----------------------------------------------------------------------------
(* The Agent: build_graph_with_context, build_cache_hit_graph, put_graph.  *)

BuildStep(b, p) ==
  /\ bpc' = [bpc EXCEPT ![b] = p]
  /\ UNCHANGED <<sourceVars, file, edits, syncVars, storeVars, fresh>>

\* The heartbeat and the Agent's own identity.
BuildStart(b) ==
  /\ bpc[b] = "idle"
  /\ fresh /\ Self \in DOMAIN ids
  /\ nodes' = [nodes EXCEPT ![b] = [s \in {Self} |-> ids[s]]]
  /\ BuildStep(b, "target")
  /\ UNCHANGED <<source, bgen, todo, graphs>>

\* The identity of the server behind an endpoint of the trace.
LookupTarget(b, e) ==
  /\ bpc[b] = "target"
  /\ e \in DOMAIN lookup
  /\ nodes' = [nodes EXCEPT ![b] = Put(@, lookup[e], ids[lookup[e]])]
  /\ BuildStep(b, "generation")
  /\ UNCHANGED <<source, bgen, todo, graphs>>

\* No outbound query: a source graph of the current generation.
FindSource(b, g) ==
  /\ bpc[b] = "target"
  /\ g \in graphs /\ g.gen = cacheGen
  /\ source' = [source EXCEPT ![b] = g.nodes]
  /\ BuildStep(b, "generation")
  /\ UNCHANGED <<nodes, bgen, todo, graphs>>

\* put_graph reads the generation, after the policy accepted the nodes,
ReadGeneration(b) ==
  /\ bpc[b] = "generation"
  /\ \A s \in DOMAIN nodes[b] : nodes[b][s].status = "ACTIVE"
  /\ bgen' = [bgen EXCEPT ![b] = cacheGen]
  /\ BuildStep(b, "insert")
  /\ UNCHANGED <<nodes, source, todo, graphs>>

\* and inserts the graph on another connection.
InsertGraph(b) ==
  /\ bpc[b] = "insert"
  /\ graphs' = graphs \cup {[gen |-> bgen[b], nodes |-> nodes[b], source |-> source[b]]}
  /\ BuildStep(b, "verify")
  /\ UNCHANGED <<nodes, source, bgen, todo>>

BuildFails(b) ==
  /\ bpc[b] \in {"target", "generation"}
  /\ BuildStep(b, "rejected")
  /\ UNCHANGED <<nodes, source, bgen, todo, graphs>>

-----------------------------------------------------------------------------
(* The Wrapper: validate_local_registry.                                   *)

\* Mutant of VerifyStart: every known server is compared, not the graph's nodes.
VerifyAllServers(b) ==
  /\ bpc[b] = "verify"
  /\ todo' = [todo EXCEPT ![b] = DOMAIN ids]
  /\ BuildStep(b, IF fresh THEN "compare" ELSE "rejected")
  /\ UNCHANGED <<nodes, source, bgen, graphs>>

VerifyStart(b) ==
  /\ bpc[b] = "verify"
  /\ todo' = [todo EXCEPT ![b] = DOMAIN nodes[b]]
  /\ BuildStep(b, IF fresh THEN "compare" ELSE "rejected")
  /\ UNCHANGED <<nodes, source, bgen, graphs>>

CompareNode(b, s) ==
  /\ bpc[b] = "compare"
  /\ s \in todo[b]
  /\ LET left == todo[b] \ {s} IN
       /\ todo' = [todo EXCEPT ![b] = left]
       /\ BuildStep(b, IF ~(s \in DOMAIN ids /\ SameState(ids[s], nodes[b][s])) THEN "rejected"
                       ELSE IF left = {} THEN "released" ELSE "compare")
  /\ UNCHANGED <<nodes, source, bgen, graphs>>

\* The slot serves another request.
NextRequest(b) ==
  /\ bpc[b] \in {"released", "rejected"}
  /\ nodes' = [nodes EXCEPT ![b] = Empty]
  /\ source' = [source EXCEPT ![b] = Empty]
  /\ bgen' = [bgen EXCEPT ![b] = 0]
  /\ todo' = [todo EXCEPT ![b] = {}]
  /\ BuildStep(b, "idle")
  /\ UNCHANGED graphs

Next ==
  \/ \E s \in Servers : (\E obj \in Choices[s] : Publish(s, obj)) \/ Revoke(s)
  \/ Finalize \/ Reorganise \/ RollBack \/ EditFile
  \/ Read \/ Check \/ Confirm \/ Apply \/ ApplyFails \/ GoStale
  \/ \E b \in Builds :
       \/ BuildStart(b) \/ ReadGeneration(b) \/ InsertGraph(b) \/ BuildFails(b) \/ VerifyStart(b)
       \/ NextRequest(b)
       \/ \E e \in Endpoints : LookupTarget(b, e)
       \/ \E g \in graphs : FindSource(b, g)
       \/ \E s \in Servers : CompareNode(b, s)

Spec == Init /\ [][Next]_vars

\* Registry Sync polls for ever, and a poll that reads the latest finalized
\* checkpoint happens again and again.
Fairness ==
  /\ SF_vars(Read /\ snap'.height = height)
  /\ WF_vars(Check) /\ WF_vars(Confirm) /\ WF_vars(Apply) /\ WF_vars(ApplyFails)

FairSpec == Spec /\ Fairness

-----------------------------------------------------------------------------
(* Properties.                                                             *)

\* An endpoint leads to exactly the identity that lists it in the snapshot in
\* force, also after endpoints moved and servers were removed.
LookupSound ==
  /\ \A e \in DOMAIN lookup : lookup[e] \in Listed /\ e \in ids[lookup[e]].obj.eps
  /\ \A s \in Listed : \A e \in ids[s].obj.eps : e \in DOMAIN lookup /\ lookup[e] = s

\* The identities in force come from one snapshot, the checkpoint's.
OneSnapshot ==
  \A s, t \in Listed : ids[s].gen = ids[t].gen /\ ids[s].root = ids[t].root

\* The checkpoint never moves to a lower height or to another chain.
CheckpointKept ==
  [][cp # None => cp' # None /\ cp'.height >= cp.height /\ cp'.fork = cp.fork]_vars

\* A server that is revoked in the content of a snapshot is not in force under
\* that snapshot: a revocation is never confirmed as active.
RevokedNotListed == \A s \in Listed : s \in Active(ids[s].root)

\* The nodes of a released answer come from one snapshot, although the Agent
\* read them and the Wrapper compared them one by one while Registry Sync ran.
ReleasedOneSnapshot ==
  \A b \in Builds : bpc[b] = "released" =>
    \A s, t \in DOMAIN nodes[b] : nodes[b][s].root = nodes[b][t].root

FileMatches == DOMAIN file # {} /\ \A s \in DOMAIN file : s \in Active(Registry) /\ Registry[s].obj = file[s]
Synced == Listed = DOMAIN file /\ \A s \in Listed : ids[s].obj = file[s]

\* docs: a batch that passes every check updates the local snapshot.
ValidFileSynced == FileMatches ~> (Synced \/ ~FileMatches)
=============================================================================
