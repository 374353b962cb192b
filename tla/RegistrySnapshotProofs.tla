------------------------ MODULE RegistrySnapshotProofs ------------------------
(***************************************************************************)
(* Proofs about the local Registry snapshot, for any servers, objects and  *)
(* graph requests, and any bounds.                                         *)
(***************************************************************************)
EXTENDS RegistrySnapshot, TLAPS

-----------------------------------------------------------------------------
(* The inductive invariant, part by part.                                  *)

\* The content of a Registry: at most one active server has an endpoint.
ContentOK(reg) ==
  /\ DOMAIN reg \subseteq Servers
  /\ \A s \in DOMAIN reg : reg[s] \in [obj : Objects, active : BOOLEAN]
EndpointsDisjoint(reg) ==
  \A s, t \in Active(reg) : \A e \in reg[s].obj.eps : e \in reg[t].obj.eps => s = t

\* The source, and what Registry Sync has read of it.
SourceInv ==
  /\ height \in 1..MaxHeight /\ fork \in Forks
  /\ gen \in 0..MaxChanges /\ DOMAIN hist = 0..MaxChanges
  /\ \A g \in 0..MaxChanges : ContentOK(hist[g]) /\ EndpointsDisjoint(hist[g])
  /\ DOMAIN file \subseteq Servers /\ Range(file) \subseteq Objects
  /\ edits \in 0..MaxEdits

\* What a poll has read and checked so far; it is checked against the checkpoint
\* that is still stored when it is applied.
PollInv ==
  /\ sync \in {"idle", "check", "confirm", "apply"}
  /\ sync # "idle" =>
       /\ snap.height \in 1..MaxHeight /\ snap.fork \in Forks /\ snap.gen \in 0..MaxChanges
       /\ snap.fork <= fork
       /\ ContentOK(snap.root) /\ EndpointsDisjoint(snap.root)
       /\ DOMAIN want \subseteq Servers /\ \A s \in DOMAIN want : want[s] \in Objects
  /\ sync \in {"confirm", "apply"} => RecordsMatch
  /\ sync = "confirm" /\ cp # None => snap.fork <= cp.fork /\ cp.fork <= fork
  /\ sync = "apply" /\ cp # None => snap.fork = cp.fork

\* The rows of the store.
IsRow(r) == r = [obj |-> r.obj, root |-> r.root, gen |-> r.gen, status |-> r.status]
StoreInv ==
  /\ NodesOK(ids) /\ \A s \in DOMAIN ids : IsRow(ids[s])
  /\ DOMAIN lookup \subseteq Endpoints /\ Range(lookup) \subseteq DOMAIN ids
  /\ cp = None \/ cp \in [height : 1..MaxHeight, fork : Forks]
  /\ fresh \in BOOLEAN /\ cacheGen \in Nat
  /\ LookupSound /\ OneSnapshot /\ RevokedNotListed

\* The graph requests.
BuildInv ==
  /\ DOMAIN nodes = Builds /\ DOMAIN source = Builds
  /\ bgen \in [Builds -> Nat] /\ DOMAIN todo = Builds
  /\ \A g \in graphs : g.gen \in 0..cacheGen /\ NodesOK(g.nodes) /\ NodesOK(g.source)
  /\ bpc \in [Builds -> {"idle", "target", "generation", "insert", "verify", "compare",
                         "released", "rejected"}]
  /\ \A b \in Builds :
       /\ NodesOK(nodes[b]) /\ NodesOK(source[b]) /\ todo[b] \subseteq DOMAIN nodes[b]
       /\ bgen[b] <= cacheGen
       /\ bpc[b] \notin {"compare", "released", "rejected"} => todo[b] = {}

SnapshotInv == SourceInv /\ PollInv /\ StoreInv /\ BuildInv

\* A source that never goes back: the content of a later generation is later.
NotEarlier(old, new) ==
  /\ DOMAIN old \subseteq DOMAIN new
  /\ \A s \in DOMAIN old : old[s].obj.ver <= new[s].obj.ver
  /\ \A s \in DOMAIN old : s \in Active(new) => s \in Active(old)
Later(old, new) ==
  /\ NotEarlier(old, new)
  /\ \E s \in DOMAIN new : \/ s \notin DOMAIN old
                          \/ old[s].obj.ver < new[s].obj.ver
                          \/ s \in Active(old) \ Active(new)

\* The row carries the content of its generation, and is not newer than the poll.
RowTrue(r) ==
  /\ r.gen \in 0..gen /\ r.root = hist[r.gen]
  /\ sync # "idle" => r.gen <= snap.gen

HistoryInv ==
  /\ \A g, h \in 0..gen : g < h => Later(hist[g], hist[h])
  /\ sync # "idle" => snap.gen \in 0..gen /\ snap.root = hist[snap.gen]
  /\ \A s \in DOMAIN ids : RowTrue(ids[s])
  /\ \A b \in Builds : \A s \in DOMAIN nodes[b] : RowTrue(nodes[b][s])

\* The nodes of a request: the Agent's own one was read first, none is newer than
\* the snapshot in force, and once the own one has been compared all are of it.
RequestInv(b) ==
  bpc[b] # "idle" =>
    /\ bpc[b] # "rejected" => Self \in DOMAIN nodes[b]
    /\ bpc[b] = "target" => DOMAIN nodes[b] = {Self}
    /\ bpc[b] \in {"insert", "verify", "compare", "released"} =>
         \A s \in DOMAIN nodes[b] : nodes[b][s].status = "ACTIVE"
    /\ \A s \in DOMAIN nodes[b] : nodes[b][s].status = "ACTIVE" =>
         /\ \A t \in Listed : nodes[b][s].gen <= ids[t].gen
         /\ Self \in DOMAIN nodes[b] /\ nodes[b][Self].status = "ACTIVE" =>
              nodes[b][Self].gen <= nodes[b][s].gen
    /\ bpc[b] \in {"compare", "released"} /\ Self \notin todo[b] =>
         \A s \in DOMAIN nodes[b] : nodes[b][s].gen = nodes[b][Self].gen
    /\ bpc[b] = "released" => todo[b] = {}

NodesInv == \A b \in Builds : RequestInv(b)

OrderedInv == HistoryInv /\ NodesInv

-----------------------------------------------------------------------------
(* Facts about the data.                                                   *)

\* Versions are numbers.
LEMMA ObjectVersion == \A r \in Objects : r.ver \in Nat \ {0}
BY ChoicesAssumption DEF Objects

\* What a server may publish is an object.
LEMMA ChoiceIsObject == \A s \in Servers : Choices[s] \subseteq Objects
BY DEF Objects

\* The endpoints of an object are endpoints.
LEMMA ObjectEndpoints == \A r \in Objects : r.eps \subseteq Endpoints
BY DEF Endpoints

\* A table with one entry added or replaced.
LEMMA PutFacts ==
  ASSUME NEW f, NEW x, NEW v
  PROVE  /\ DOMAIN Put(f, x, v) = DOMAIN f \cup {x}
         /\ Put(f, x, v)[x] = v
         /\ \A y \in DOMAIN f : y # x => Put(f, x, v)[y] = f[y]
BY DEF Put

\* An empty table is a table of rows.
LEMMA EmptyNodes == NodesOK(Empty)
BY DEF NodesOK, Empty

\* The steps of a graph request read the store and never write it.
LEMMA BuildFrame ==
  ASSUME NEW b, NEW p, BuildStep(b, p)
  PROVE  /\ bpc' = [bpc EXCEPT ![b] = p]
         /\ UNCHANGED <<sourceVars, file, edits, syncVars, storeVars, fresh>>
BY DEF BuildStep

\* The steps of a graph request, in one place.
BuildNext ==
  \E b \in Builds :
    \/ BuildStart(b) \/ ReadGeneration(b) \/ InsertGraph(b) \/ BuildFails(b) \/ VerifyStart(b)
    \/ NextRequest(b)
    \/ \E e \in Endpoints : LookupTarget(b, e)
    \/ \E g \in graphs : FindSource(b, g)
    \/ \E s \in Servers : CompareNode(b, s)

\* They leave the source, the poll and the store alone.
LEMMA BuildNextFrame ==
  BuildNext => UNCHANGED <<sourceVars, file, edits, syncVars, storeVars, fresh>>
BY DEF BuildNext, BuildStart, ReadGeneration, InsertGraph, BuildFails, VerifyStart,
       NextRequest, LookupTarget, FindSource, CompareNode, BuildStep

\* Next, with the graph requests taken together.
LEMMA NextSplit ==
  Next => \/ \E s \in Servers : (\E obj \in Choices[s] : Publish(s, obj)) \/ Revoke(s)
          \/ Finalize \/ Reorganise \/ RollBack \/ EditFile
          \/ Read \/ Check \/ Confirm \/ Apply \/ ApplyFails \/ GoStale
          \/ BuildNext
BY DEF Next, BuildNext

\* A new content of the Registry keeps the types, and one server per endpoint.
LEMMA PublishContent ==
  ASSUME SourceInv, NEW s \in Servers, NEW obj \in Choices[s], Publish(s, obj)
  PROVE  LET reg == Put(Registry, s, [obj |-> obj, active |-> TRUE])
         IN ContentOK(reg) /\ EndpointsDisjoint(reg)
<1> DEFINE reg == Put(Registry, s, [obj |-> obj, active |-> TRUE])
<1>1. ContentOK(Registry) /\ EndpointsDisjoint(Registry)
  BY DEF SourceInv, Registry
<1>2. obj \in Objects
  BY ChoiceIsObject
<1>3. /\ DOMAIN reg = DOMAIN Registry \cup {s}
      /\ reg[s] = [obj |-> obj, active |-> TRUE]
      /\ \A y \in DOMAIN Registry : y # s => reg[y] = Registry[y]
  BY DEF Put
<1>4. ContentOK(reg)
  <2>1. [obj |-> obj, active |-> TRUE] \in [obj : Objects, active : BOOLEAN]
    BY <1>2
  <2> HIDE DEF reg
  <2>2. QED
    BY <1>1, <1>3, <2>1 DEF ContentOK
<1> HIDE DEF reg
<1>5. EndpointsDisjoint(reg)
  <2>1. \A t \in Active(Registry) \ {s} : Registry[t].obj.eps \cap obj.eps = {}
    BY DEF Publish
  <2>2. \A t \in Active(reg) : t = s \/ (t \in Active(Registry) /\ reg[t] = Registry[t])
    BY <1>3 DEF Active
  <2>3. reg[s].obj = obj
    BY <1>3
  <2>4. QED
    BY <1>1, <2>1, <2>2, <2>3 DEF EndpointsDisjoint
<1>6. QED
  BY <1>4, <1>5 DEF reg

\* A revocation takes endpoints away, and gives none.
LEMMA RevokeContent ==
  ASSUME SourceInv, NEW s \in Servers, Revoke(s)
  PROVE  LET reg == [Registry EXCEPT ![s].active = FALSE]
         IN ContentOK(reg) /\ EndpointsDisjoint(reg)
<1> DEFINE reg == [Registry EXCEPT ![s].active = FALSE]
<1>1. ContentOK(Registry) /\ EndpointsDisjoint(Registry)
  BY DEF SourceInv, Registry
<1>2. s \in DOMAIN Registry
  BY DEF Revoke, Active
<1>3. /\ DOMAIN reg = DOMAIN Registry
      /\ reg[s] = [Registry[s] EXCEPT !.active = FALSE]
      /\ \A y \in DOMAIN Registry : y # s => reg[y] = Registry[y]
  BY <1>2
<1>4. Registry[s] \in [obj : Objects, active : BOOLEAN]
  BY <1>1, <1>2 DEF ContentOK
<1>5. reg[s] \in [obj : Objects, active : BOOLEAN] /\ reg[s].active = FALSE
  BY <1>3, <1>4
<1> HIDE DEF reg
<1>6. ContentOK(reg)
  BY <1>1, <1>3, <1>5 DEF ContentOK
<1>7. \A t \in Active(reg) : t \in Active(Registry) /\ reg[t] = Registry[t]
  BY <1>3, <1>5 DEF Active
<1>8. EndpointsDisjoint(reg)
  BY <1>1, <1>7 DEF EndpointsDisjoint
<1>9. QED
  BY <1>6, <1>8 DEF reg

-----------------------------------------------------------------------------
(* The source.                                                             *)

\* Only the chain and the operator change what Registry Sync reads.
LEMMA SourceStep == SourceInv /\ [Next]_vars => SourceInv'
<1> SUFFICES ASSUME SourceInv, [Next]_vars PROVE SourceInv'
  OBVIOUS
<1>u. ASSUME UNCHANGED <<sourceVars, file, edits>> PROVE SourceInv'
  BY <1>u DEF SourceInv, sourceVars
<1>c. ASSUME NEW reg, ContentOK(reg), EndpointsDisjoint(reg), Change(reg) PROVE SourceInv'
  <2>1. gen + 1 \in 0..MaxChanges /\ gen' = gen + 1
    BY <1>c, LimitsAssumption DEF Change, SourceInv
  <2>2. /\ DOMAIN hist' = 0..MaxChanges
        /\ \A g \in 0..MaxChanges : hist'[g] = reg \/ hist'[g] = hist[g]
    BY <1>c, <2>1 DEF Change, SourceInv
  <2>3. QED
    BY <1>c, <2>1, <2>2 DEF Change, SourceInv
<1>a. ASSUME NEW s \in Servers, NEW obj \in Choices[s], Publish(s, obj) PROVE SourceInv'
  BY <1>a, <1>c, PublishContent DEF Publish
<1>b. ASSUME NEW s \in Servers, Revoke(s) PROVE SourceInv'
  BY <1>b, <1>c, RevokeContent DEF Revoke
<1>d. CASE Finalize
  BY <1>d, LimitsAssumption DEF Finalize, SourceInv
<1>e. CASE Reorganise
  BY <1>e, LimitsAssumption DEF Reorganise, SourceInv, Forks
<1>f. CASE RollBack
  <2>1. gen' \in 0..MaxChanges
    BY <1>f, LimitsAssumption DEF RollBack, SourceInv
  <2>2. QED
    BY <1>f, <2>1 DEF RollBack, SourceInv
<1>g. CASE EditFile
  <2>1. PICK S \in SUBSET Active(Registry) : file' = [s \in S |-> Registry[s].obj]
    BY <1>g DEF EditFile
  <2>2. ContentOK(Registry)
    BY DEF SourceInv, Registry
  <2>3. DOMAIN file' \subseteq Servers /\ Range(file') \subseteq Objects
    BY <2>1, <2>2 DEF ContentOK, Active, Range
  <2>4. QED
    BY <1>g, <2>3, LimitsAssumption DEF EditFile, SourceInv, sourceVars
<1>h. CASE Read \/ Check \/ Confirm \/ Apply \/ ApplyFails \/ GoStale
  BY <1>h, <1>u DEF Read, Check, Confirm, Apply, ApplyFails, GoStale
<1>i. CASE BuildNext
  BY <1>i, <1>u, BuildNextFrame
<1>j. CASE UNCHANGED vars
  BY <1>j, <1>u DEF vars
<1>k. QED
  BY <1>a, <1>b, <1>d, <1>e, <1>f, <1>g, <1>h, <1>i, <1>j, NextSplit

-----------------------------------------------------------------------------
(* The poll.                                                               *)

\* The checks of a poll still hold when its result is applied: nothing else
\* writes the store, and the finalized chain never returns to a lower fork.
LEMMA PollStep == SourceInv /\ StoreInv /\ PollInv /\ [Next]_vars => PollInv'
<1> SUFFICES ASSUME SourceInv, StoreInv, PollInv, [Next]_vars PROVE PollInv'
  OBVIOUS
<1>1. fork \in Nat /\ height \in Nat
  BY LimitsAssumption DEF SourceInv, Forks
<1>u. ASSUME UNCHANGED <<syncVars, cp>>, fork' \in Nat, fork <= fork' PROVE PollInv'
  <2>1. RecordsMatch' = RecordsMatch
    BY <1>u DEF syncVars, RecordsMatch
  <2>2. sync # "idle" => snap.fork \in Nat
    BY LimitsAssumption DEF PollInv, Forks
  <2>3. cp # None => cp.fork \in Nat
    BY LimitsAssumption DEF StoreInv, Forks
  <2>4. sync # "idle" => snap'.fork <= fork'
    BY <1>u, <1>1, <2>2 DEF PollInv, syncVars
  <2>5. sync = "confirm" /\ cp # None => snap'.fork <= cp'.fork /\ cp'.fork <= fork'
    BY <1>u, <1>1, <2>2, <2>3 DEF PollInv, syncVars
  <2>6. QED
    BY <1>u, <2>1, <2>4, <2>5 DEF PollInv, syncVars
<1>a. ASSUME NEW s \in Servers, NEW obj \in Choices[s], Publish(s, obj) PROVE PollInv'
  BY <1>a, <1>u, <1>1 DEF Publish, Change, storeVars
<1>b. ASSUME NEW s \in Servers, Revoke(s) PROVE PollInv'
  BY <1>b, <1>u, <1>1 DEF Revoke, Change, storeVars
<1>d. CASE Finalize \/ Reorganise \/ RollBack \/ EditFile \/ GoStale
  BY <1>d, <1>u, <1>1 DEF Finalize, Reorganise, RollBack, EditFile, GoStale, storeVars, sourceVars
<1>e. CASE Read
  <2>1. PICK h \in 1..height :
          snap' = [height |-> h, fork |-> fork, gen |-> gen, root |-> Registry]
    BY <1>e DEF Read
  <2>2. h \in 1..MaxHeight
    BY <1>1, LimitsAssumption DEF SourceInv
  <2>3. ContentOK(snap'.root) /\ EndpointsDisjoint(snap'.root)
    BY <2>1 DEF SourceInv, Registry
  <2>4. DOMAIN want' \subseteq Servers /\ \A s \in DOMAIN want' : want'[s] \in Objects
    BY <1>e DEF Read, SourceInv, Range
  <2>5. snap'.fork <= fork' /\ snap'.fork \in Forks /\ snap'.gen \in 0..MaxChanges
    BY <1>e, <1>1, <2>1 DEF Read, SourceInv, sourceVars
  <2>6. sync' = "check" /\ snap'.height \in 1..MaxHeight
    BY <1>e, <2>1, <2>2 DEF Read
  <2>7. QED
    BY <2>3, <2>4, <2>5, <2>6 DEF PollInv
<1>f. CASE Check
  <2>1. sync' \in {"idle", "confirm"} /\ UNCHANGED <<snap, want, cp, fork>>
    BY <1>f DEF Check, storeVars, sourceVars
  <2>2. sync' = "confirm" => Canonical /\ RecordsMatch
    BY <1>f DEF Check
  <2>3. RecordsMatch' = RecordsMatch
    BY <2>1 DEF RecordsMatch
  <2>4. sync = "check"
    BY <1>f DEF Check
  <2>5. sync' = "confirm" /\ cp # None => snap.fork <= cp.fork /\ cp.fork <= fork
    BY <1>1, <2>2, <2>4 DEF Canonical, PollInv
  <2>6. QED
    BY <2>1, <2>2, <2>3, <2>4, <2>5 DEF PollInv
<1>g. CASE Confirm
  <2>1. sync' \in {"idle", "apply"} /\ UNCHANGED <<snap, want, cp, fork>> /\ sync = "confirm"
    BY <1>g DEF Confirm, storeVars, sourceVars
  <2>2. sync' = "apply" => fork = snap.fork
    BY <1>g DEF Confirm
  <2>3. RecordsMatch' = RecordsMatch
    BY <2>1 DEF RecordsMatch
  <2>4. cp # None => cp.fork \in Nat
    BY LimitsAssumption DEF StoreInv, Forks
  <2>5. sync' = "apply" /\ cp # None => snap.fork = cp.fork
    BY <1>1, <2>1, <2>2, <2>4 DEF PollInv
  <2>6. QED
    BY <2>1, <2>3, <2>5 DEF PollInv
<1>h. CASE Apply \/ ApplyFails
  BY <1>h DEF Apply, ApplyFails, PollInv
<1>i. CASE BuildNext
  BY <1>i, <1>u, <1>1, BuildNextFrame DEF storeVars, sourceVars
<1>j. CASE UNCHANGED vars
  BY <1>j, <1>u, <1>1 DEF vars, storeVars, sourceVars
<1>k. QED
  BY <1>a, <1>b, <1>d, <1>e, <1>f, <1>g, <1>h, <1>i, <1>j, NextSplit

-----------------------------------------------------------------------------
(* The store.                                                              *)

\* What a snapshot that is applied leaves in the store.
LEMMA AppliedRows ==
  ASSUME SourceInv, PollInv, StoreInv, Apply
  PROVE  /\ DOMAIN ids' = DOMAIN ids \cup DOMAIN want
         /\ \A s \in DOMAIN want : /\ ids'[s].obj = want[s] /\ ids'[s].root = snap.root
                                   /\ ids'[s].gen = snap.gen /\ ids'[s].status = "ACTIVE"
         /\ \A s \in DOMAIN ids \ DOMAIN want :
              /\ ids'[s].obj = ids[s].obj /\ ids'[s].root = ids[s].root
              /\ ids'[s].gen = ids[s].gen /\ ids'[s].status = "REMOVED"
         /\ Listed' = DOMAIN want
<1>1. ids' = [s \in DOMAIN ids \cup DOMAIN want |->
                IF s \in DOMAIN want THEN NewRow(s) ELSE [ids[s] EXCEPT !.status = "REMOVED"]]
  BY DEF Apply
<1>2. DOMAIN ids' = DOMAIN ids \cup DOMAIN want
  BY <1>1
<1>3. \A s \in DOMAIN want : /\ ids'[s].obj = want[s] /\ ids'[s].root = snap.root
                             /\ ids'[s].gen = snap.gen /\ ids'[s].status = "ACTIVE"
  BY <1>1 DEF NewRow
<1>4. \A s \in DOMAIN ids \ DOMAIN want : ids'[s] = [ids[s] EXCEPT !.status = "REMOVED"]
  BY <1>1
<1>5. \A s \in DOMAIN ids \ DOMAIN want :
        /\ ids'[s].obj = ids[s].obj /\ ids'[s].root = ids[s].root
        /\ ids'[s].gen = ids[s].gen /\ ids'[s].status = "REMOVED"
  <2>1. \A s \in DOMAIN ids : IsRow(ids[s])
    BY DEF StoreInv
  <2>2. QED
    BY <1>4, <2>1 DEF IsRow
<1>6. Listed' = DOMAIN want
  BY <1>2, <1>3, <1>5 DEF Listed
<1>7. QED
  BY <1>2, <1>3, <1>5, <1>6

\* The owner of an endpoint of the file is the one server that lists it.
LEMMA OwnerIsUnique ==
  ASSUME PollInv, sync = "apply", NEW s \in DOMAIN want, NEW e \in want[s].eps
  PROVE  e \in Wanted /\ OwnerOf(e) = s
<1>1. e \in Wanted
  BY DEF Wanted
<1>2. OwnerOf(e) \in DOMAIN want /\ e \in want[OwnerOf(e)].eps
  BY DEF OwnerOf
<1>3. \A t \in DOMAIN want : t \in Active(snap.root) /\ snap.root[t].obj = want[t]
  BY DEF PollInv, RecordsMatch
<1>4. EndpointsDisjoint(snap.root)
  BY DEF PollInv
<1>5. QED
  BY <1>1, <1>2, <1>3, <1>4 DEF EndpointsDisjoint

\* The whole snapshot is replaced in one transaction: rows, lookup, checkpoint.
LEMMA StoreApply ==
  ASSUME SourceInv, PollInv, StoreInv, Apply
  PROVE  StoreInv'
<1>1. sync = "apply" /\ lookup' = NewLookup
      /\ cp' = [height |-> snap.height, fork |-> snap.fork]
      /\ fresh' = TRUE /\ cacheGen' \in {cacheGen, cacheGen + 1}
  BY DEF Apply
<1>2. /\ ContentOK(snap.root) /\ snap.gen \in Nat
      /\ DOMAIN want \subseteq Servers /\ \A s \in DOMAIN want : want[s] \in Objects
  BY <1>1, LimitsAssumption DEF PollInv
<1>3. NodesOK(ids')
  BY <1>2, AppliedRows DEF StoreInv, NodesOK, RowOK, ContentOK
<1>4. \A s \in DOMAIN ids' : IsRow(ids'[s])
  <2>1. ids' = [s \in DOMAIN ids \cup DOMAIN want |->
                  IF s \in DOMAIN want THEN NewRow(s) ELSE [ids[s] EXCEPT !.status = "REMOVED"]]
    BY DEF Apply
  <2>2. \A s \in DOMAIN want : IsRow(NewRow(s))
    BY DEF NewRow, IsRow
  <2>3. ASSUME NEW s \in DOMAIN ids PROVE IsRow([ids[s] EXCEPT !.status = "REMOVED"])
    BY DEF StoreInv, IsRow
  <2>4. QED
    BY <2>1, <2>2, <2>3
<1>5. \A e \in DOMAIN lookup' : /\ e \in Endpoints /\ lookup'[e] \in DOMAIN want
                                 /\ e \in want[lookup'[e]].eps
  <2>1. lookup' = [e \in Wanted |-> OwnerOf(e)]
    BY <1>1 DEF NewLookup
  <2>2. SUFFICES ASSUME NEW e \in Wanted
                 PROVE  e \in Endpoints /\ OwnerOf(e) \in DOMAIN want /\ e \in want[OwnerOf(e)].eps
    BY <2>1
  <2>3. PICK s \in DOMAIN want : e \in want[s].eps
    BY DEF Wanted
  <2>4. OwnerOf(e) = s
    BY <1>1, <2>3, OwnerIsUnique
  <2>5. QED
    BY <1>2, <2>3, <2>4, ObjectEndpoints
<1>6. \A s \in DOMAIN want : \A e \in want[s].eps : e \in DOMAIN lookup' /\ lookup'[e] = s
  BY <1>1, OwnerIsUnique DEF NewLookup
<1>7. DOMAIN lookup' \subseteq Endpoints /\ Range(lookup') \subseteq DOMAIN ids'
  BY <1>5, AppliedRows DEF Range
<1>8. cp' \in [height : 1..MaxHeight, fork : Forks]
  BY <1>1 DEF PollInv
<1>9. LookupSound'
  BY <1>5, <1>6, AppliedRows DEF LookupSound
<1>10. OneSnapshot'
  BY AppliedRows DEF OneSnapshot
<1>11. RevokedNotListed'
  <2>1. \A s \in DOMAIN want : s \in Active(snap.root)
    BY <1>1 DEF PollInv, RecordsMatch
  <2>2. QED
    BY <2>1, AppliedRows DEF RevokedNotListed, Active
<1>12. fresh' \in BOOLEAN /\ cacheGen' \in Nat
  BY <1>1 DEF StoreInv
<1>13. QED
  BY <1>3, <1>4, <1>7, <1>8, <1>9, <1>10, <1>11, <1>12 DEF StoreInv

\* Only Apply writes the store.
LEMMA StoreStep == SourceInv /\ PollInv /\ StoreInv /\ [Next]_vars => StoreInv'
<1> SUFFICES ASSUME SourceInv, PollInv, StoreInv, [Next]_vars PROVE StoreInv'
  OBVIOUS
<1>u. ASSUME UNCHANGED <<ids, lookup, cp, cacheGen>>, fresh' \in BOOLEAN PROVE StoreInv'
  <2>1. Listed' = Listed
    BY <1>u DEF Listed
  <2>2. LookupSound' /\ OneSnapshot' /\ RevokedNotListed'
    BY <1>u, <2>1 DEF StoreInv, LookupSound, OneSnapshot, RevokedNotListed
  <2>3. QED
    BY <1>u, <2>2 DEF StoreInv
<1>1. fresh \in BOOLEAN
  BY DEF StoreInv
<1>a. ASSUME NEW s \in Servers, NEW obj \in Choices[s], Publish(s, obj) PROVE StoreInv'
  BY <1>a, <1>u, <1>1 DEF Publish, Change, storeVars
<1>b. ASSUME NEW s \in Servers, Revoke(s) PROVE StoreInv'
  BY <1>b, <1>u, <1>1 DEF Revoke, Change, storeVars
<1>d. CASE Finalize \/ Reorganise \/ RollBack \/ EditFile \/ GoStale
  BY <1>d, <1>u, <1>1 DEF Finalize, Reorganise, RollBack, EditFile, GoStale, storeVars
<1>e. CASE Read \/ Check \/ Confirm \/ ApplyFails
  BY <1>e, <1>u, <1>1 DEF Read, Check, Confirm, ApplyFails, storeVars
<1>f. CASE Apply
  BY <1>f, StoreApply
<1>i. CASE BuildNext
  BY <1>i, <1>u, <1>1, BuildNextFrame DEF storeVars
<1>j. CASE UNCHANGED vars
  BY <1>j, <1>u, <1>1 DEF vars, storeVars
<1>k. QED
  BY <1>a, <1>b, <1>d, <1>e, <1>f, <1>i, <1>j, NextSplit

-----------------------------------------------------------------------------
(* The graph requests.                                                     *)

\* What one step of one request does to its types.
LEMMA BuildStepInv ==
  ASSUME StoreInv, BuildInv, BuildNext
  PROVE  BuildInv'
<1> PICK b \in Builds :
       \/ BuildStart(b) \/ ReadGeneration(b) \/ InsertGraph(b) \/ BuildFails(b)
       \/ VerifyStart(b) \/ NextRequest(b)
       \/ \E e \in Endpoints : LookupTarget(b, e)
       \/ \E g \in graphs : FindSource(b, g)
       \/ \E s \in Servers : CompareNode(b, s)
  BY DEF BuildNext
<1>1. cacheGen' = cacheGen /\ cacheGen \in Nat /\ NodesOK(ids)
  BY BuildNextFrame DEF storeVars, StoreInv
<1> USE DEF BuildInv
<1>a. CASE BuildStart(b)
  <2>1. NodesOK([s \in {Self} |-> ids[s]])
    BY <1>1, <1>a, ServersAssumption DEF BuildStart, NodesOK
  <2>2. QED
    BY <1>1, <1>a, <2>1 DEF BuildStart, BuildStep
<1>b. CASE ReadGeneration(b)
  BY <1>1, <1>b DEF ReadGeneration, BuildStep
<1>c. CASE InsertGraph(b)
  <2>1. \A g \in graphs' : g.gen \in 0..cacheGen /\ NodesOK(g.nodes) /\ NodesOK(g.source)
    BY <1>1, <1>c DEF InsertGraph
  <2>2. QED
    BY <1>1, <1>c, <2>1 DEF InsertGraph, BuildStep
<1>d. CASE BuildFails(b)
  BY <1>1, <1>d DEF BuildFails, BuildStep
<1>e. CASE VerifyStart(b)
  <2>1. (IF fresh THEN "compare" ELSE "rejected") \in {"compare", "rejected"}
    OBVIOUS
  <2>2. QED
    BY <1>1, <1>e, <2>1 DEF VerifyStart, BuildStep
<1>f. CASE NextRequest(b)
  BY <1>1, <1>f, EmptyNodes DEF NextRequest, BuildStep
<1>g. ASSUME NEW e \in Endpoints, LookupTarget(b, e) PROVE BuildInv'
  <2>1. lookup[e] \in DOMAIN ids
    BY <1>g DEF LookupTarget, StoreInv, Range
  <2>2. NodesOK(Put(nodes[b], lookup[e], ids[lookup[e]]))
    BY <1>1, <2>1 DEF NodesOK, Put
  <2>3. DOMAIN nodes[b] \subseteq DOMAIN Put(nodes[b], lookup[e], ids[lookup[e]])
    BY DEF Put
  <2>4. QED
    BY <1>1, <1>g, <2>2, <2>3 DEF LookupTarget, BuildStep
<1>h. ASSUME NEW g \in graphs, FindSource(b, g) PROVE BuildInv'
  BY <1>1, <1>h DEF FindSource, BuildStep
<1>i. ASSUME NEW s \in Servers, CompareNode(b, s) PROVE BuildInv'
  <2>1. PICK p \in {"rejected", "released", "compare"} :
          bpc' = [bpc EXCEPT ![b] = p] /\ todo' = [todo EXCEPT ![b] = todo[b] \ {s}]
    BY <1>i DEF CompareNode, BuildStep
  <2>2. QED
    BY <1>1, <1>i, <2>1 DEF CompareNode
<1>j. QED
  BY <1>a, <1>b, <1>c, <1>d, <1>e, <1>f, <1>g, <1>h, <1>i

\* Registry Sync only drops graphs.
LEMMA BuildInvStep == StoreInv /\ BuildInv /\ [Next]_vars => BuildInv'
<1> SUFFICES ASSUME StoreInv, BuildInv, [Next]_vars PROVE BuildInv'
  OBVIOUS
<1>u. ASSUME UNCHANGED buildVars, graphs' \subseteq graphs, cacheGen' \in {cacheGen, cacheGen + 1}
      PROVE  BuildInv'
  <2>1. cacheGen \in Nat
    BY DEF StoreInv
  <2>2. \A g \in graphs' : g.gen \in 0..cacheGen'
    BY <1>u, <2>1 DEF BuildInv
  <2>3. \A b \in Builds : bgen'[b] <= cacheGen'
    BY <1>u, <2>1 DEF BuildInv, buildVars
  <2>4. QED
    BY <1>u, <2>2, <2>3 DEF BuildInv, buildVars
<1>a. ASSUME NEW s \in Servers, NEW obj \in Choices[s], Publish(s, obj) PROVE BuildInv'
  BY <1>a, <1>u DEF Publish, Change, storeVars
<1>b. ASSUME NEW s \in Servers, Revoke(s) PROVE BuildInv'
  BY <1>b, <1>u DEF Revoke, Change, storeVars
<1>d. CASE Finalize \/ Reorganise \/ RollBack \/ EditFile \/ GoStale
  BY <1>d, <1>u DEF Finalize, Reorganise, RollBack, EditFile, GoStale, storeVars
<1>e. CASE Read \/ Check \/ Confirm \/ ApplyFails
  BY <1>e, <1>u DEF Read, Check, Confirm, ApplyFails, storeVars
<1>f. CASE Apply
  BY <1>f, <1>u DEF Apply
<1>i. CASE BuildNext
  BY <1>i, BuildStepInv
<1>j. CASE UNCHANGED vars
  BY <1>j, <1>u DEF vars, storeVars
<1>k. QED
  BY <1>a, <1>b, <1>d, <1>e, <1>f, <1>i, <1>j, NextSplit

-----------------------------------------------------------------------------
(* The theorems that hold for every source.                                *)

\* Before the first poll the store is empty.
LEMMA SnapshotInit == Init => SnapshotInv
<1> SUFFICES ASSUME Init PROVE SnapshotInv
  OBVIOUS
<1>1. ASSUME NEW s \in Servers PROVE Genesis[s] \in [obj : Objects, active : BOOLEAN]
  <2>1. Genesis[s].obj \in Objects
    BY GenesisAssumption, ChoiceIsObject
  <2>2. PICK o \in Objects : Genesis[s] = [obj |-> o, active |-> TRUE]
    BY <2>1 DEF Genesis
  <2>3. QED
    BY <2>2
<1>2. DOMAIN Genesis = Servers
  BY DEF Genesis
<1>3. ContentOK(Genesis) /\ EndpointsDisjoint(Genesis)
  BY <1>1, <1>2, GenesisAssumption DEF ContentOK, EndpointsDisjoint, Active
<1>4. ContentOK(Empty) /\ EndpointsDisjoint(Empty)
  BY DEF ContentOK, EndpointsDisjoint, Active, Empty
<1>5. SourceInv
  <2>1. DOMAIN file \subseteq Servers /\ Range(file) \subseteq Objects
    BY <1>1, <1>2 DEF Init, Range
  <2>2. \A g \in 0..MaxChanges : hist[g] \in {Genesis, Empty}
    BY DEF Init
  <2>3. \A g \in 0..MaxChanges : ContentOK(hist[g]) /\ EndpointsDisjoint(hist[g])
    BY <1>3, <1>4, <2>2
  <2>4. QED
    BY <2>1, <2>3, LimitsAssumption DEF Init, SourceInv, Forks
<1>6. PollInv
  BY DEF Init, PollInv
<1>7. StoreInv
  BY EmptyNodes DEF Init, StoreInv, LookupSound, OneSnapshot, RevokedNotListed, Listed, Range, Empty
<1>8. BuildInv
  BY EmptyNodes DEF Init, BuildInv
<1>9. QED
  BY <1>5, <1>6, <1>7, <1>8 DEF SnapshotInv

\* Every step of the chain, of Registry Sync and of the Agent keeps the invariant.
LEMMA SnapshotStep == SnapshotInv /\ [Next]_vars => SnapshotInv'
BY SourceStep, PollStep, StoreStep, BuildInvStep DEF SnapshotInv

\* The inductive invariant.
THEOREM SnapshotInvariant == Spec => []SnapshotInv
<1>1. Init => SnapshotInv
  BY SnapshotInit
<1>2. SnapshotInv /\ [Next]_vars => SnapshotInv'
  BY SnapshotStep
<1>3. QED
  BY <1>1, <1>2, PTL DEF Spec

\* Type correctness: the tables of the store, the poll and the graph requests stay
\* well formed.
THEOREM TypeCorrect == Spec => []TypeOK
<1>1. SnapshotInv => TypeOK
  BY DEF SnapshotInv, SourceInv, PollInv, StoreInv, BuildInv, TypeOK
<1>2. QED
  BY <1>1, SnapshotInvariant, PTL

\* An endpoint leads to exactly the identity in force that lists it, for any
\* order of publications, revocations and edits of the file.
THEOREM LookupAlwaysSound == Spec => []LookupSound
<1>1. SnapshotInv => LookupSound
  BY DEF SnapshotInv, StoreInv
<1>2. QED
  BY <1>1, SnapshotInvariant, PTL

\* The identities in force are all of one snapshot.
THEOREM AlwaysOneSnapshot == Spec => []OneSnapshot
<1>1. SnapshotInv => OneSnapshot
  BY DEF SnapshotInv, StoreInv
<1>2. QED
  BY <1>1, SnapshotInvariant, PTL

\* No server is in force under a snapshot whose content revokes it.
THEOREM RevokedNeverListed == Spec => []RevokedNotListed
<1>1. SnapshotInv => RevokedNotListed
  BY DEF SnapshotInv, StoreInv
<1>2. QED
  BY <1>1, SnapshotInvariant, PTL

\* The stored checkpoint never moves to a lower height or to another chain, also
\* when the source serves older checkpoints, goes back or is reorganised between
\* the checks of a poll and its transaction.
THEOREM CheckpointAlwaysKept == Spec => CheckpointKept
<1>1. SnapshotInv /\ [Next]_vars =>
        [cp # None => cp' # None /\ cp'.height >= cp.height /\ cp'.fork = cp.fork]_vars
  <2> SUFFICES ASSUME SnapshotInv, [Next]_vars, cp # None
               PROVE  \/ cp' # None /\ cp'.height >= cp.height /\ cp'.fork = cp.fork
                      \/ UNCHANGED vars
    OBVIOUS
  <2>1. cp \in [height : 1..MaxHeight, fork : Forks]
    BY DEF SnapshotInv, StoreInv
  <2>2. cp.height \in Nat /\ cp.height >= cp.height
    BY <2>1, LimitsAssumption
  <2>3. ASSUME UNCHANGED cp PROVE cp' # None /\ cp'.height >= cp.height /\ cp'.fork = cp.fork
    BY <2>2, <2>3
  <2>4. CASE Apply
    <3>1. sync = "apply" /\ cp' = [height |-> snap.height, fork |-> snap.fork] /\ NoRollback
      BY <2>4 DEF Apply
    <3>2. snap.height \in Nat \ {0} /\ snap.fork = cp.fork
      BY <3>1, LimitsAssumption DEF SnapshotInv, PollInv
    <3>3. snap.height >= cp.height
      BY <3>1 DEF NoRollback
    <3>4. cp'.height = snap.height /\ cp'.fork = snap.fork
      BY <3>1
    <3>5. cp' # None
      BY <3>2, <3>4 DEF None
    <3>6. QED
      BY <3>2, <3>3, <3>4, <3>5
  <2>5. CASE Next /\ ~Apply
    BY <2>3, <2>5, NextSplit, BuildNextFrame
       DEF Publish, Revoke, Change, Finalize, Reorganise, RollBack, EditFile, Read, Check, Confirm,
           ApplyFails, GoStale, storeVars
  <2>6. QED
    BY <2>4, <2>5
<1>2. QED
  BY <1>1, SnapshotInvariant, PTL DEF Spec, CheckpointKept

-----------------------------------------------------------------------------
(* A source that never goes back: the nodes of a released answer.          *)

\* The versions of a content are numbers.
LEMMA ContentVersions ==
  ASSUME NEW reg, ContentOK(reg), NEW s \in DOMAIN reg
  PROVE  reg[s].obj.ver \in Nat
BY ObjectVersion DEF ContentOK

\* What is later stays later when the content moves on.
LEMMA LaterThenNotEarlier ==
  ASSUME NEW a, NEW b, NEW c, ContentOK(a), ContentOK(b), ContentOK(c),
         Later(a, b), NotEarlier(b, c)
  PROVE  Later(a, c)
<1>1. DOMAIN a \subseteq DOMAIN b /\ DOMAIN b \subseteq DOMAIN c
  BY DEF Later, NotEarlier
<1>2. ASSUME NEW y \in DOMAIN a PROVE a[y].obj.ver <= c[y].obj.ver
  <2>1. a[y].obj.ver \in Nat /\ b[y].obj.ver \in Nat /\ c[y].obj.ver \in Nat
    BY <1>1, <1>2, ContentVersions
  <2>2. a[y].obj.ver <= b[y].obj.ver /\ b[y].obj.ver <= c[y].obj.ver
    BY <1>1, <1>2 DEF Later, NotEarlier
  <2>3. QED
    BY <2>1, <2>2
<1>3. \A y \in DOMAIN a : y \in Active(c) => y \in Active(a)
  BY <1>1 DEF Later, NotEarlier
<1>4. PICK y \in DOMAIN b : \/ y \notin DOMAIN a
                          \/ a[y].obj.ver < b[y].obj.ver
                          \/ y \in Active(a) \ Active(b)
  BY DEF Later
<1>5. b[y].obj.ver <= c[y].obj.ver /\ (y \in Active(c) => y \in Active(b))
  BY DEF NotEarlier
<1>6. y \in DOMAIN a /\ a[y].obj.ver < b[y].obj.ver => a[y].obj.ver < c[y].obj.ver
  <2>1. b[y].obj.ver \in Nat /\ c[y].obj.ver \in Nat
    BY <1>1, ContentVersions
  <2>2. y \in DOMAIN a => a[y].obj.ver \in Nat
    BY ContentVersions
  <2>3. QED
    BY <1>5, <2>1, <2>2
<1>7. y \in DOMAIN c /\ (\/ y \notin DOMAIN a
                         \/ a[y].obj.ver < c[y].obj.ver
                         \/ y \in Active(a) \ Active(c))
  BY <1>1, <1>4, <1>5, <1>6
<1>8. QED
  BY <1>1, <1>2, <1>3, <1>7 DEF Later, NotEarlier

\* A publication adds a server or raises a version.
LEMMA PublishIsLater ==
  ASSUME SourceInv, NEW s \in Servers, NEW obj \in Choices[s], Publish(s, obj),
         NEW reg, reg = Put(Registry, s, [obj |-> obj, active |-> TRUE])
  PROVE  Later(Registry, reg)
<1>1. ContentOK(Registry)
  BY DEF SourceInv, Registry
<1>2. /\ DOMAIN reg = DOMAIN Registry \cup {s}
      /\ reg[s].obj = obj
      /\ \A y \in DOMAIN Registry : y # s => reg[y] = Registry[y]
  BY DEF Put
<1>3. s \in DOMAIN Registry => s \in Active(Registry) /\ Registry[s].obj.ver < obj.ver
  BY DEF Publish, Active
<1>4. obj.ver \in Nat
  BY ChoiceIsObject, ObjectVersion
<1>5. ASSUME NEW y \in DOMAIN Registry PROVE Registry[y].obj.ver <= reg[y].obj.ver
  <2>1. Registry[y].obj.ver \in Nat
    BY <1>1, ContentVersions
  <2>2. CASE y = s
    BY <1>2, <1>3, <1>4, <2>1, <2>2
  <2>3. CASE y # s
    <3>1. reg[y] = Registry[y]
      BY <1>2, <2>3
    <3>2. QED
      BY <2>1, <3>1
  <2>4. QED
    BY <2>2, <2>3
<1>6. \A y \in DOMAIN Registry : y \in Active(reg) => y \in Active(Registry)
  BY <1>2, <1>3 DEF Active
<1>7. s \in DOMAIN reg /\ (s \notin DOMAIN Registry \/ Registry[s].obj.ver < reg[s].obj.ver)
  BY <1>2, <1>3
<1>8. QED
  BY <1>2, <1>5, <1>6, <1>7 DEF Later, NotEarlier

\* A revocation ends a server for good.
LEMMA RevokeIsLater ==
  ASSUME SourceInv, NEW s \in Servers, Revoke(s),
         NEW reg, reg = [Registry EXCEPT ![s].active = FALSE]
  PROVE  Later(Registry, reg)
<1>1. ContentOK(Registry)
  BY DEF SourceInv, Registry
<1>2. s \in DOMAIN Registry /\ s \in Active(Registry)
  BY DEF Revoke, Active
<1>3. /\ DOMAIN reg = DOMAIN Registry
      /\ reg[s] = [Registry[s] EXCEPT !.active = FALSE]
      /\ \A y \in DOMAIN Registry : y # s => reg[y] = Registry[y]
  BY <1>2
<1>4. reg[s].obj = Registry[s].obj /\ reg[s].active = FALSE
  BY <1>1, <1>2, <1>3 DEF ContentOK
<1>5. ASSUME NEW y \in DOMAIN Registry PROVE Registry[y].obj.ver <= reg[y].obj.ver
  <2>1. Registry[y].obj.ver \in Nat
    BY <1>1, ContentVersions
  <2>2. reg[y].obj = Registry[y].obj
    BY <1>3, <1>4
  <2>3. QED
    BY <2>1, <2>2
<1>6. s \notin Active(reg)
  BY <1>4 DEF Active
<1>7. \A y \in DOMAIN Registry : y \in Active(reg) => y \in Active(Registry)
  BY <1>2, <1>3 DEF Active
<1>8. QED
  BY <1>2, <1>3, <1>5, <1>6, <1>7 DEF Later, NotEarlier

\* The content of one generation is not the content of another.
LEMMA GenerationsDiffer ==
  ASSUME SourceInv, \A g, h \in 0..gen : g < h => Later(hist[g], hist[h]),
         NEW g \in 0..gen, NEW h \in 0..gen, hist[g] = hist[h]
  PROVE  g = h
<1>1. \A a \in 0..gen : ~Later(hist[a], hist[a])
  <2> SUFFICES ASSUME NEW a \in 0..gen, Later(hist[a], hist[a]) PROVE FALSE
    OBVIOUS
  <2>1. ContentOK(hist[a])
    BY LimitsAssumption DEF SourceInv
  <2>2. PICK y \in DOMAIN hist[a] : hist[a][y].obj.ver < hist[a][y].obj.ver
    BY DEF Later
  <2>3. hist[a][y].obj.ver \in Nat
    BY <2>1, ContentVersions
  <2>4. QED
    BY <2>2, <2>3
<1>2. g \in Nat /\ h \in Nat
  BY LimitsAssumption DEF SourceInv
<1>3. g < h \/ h < g \/ g = h
  BY <1>2
<1>4. QED
  BY <1>1, <1>3

\* A node of a request is an older one, or a row as it is in the store now.
LEMMA NodeSources ==
  ASSUME BuildInv, StoreInv, BuildNext
  PROVE  \A c \in Builds : \A s \in DOMAIN nodes'[c] :
           \/ s \in DOMAIN nodes[c] /\ nodes'[c][s] = nodes[c][s]
           \/ s \in DOMAIN ids /\ nodes'[c][s] = ids[s]
<1> PICK b \in Builds :
       \/ BuildStart(b) \/ ReadGeneration(b) \/ InsertGraph(b) \/ BuildFails(b)
       \/ VerifyStart(b) \/ NextRequest(b)
       \/ \E e \in Endpoints : LookupTarget(b, e)
       \/ \E g \in graphs : FindSource(b, g)
       \/ \E s \in Servers : CompareNode(b, s)
  BY DEF BuildNext
<1>1. DOMAIN nodes = Builds
  BY DEF BuildInv
<1>a. CASE UNCHANGED nodes
  BY <1>a
<1>b. CASE BuildStart(b)
  BY <1>1, <1>b DEF BuildStart
<1>c. CASE NextRequest(b)
  BY <1>1, <1>c DEF NextRequest, Empty
<1>d. ASSUME NEW e \in Endpoints, LookupTarget(b, e)
      PROVE  \A c \in Builds : \A s \in DOMAIN nodes'[c] :
               \/ s \in DOMAIN nodes[c] /\ nodes'[c][s] = nodes[c][s]
               \/ s \in DOMAIN ids /\ nodes'[c][s] = ids[s]
  <2>1. lookup[e] \in DOMAIN ids
    BY <1>d DEF LookupTarget, StoreInv, Range
  <2>2. QED
    BY <1>1, <1>d, <2>1 DEF LookupTarget, Put
<1>e. QED
  BY <1>a, <1>b, <1>c, <1>d
     DEF ReadGeneration, InsertGraph, BuildFails, VerifyStart, FindSource, CompareNode

\* Rows and nodes stay true while the source only moves on.
LEMMA HistoryStep ==
  ASSUME ~MayRollback, SnapshotInv, HistoryInv, [Next]_vars
  PROVE  HistoryInv'
<1>1. SourceInv /\ PollInv /\ StoreInv /\ BuildInv
  BY DEF SnapshotInv
<1>2. gen \in Nat /\ gen \in 0..gen
  BY <1>1, LimitsAssumption DEF SourceInv
<1>u. ASSUME UNCHANGED <<gen, hist, snap, ids, nodes>>, sync' # "idle" => sync # "idle"
      PROVE  HistoryInv'
  BY <1>u DEF HistoryInv, RowTrue
<1>c. ASSUME NEW reg, ContentOK(reg), Later(Registry, reg), Change(reg) PROVE HistoryInv'
  <2>1. /\ gen' = gen + 1 /\ hist'[gen + 1] = reg
        /\ \A g \in 0..gen : hist'[g] = hist[g]
        /\ UNCHANGED <<sync, snap, ids, nodes>>
    BY <1>c, <1>1, LimitsAssumption DEF Change, SourceInv, syncVars, storeVars, buildVars
  <2>2. ASSUME NEW g \in 0..gen', NEW h \in 0..gen', g < h PROVE Later(hist'[g], hist'[h])
    <3>1. g \in 0..gen
      BY <1>2, <2>1, <2>2
    <3>2. CASE h \in 0..gen
      BY <2>1, <2>2, <3>1, <3>2 DEF HistoryInv
    <3>3. CASE h = gen + 1
      <4>1. ContentOK(hist[g]) /\ ContentOK(hist[gen])
        BY <1>1, <3>1, LimitsAssumption DEF SourceInv
      <4>2. CASE g = gen
        BY <1>c, <2>1, <3>1, <3>3, <4>2 DEF Registry
      <4>3. CASE g # gen
        <5>1. g < gen
          BY <1>2, <3>1, <4>3
        <5>2. Later(hist[g], hist[gen])
          BY <1>2, <3>1, <5>1 DEF HistoryInv
        <5>3. NotEarlier(hist[gen], reg)
          BY <1>c DEF Later, Registry
        <5>4. Later(hist[g], reg)
          BY <1>c, <4>1, <5>2, <5>3, LaterThenNotEarlier
        <5>5. QED
          BY <2>1, <3>1, <3>3, <5>4
      <4>4. QED
        BY <4>2, <4>3
    <3>4. QED
      BY <1>2, <2>1, <3>2, <3>3
  <2>3. ASSUME NEW r, RowTrue(r)
        PROVE  r.gen \in 0..gen' /\ r.root = hist'[r.gen] /\ (sync' # "idle" => r.gen <= snap'.gen)
    BY <1>2, <2>1, <2>3 DEF RowTrue
  <2>4. sync' # "idle" => snap'.gen \in 0..gen' /\ snap'.root = hist'[snap'.gen]
    BY <1>2, <2>1 DEF HistoryInv
  <2>5. QED
    BY <2>1, <2>2, <2>3, <2>4 DEF HistoryInv, RowTrue
<1>a. ASSUME NEW s \in Servers, NEW obj \in Choices[s], Publish(s, obj) PROVE HistoryInv'
  BY <1>a, <1>1, <1>c, PublishContent, PublishIsLater DEF Publish
<1>b. ASSUME NEW s \in Servers, Revoke(s) PROVE HistoryInv'
  BY <1>b, <1>1, <1>c, RevokeContent, RevokeIsLater DEF Revoke
<1>d. CASE RollBack
  BY <1>d DEF RollBack
<1>e. CASE Finalize \/ Reorganise \/ EditFile \/ GoStale
  BY <1>e, <1>u DEF Finalize, Reorganise, EditFile, GoStale, sourceVars, syncVars, storeVars, buildVars
<1>f. CASE Read
  <2>1. snap'.gen = gen /\ snap'.root = hist[gen] /\ sync = "idle"
        /\ UNCHANGED <<gen, hist, ids, nodes>>
    BY <1>f DEF Read, Registry, sourceVars, storeVars, buildVars
  <2>2. ASSUME NEW r, RowTrue(r) PROVE r.gen <= snap'.gen
    BY <1>2, <2>1, <2>2 DEF RowTrue
  <2>3. QED
    BY <1>2, <2>1, <2>2 DEF HistoryInv, RowTrue
<1>g. CASE Check \/ Confirm \/ ApplyFails
  BY <1>g, <1>u DEF Check, Confirm, ApplyFails, sourceVars, storeVars, buildVars
<1>h. CASE Apply
  <2>1. sync = "apply" /\ sync' = "idle" /\ UNCHANGED <<gen, hist, snap, nodes>>
    BY <1>h DEF Apply, sourceVars, buildVars
  <2>2. \A s \in DOMAIN ids' : ids'[s].gen \in 0..gen /\ ids'[s].root = hist[ids'[s].gen]
    BY <1>h, <1>1, <2>1, AppliedRows DEF HistoryInv, RowTrue
  <2>3. QED
    BY <2>1, <2>2 DEF HistoryInv, RowTrue
<1>i. CASE BuildNext
  <2>1. UNCHANGED <<gen, hist, sync, snap, ids>>
    BY <1>i, BuildNextFrame DEF sourceVars, syncVars, storeVars
  <2>2. \A c \in Builds : \A s \in DOMAIN nodes'[c] : RowTrue(nodes'[c][s])
    BY <1>i, <1>1, NodeSources DEF HistoryInv
  <2>3. QED
    BY <2>1, <2>2 DEF HistoryInv, RowTrue
<1>j. CASE UNCHANGED vars
  BY <1>j, <1>u DEF vars, sourceVars, syncVars, storeVars, buildVars
<1>k. QED
  BY <1>a, <1>b, <1>d, <1>e, <1>f, <1>g, <1>h, <1>i, <1>j, NextSplit

\* One step of one request.
LEMMA RequestStep ==
  ASSUME SnapshotInv, HistoryInv, NodesInv, BuildNext
  PROVE  NodesInv'
<1> PICK b \in Builds :
       \/ BuildStart(b) \/ ReadGeneration(b) \/ InsertGraph(b) \/ BuildFails(b)
       \/ VerifyStart(b) \/ NextRequest(b)
       \/ \E e \in Endpoints : LookupTarget(b, e)
       \/ \E g \in graphs : FindSource(b, g)
       \/ \E s \in Servers : CompareNode(b, s)
  BY DEF BuildNext
<1>1. SourceInv /\ StoreInv /\ BuildInv
  BY DEF SnapshotInv
<1>2. UNCHANGED <<ids, lookup, gen, hist>> /\ Listed' = Listed
  BY BuildNextFrame DEF storeVars, sourceVars, Listed
<1>3. DOMAIN nodes = Builds /\ DOMAIN todo = Builds /\ DOMAIN bpc = Builds
  BY <1>1 DEF BuildInv
<1>4. ASSUME NEW c \in Builds, c # b PROVE RequestInv(c)'
  <2>1. bpc'[c] = bpc[c] /\ nodes'[c] = nodes[c] /\ todo'[c] = todo[c]
    BY <1>3, <1>4
       DEF BuildStart, ReadGeneration, InsertGraph, BuildFails, VerifyStart, NextRequest,
           LookupTarget, FindSource, CompareNode, BuildStep
  <2>2. RequestInv(c)
    BY DEF NodesInv
  <2>3. QED
    BY <1>2, <2>1, <2>2 DEF RequestInv
<1>5. RequestInv(b)
  BY DEF NodesInv
<1>6. \A s, t \in Listed : ids[s].gen = ids[t].gen /\ ids[s].gen \in Nat
  BY <1>1 DEF StoreInv, OneSnapshot, NodesOK, RowOK, Listed
<1>7. \A s \in DOMAIN nodes[b] : nodes[b][s].gen \in Nat
  BY <1>1 DEF BuildInv, NodesOK, RowOK
<1> SUFFICES RequestInv(b)'
  BY <1>4 DEF NodesInv
<1>a. CASE BuildStart(b)
  <2>1. /\ bpc'[b] = "target" /\ Self \in DOMAIN ids
        /\ nodes'[b] = [s \in {Self} |-> ids[s]] /\ todo'[b] = todo[b]
    BY <1>3, <1>a DEF BuildStart, BuildStep
  <2>2. DOMAIN nodes'[b] = {Self} /\ nodes'[b][Self] = ids[Self]
    BY <2>1
  <2>3. ids[Self].status = "ACTIVE" => \A t \in Listed : ids[Self].gen <= ids[t].gen
    BY <1>6, <2>1 DEF Listed
  <2>4. ids[Self].gen \in Nat
    BY <1>1, <2>1 DEF StoreInv, NodesOK, RowOK
  <2>5. QED
    BY <1>2, <2>1, <2>2, <2>3, <2>4 DEF RequestInv
<1>b. CASE ReadGeneration(b)
  <2>1. /\ bpc[b] = "generation" /\ bpc'[b] = "insert" /\ UNCHANGED <<nodes, todo>>
        /\ \A s \in DOMAIN nodes[b] : nodes[b][s].status = "ACTIVE"
    BY <1>3, <1>b DEF ReadGeneration, BuildStep
  <2>2. QED
    BY <1>2, <1>5, <2>1 DEF RequestInv
<1>c. CASE InsertGraph(b)
  <2>1. bpc[b] = "insert" /\ bpc'[b] = "verify" /\ UNCHANGED <<nodes, todo>>
    BY <1>3, <1>c DEF InsertGraph, BuildStep
  <2>2. QED
    BY <1>2, <1>5, <2>1 DEF RequestInv
<1>d. CASE BuildFails(b)
  <2>1. /\ bpc[b] \in {"target", "generation"} /\ bpc'[b] = "rejected"
        /\ UNCHANGED <<nodes, todo>>
    BY <1>3, <1>d DEF BuildFails, BuildStep
  <2>2. QED
    BY <1>2, <1>5, <2>1 DEF RequestInv
<1>e. CASE VerifyStart(b)
  <2>1. /\ bpc[b] = "verify" /\ bpc'[b] \in {"compare", "rejected"} /\ UNCHANGED nodes
        /\ todo'[b] = DOMAIN nodes[b]
    BY <1>3, <1>e DEF VerifyStart, BuildStep
  <2>2. QED
    BY <1>2, <1>5, <2>1 DEF RequestInv
<1>f. CASE NextRequest(b)
  <2>1. bpc'[b] = "idle"
    BY <1>3, <1>f DEF NextRequest, BuildStep
  <2>2. QED
    BY <2>1 DEF RequestInv
<1>g. ASSUME NEW e \in Endpoints, LookupTarget(b, e) PROVE RequestInv(b)'
  <2>1. /\ bpc[b] = "target" /\ bpc'[b] = "generation" /\ UNCHANGED todo
        /\ e \in DOMAIN lookup
        /\ nodes'[b] = Put(nodes[b], lookup[e], ids[lookup[e]])
    BY <1>3, <1>g DEF LookupTarget, BuildStep
  <2>2. lookup[e] \in Listed
    BY <1>1, <2>1 DEF StoreInv, LookupSound
  <2>3. DOMAIN nodes[b] = {Self} /\ Self \in DOMAIN nodes[b]
    BY <1>5, <2>1 DEF RequestInv
  <2>4. /\ DOMAIN nodes'[b] = {Self, lookup[e]}
        /\ nodes'[b][lookup[e]] = ids[lookup[e]]
        /\ lookup[e] # Self => nodes'[b][Self] = nodes[b][Self]
    BY <2>1, <2>3 DEF Put
  <2>5. \A t \in Listed : ids[lookup[e]].gen <= ids[t].gen
    BY <1>6, <2>2
  <2>6. nodes[b][Self].status = "ACTIVE" => \A t \in Listed : nodes[b][Self].gen <= ids[t].gen
    BY <1>5, <2>1, <2>3 DEF RequestInv
  <2>7. \A s \in DOMAIN nodes'[b] : nodes'[b][s].status = "ACTIVE" =>
          /\ \A t \in Listed : nodes'[b][s].gen <= ids[t].gen
          /\ Self \in DOMAIN nodes'[b] /\ nodes'[b][Self].status = "ACTIVE" =>
               nodes'[b][Self].gen <= nodes'[b][s].gen
    <3>1. CASE lookup[e] = Self
      BY <1>6, <2>2, <2>4, <2>5, <3>1
    <3>2. CASE lookup[e] # Self
      <4>1. nodes[b][Self].gen \in Nat
        BY <1>7, <2>3
      <4>2. QED
        BY <2>2, <2>4, <2>5, <2>6, <3>2, <4>1
    <3>3. QED
      BY <3>1, <3>2
  <2>8. QED
    BY <1>2, <2>1, <2>4, <2>7 DEF RequestInv
<1>h. ASSUME NEW g \in graphs, FindSource(b, g) PROVE RequestInv(b)'
  <2>1. bpc[b] = "target" /\ bpc'[b] = "generation" /\ UNCHANGED <<nodes, todo>>
    BY <1>3, <1>h DEF FindSource, BuildStep
  <2>2. QED
    BY <1>2, <1>5, <2>1 DEF RequestInv
<1>i. ASSUME NEW s \in Servers, CompareNode(b, s) PROVE RequestInv(b)'
  <2>1. /\ bpc[b] = "compare" /\ s \in todo[b] /\ UNCHANGED nodes
        /\ todo'[b] = todo[b] \ {s}
        /\ bpc'[b] \in {"rejected", "released", "compare"}
        /\ bpc'[b] = "released" => todo'[b] = {}
        /\ bpc'[b] # "rejected" => s \in DOMAIN ids /\ SameState(ids[s], nodes[b][s])
    BY <1>3, <1>i DEF CompareNode, BuildStep
  <2>2. /\ Self \in DOMAIN nodes[b]
        /\ \A t \in DOMAIN nodes[b] : nodes[b][t].status = "ACTIVE"
        /\ \A t \in DOMAIN nodes[b] : /\ \A u \in Listed : nodes[b][t].gen <= ids[u].gen
                                      /\ nodes[b][Self].gen <= nodes[b][t].gen
    BY <1>5, <2>1 DEF RequestInv
  <2>3. ASSUME bpc'[b] # "rejected", Self \notin todo'[b]
        PROVE  \A t \in DOMAIN nodes[b] : nodes[b][t].gen = nodes[b][Self].gen
    <3>1. CASE Self \notin todo[b]
      BY <1>5, <2>1, <3>1 DEF RequestInv
    <3>2. CASE Self \in todo[b]
      <4>1. s = Self
        BY <2>1, <2>3, <3>2
      <4>2. /\ Self \in Listed /\ ids[Self].root = nodes[b][Self].root
        BY <2>1, <2>2, <2>3, <4>1 DEF SameState, Listed
      <4>3. ids[Self].gen = nodes[b][Self].gen
        <5>1. RowTrue(ids[Self]) /\ RowTrue(nodes[b][Self])
          BY <2>2, <4>2 DEF HistoryInv, Listed
        <5>2. \A g, h \in 0..gen : g < h => Later(hist[g], hist[h])
          BY DEF HistoryInv
        <5>3. hist[ids[Self].gen] = hist[nodes[b][Self].gen]
          BY <4>2, <5>1 DEF RowTrue
        <5>4. QED
          BY <1>1, <5>1, <5>2, <5>3, GenerationsDiffer DEF RowTrue
      <4>4. ASSUME NEW t \in DOMAIN nodes[b] PROVE nodes[b][t].gen = nodes[b][Self].gen
        <5>1. nodes[b][t].gen <= nodes[b][Self].gen /\ nodes[b][Self].gen <= nodes[b][t].gen
          BY <2>2, <4>2, <4>3, <4>4
        <5>2. QED
          BY <1>7, <2>2, <4>4, <5>1
      <4>5. QED
        BY <4>4
    <3>3. QED
      BY <3>1, <3>2
  <2>4. QED
    BY <1>2, <2>1, <2>2, <2>3 DEF RequestInv
<1>j. QED
  BY <1>a, <1>b, <1>c, <1>d, <1>e, <1>f, <1>g, <1>h, <1>i

\* A request under way survives every new snapshot.
LEMMA NodesStep ==
  ASSUME SnapshotInv, HistoryInv, NodesInv, [Next]_vars
  PROVE  NodesInv'
<1>u. ASSUME UNCHANGED <<ids, bpc, nodes, todo>> PROVE NodesInv'
  <2>1. Listed' = Listed
    BY <1>u DEF Listed
  <2>2. QED
    BY <1>u, <2>1 DEF NodesInv, RequestInv
<1>a. CASE \E s \in Servers : (\E obj \in Choices[s] : Publish(s, obj)) \/ Revoke(s)
  BY <1>a, <1>u DEF Publish, Revoke, Change, storeVars, buildVars
<1>d. CASE Finalize \/ Reorganise \/ RollBack \/ EditFile \/ GoStale
  BY <1>d, <1>u DEF Finalize, Reorganise, RollBack, EditFile, GoStale, storeVars, buildVars
<1>e. CASE Read \/ Check \/ Confirm \/ ApplyFails
  BY <1>e, <1>u DEF Read, Check, Confirm, ApplyFails, storeVars, buildVars
<1>f. CASE Apply
  <2>1. sync = "apply" /\ UNCHANGED <<bpc, nodes, todo>>
    BY <1>f DEF Apply, buildVars
  <2>2. \A t \in Listed' : ids'[t].gen = snap.gen
    BY <1>f, AppliedRows DEF SnapshotInv
  <2>3. \A b \in Builds : \A s \in DOMAIN nodes[b] : nodes[b][s].gen <= snap.gen
    BY <2>1 DEF HistoryInv, RowTrue
  <2>4. ASSUME NEW b \in Builds PROVE RequestInv(b)'
    <3>1. RequestInv(b)
      BY DEF NodesInv
    <3>2. \A s \in DOMAIN nodes[b] : \A t \in Listed' : nodes[b][s].gen <= ids'[t].gen
      BY <2>2, <2>3
    <3>3. QED
      BY <2>1, <3>1, <3>2 DEF RequestInv
  <2>5. QED
    BY <2>4 DEF NodesInv
<1>i. CASE BuildNext
  BY <1>i, RequestStep
<1>j. CASE UNCHANGED vars
  BY <1>j, <1>u DEF vars, storeVars, buildVars
<1>k. QED
  BY <1>a, <1>d, <1>e, <1>f, <1>i, <1>j, NextSplit

\* The nodes of a released answer come from one snapshot, for any number of
\* requests and servers, provided the source never serves an earlier generation
\* than before: the Agent's own identity is read first and, once the Wrapper has
\* found it unchanged, no snapshot can have come and gone in between.
THEOREM ReleasedAlwaysOneSnapshot ==
  ASSUME ~MayRollback
  PROVE  Spec => []ReleasedOneSnapshot
<1>1. Init => OrderedInv
  <2> SUFFICES ASSUME Init PROVE OrderedInv
    OBVIOUS
  <2>1. \A g, h \in 0..gen : ~(g < h)
    BY DEF Init
  <2>2. HistoryInv
    BY <2>1 DEF Init, HistoryInv, Empty
  <2>3. NodesInv
    BY DEF Init, NodesInv, RequestInv
  <2>4. QED
    BY <2>2, <2>3 DEF OrderedInv
<1>2. SnapshotInv /\ OrderedInv /\ [Next]_vars => OrderedInv'
  BY HistoryStep, NodesStep DEF OrderedInv
<1>3. SnapshotInv /\ OrderedInv => ReleasedOneSnapshot
  <2> SUFFICES ASSUME SnapshotInv, OrderedInv, NEW b \in Builds, bpc[b] = "released",
                      NEW s \in DOMAIN nodes[b], NEW t \in DOMAIN nodes[b]
               PROVE  nodes[b][s].root = nodes[b][t].root
    BY DEF ReleasedOneSnapshot
  <2>1. nodes[b][s].gen = nodes[b][Self].gen /\ nodes[b][t].gen = nodes[b][Self].gen
    BY DEF OrderedInv, NodesInv, RequestInv
  <2>2. RowTrue(nodes[b][s]) /\ RowTrue(nodes[b][t])
    BY DEF OrderedInv, HistoryInv
  <2>3. QED
    BY <2>1, <2>2 DEF RowTrue
<1>4. QED
  BY <1>1, <1>2, <1>3, SnapshotInvariant, PTL DEF Spec
==============================================================================
