------------------------- MODULE RegistryPublication -------------------------
(***************************************************************************)
(* Publication of an identity set to the Registry contract with            *)
(* tools/manage_v2_registry.py: the operator signs a draft, prepares a     *)
(* plan, and runs the five phases of the plan, each with the key of        *)
(* another role, any of them again after a timeout or a stopped process.   *)
(*                                                                         *)
(* A transaction that was sent is not lost when its sender stops waiting:  *)
(* it stays in the pool of its account, in nonce order, and is mined       *)
(* later, between any two steps of the commands that follow.               *)
(*                                                                         *)
(* Hashes are collision free: an identity's object hash is written as the  *)
(* identity, the Merkle root of a plan as the number of the first plan     *)
(* with the same entries.  Identities do not expire during a publication.  *)
(***************************************************************************)
EXTENDS Naturals, Sequences, FiniteSets

CONSTANTS
    Server,        \* server ids, numbers: plans are sorted by them
    Endpoint,      \* endpoint keys
    Draft,         \* unsigned identity files: a set of sequences of identities
    MaxEndpoints,  \* most endpoints of an identity (32)
    MaxEntries,    \* most entries of an external snapshot (10000)
    MaxPlans,      \* bound: plans prepared
    MaxFaults,     \* bound: timeouts, stopped processes, repeated phases, and
                   \* revocations made by hand, together
    None

ASSUME Parameters ==
    /\ Server \subseteq Nat \ {0}
    /\ IsFiniteSet(Server) /\ IsFiniteSet(Endpoint) /\ IsFiniteSet(Draft)
    /\ {MaxEndpoints, MaxEntries, MaxPlans, MaxFaults} \subseteq Nat
    /\ None \notin Server

\* An identity file is a list of records with these fields; what a value must
\* be beyond that is for ValidStructure to say.
ASSUME DraftAssumption ==
    Draft \subseteq Seq([server : Server, version : Nat, endpoints : Seq(Endpoint),
                        role : STRING, agent : BOOLEAN, status : STRING])

VARIABLES
    reg,      \* the contract: roots, anchors and endpoint bindings
    pool,     \* transactions sent and not mined, by role
    plans,    \* the approved plans, in the order they were prepared
    cmd,      \* the command that runs
    journal,  \* the receipt file of each phase
    done,     \* phases of the newest plan that ended
    carried,  \* older plans whose five phases all ended
    hand,     \* what was revoked by hand: servers and roots
    faults    \* used of MaxFaults

vars == <<reg, pool, plans, cmd, journal, done, carried, hand, faults>>

Role == {"root", "resolver", "endpoint", "revoker"}
\* The order of scripts and runbooks.
Order == <<"publish-root", "publish-resolvers", "unbind-endpoints",
           "bind-endpoints", "revoke-removed">>
Phase == {Order[i] : i \in 1..5}
RoleOf(phase) == CASE phase = "publish-root" -> "root"
                   [] phase = "publish-resolvers" -> "resolver"
                   [] phase = "revoke-removed" -> "revoker"
                   [] OTHER -> "endpoint"

\* _account: the account whose queue a command's transactions join.  A keystore
\* that cannot be read or is another sender's ends the command (see Stops).
Account(phase) == RoleOf(phase)

-----------------------------------------------------------------------------
(* Identities and plans                                                    *)

\* The key ids of the issuer bundle.
Issuers == {1}

\* verify_object_signature_with_registry: the key id names a key of the bundle.
SignatureValid(key) == key \in Issuers

Elements(s) == {s[i] : i \in DOMAIN s}
Distinct(s) == \A i, j \in DOMAIN s : s[i] = s[j] => i = j

\* What sign and prepare ask of one identity.
ValidStructure(identity) ==
    /\ identity.role \in {"RECURSIVE", "FORWARDER", "ROOT_AUTHORITY",
                          "TLD_AUTHORITY", "AUTHORITATIVE"}
    /\ identity.status = "ACTIVE"
    /\ identity.version > 0
    /\ Len(identity.endpoints) \in 1..MaxEndpoints
    /\ Distinct(identity.endpoints)
    /\ identity.role \in {"RECURSIVE", "FORWARDER"} => identity.agent

\* The issuer signs the whole file or none of it.
Signable(draft) == Len(draft) > 0 /\ \A i \in DOMAIN draft : ValidStructure(draft[i])

\* Mutant of Loadable: the owner of an endpoint is not compared across
\* identities.
LoadableShared(ids) ==
    /\ Signable(ids)
    /\ \A i, j \in DOMAIN ids : ids[i].server = ids[j].server => i = j

\* load_identities: signatures, unique servers, and one owner per endpoint.
Loadable(ids) ==
    /\ Signable(ids)
    /\ \A i, j \in DOMAIN ids :
          \/ i = j
          \/ /\ ids[i].server # ids[j].server
             /\ Elements(ids[i].endpoints) \cap Elements(ids[j].endpoints) = {}

\* sorted(S) as a sequence, for a set of numbers.
Sorted(S) == CHOOSE s \in [1..Cardinality(S) -> S] :
                \A i, j \in 1..Cardinality(S) : i < j => s[i] < s[j]
\* sorted() of a set of endpoint keys: any fixed order will do.
Listed(S) == CHOOSE s \in [1..Cardinality(S) -> S] : Distinct(s)

ServersOf(entries) == {entries[i].server : i \in DOMAIN entries}
EntryOf(entries, s) == entries[CHOOSE i \in DOMAIN entries : entries[i].server = s]
EndpointsOf(entries, s) ==
    IF s \in ServersOf(entries) THEN Elements(EntryOf(entries, s).endpoints) ELSE {}

Entries(ids) ==
    [i \in 1..Len(ids) |->
        LET id == EntryOf(ids, Sorted(ServersOf(ids))[i])
        IN  [server |-> id.server, version |-> id.version, endpoints |-> id.endpoints]]

\* The pairs one server loses, then the next one's: concatenation in server order.
Flatten(parts) ==
    LET join[n \in 0..Len(parts)] == IF n = 0 THEN <<>> ELSE join[n - 1] \o parts[n]
    IN  join[Len(parts)]

\* Mutant of Unbinds: a server that left the set keeps its endpoints.
UnbindsOfKept(old, new) ==
    LET kept == Sorted(ServersOf(old) \cap ServersOf(new))
    IN  Flatten([i \in DOMAIN kept |->
            LET lost == Listed(EndpointsOf(old, kept[i]) \ EndpointsOf(new, kept[i]))
            IN  [j \in DOMAIN lost |-> [kind |-> "unbind", server |-> kept[i],
                                         endpoint |-> lost[j]]]])

\* The endpoints the previous plan's servers have no more.
Unbinds(old, new) ==
    LET before == Sorted(ServersOf(old))
    IN  Flatten([i \in DOMAIN before |->
            LET lost == Listed(EndpointsOf(old, before[i]) \ EndpointsOf(new, before[i]))
            IN  [j \in DOMAIN lost |-> [kind |-> "unbind", server |-> before[i],
                                         endpoint |-> lost[j]]]])

\* The previous plan's servers that left the set.
Revocations(old, new) ==
    LET gone == Sorted(ServersOf(old) \ ServersOf(new))
    IN  [i \in DOMAIN gone |-> [kind |-> "revoke", server |-> gone[i], endpoint |-> None]]

\* A version above 1 needs a previous plan, whose version is lower.
Buildable(version, prev) ==
    /\ version > 0
    /\ version > 1 => prev # 0
    /\ prev # 0 => plans[prev].version < version

BuildPlan(ids, version, prev) ==
    LET new == Entries(ids)
        old == IF prev = 0 THEN <<>> ELSE plans[prev].entries
    IN  [entries |-> new, version |-> version, prev |-> prev,
         unbinds |-> Unbinds(old, new), revocations |-> Revocations(old, new)]

\* The Merkle root of the entries.
RootOf(k) ==
    CHOOSE j \in 1..k : /\ plans[j].entries = plans[k].entries
                        /\ \A i \in 1..(j - 1) : plans[i].entries # plans[k].entries

\* A snapshot carries the entries of an approved plan, with a version, the block
\* it was taken at and the time it is good for.  A Norn snapshot:
NornSnapshot(plan, version, block) ==
    [kind |-> "norn", entries |-> plan.entries, version |-> version, checkpoint |-> block,
     status |-> "ACTIVE", published |-> 1, until |-> 2]

NornShape(snapshot) ==
    /\ snapshot.kind = "norn" /\ snapshot.status = "ACTIVE"
    /\ snapshot.version > 0 /\ snapshot.checkpoint > 0
    /\ snapshot.until > snapshot.published
    /\ snapshot.entries # <<>>
    /\ \A i, j \in DOMAIN snapshot.entries :
          i < j => snapshot.entries[i].server < snapshot.entries[j].server

\* An external one names its driver and its signer in the target, the version is
\* its generation, and the checkpoint has a kind of finality.
ExternalSnapshot(plan, version, block, signer) ==
    [kind |-> "external", entries |-> plan.entries, generation |-> version,
     target |-> [adapter |-> "external", signer |-> signer],
     checkpoint |-> [number |-> block, finality |-> "external-signed-checkpoint"],
     issuer |-> signer, status |-> "ACTIVE", published |-> 1, until |-> 2]

\* Only here the owners of the endpoints are compared.
ExternalShape(snapshot) ==
    /\ snapshot.kind = "external" /\ snapshot.status = "ACTIVE"
    /\ snapshot.target.adapter = "external" /\ snapshot.target.signer = snapshot.issuer
    /\ snapshot.checkpoint.finality = "external-signed-checkpoint"
    /\ snapshot.generation > 0 /\ snapshot.checkpoint.number > 0
    /\ snapshot.until > snapshot.published
    /\ Len(snapshot.entries) \in 1..MaxEntries
    /\ \A i \in DOMAIN snapshot.entries :
          /\ snapshot.entries[i].version > 0
          /\ Len(snapshot.entries[i].endpoints) \in 1..MaxEndpoints
          /\ Distinct(snapshot.entries[i].endpoints)
    /\ \A i, j \in DOMAIN snapshot.entries :
          i < j => /\ snapshot.entries[i].server < snapshot.entries[j].server
                   /\ Elements(snapshot.entries[i].endpoints)
                        \cap Elements(snapshot.entries[j].endpoints) = {}

\* The two prepare commands write a snapshot that has the right shape and whose
\* signature the issuer bundle verifies, or nothing.
Prepared(snapshot, shape, signer) == IF shape /\ SignatureValid(signer) THEN {snapshot} ELSE {}

PrepareNorn(plan, version, block, signer) ==
    LET snapshot == NornSnapshot(plan, version, block)
    IN  Prepared(snapshot, NornShape(snapshot), signer)

PrepareExternal(plan, version, block, signer) ==
    LET snapshot == ExternalSnapshot(plan, version, block, signer)
    IN  Prepared(snapshot, ExternalShape(snapshot), signer)

-----------------------------------------------------------------------------
(* The contract                                                            *)

NoRoot == [status |-> "UNKNOWN", version |-> 0]
NoAnchor == [status |-> "UNKNOWN", version |-> 0, endpoints |-> <<>>, root |-> 0]

\* Mutant of AcceptsUpdate: an update may bring a revoked resolver back.
AcceptsAnyUpdate(tx) ==
    /\ reg.root[tx.root].status = "ACTIVE"
    /\ reg.anchor[tx.server].version # 0
    /\ tx.version > reg.anchor[tx.server].version

\* updateResolver.
AcceptsUpdate(tx) ==
    /\ reg.root[tx.root].status = "ACTIVE"
    /\ reg.anchor[tx.server].version # 0
    /\ reg.anchor[tx.server].status # "REVOKED"
    /\ tx.version > reg.anchor[tx.server].version

\* publishRoot, publishResolver, revokeResolver, revokeRoot, bindEndpoint and
\* unbindEndpoint: what each requires.
Accepts(tx) ==
    CASE tx.kind = "root" ->
            /\ reg.root[tx.root].status # "REVOKED"
            /\ tx.version > reg.root[tx.root].version
      [] tx.kind = "publish" ->
            /\ reg.root[tx.root].status = "ACTIVE"
            /\ reg.anchor[tx.server].version = 0
      [] tx.kind = "update" -> AcceptsUpdate(tx)
      [] tx.kind = "revoke" -> reg.anchor[tx.server].version # 0
      [] tx.kind = "revoke-root" -> reg.root[tx.root].version # 0
      [] tx.kind = "bind" ->
            /\ reg.anchor[tx.server].status = "ACTIVE"
            /\ reg.bound[tx.endpoint] \in {None, tx.server}
      [] tx.kind = "unbind" -> reg.bound[tx.endpoint] # None

Applied(tx) ==
    CASE tx.kind = "root" ->
            [reg EXCEPT !.root[tx.root] = [status |-> "ACTIVE", version |-> tx.version]]
      [] tx.kind \in {"publish", "update"} ->
            [reg EXCEPT !.anchor[tx.server] =
                [status |-> "ACTIVE", version |-> tx.version,
                 endpoints |-> tx.endpoints, root |-> tx.root]]
      [] tx.kind = "revoke" -> [reg EXCEPT !.anchor[tx.server].status = "REVOKED"]
      [] tx.kind = "revoke-root" -> [reg EXCEPT !.root[tx.root].status = "REVOKED"]
      [] tx.kind = "bind" -> [reg EXCEPT !.bound[tx.endpoint] = tx.server]
      [] tx.kind = "unbind" -> [reg EXCEPT !.bound[tx.endpoint] = None]

-----------------------------------------------------------------------------
(* The five phases                                                         *)

Newest == Len(plans)

\* What a phase goes through, in order: the checks and the objects it writes.
Work(k, phase) ==
    LET entries == plans[k].entries
        item(kind, s) == [kind |-> kind, server |-> s, endpoint |-> None]
    IN  CASE phase = "publish-root" -> <<item("root", None)>>
          [] phase = "publish-resolvers" ->
                <<item("root-active", None)>>
                  \o [i \in DOMAIN entries |-> item("resolver", entries[i].server)]
          [] phase = "unbind-endpoints" -> plans[k].unbinds
          [] phase = "bind-endpoints" ->
                Flatten([i \in DOMAIN entries |->
                    <<item("anchored", entries[i].server)>>
                      \o [j \in DOMAIN entries[i].endpoints |->
                            [kind |-> "bind", server |-> entries[i].server,
                             endpoint |-> entries[i].endpoints[j]]]])
          [] phase = "revoke-removed" -> plans[k].revocations

Skip == [kind |-> "skip"]
Conflict == [kind |-> "conflict"]

\* The transaction for an item.
Tx(k, kind, item) ==
    CASE kind = "root" -> [kind |-> kind, root |-> RootOf(k), version |-> plans[k].version]
      [] kind \in {"publish", "update"} ->
            LET e == EntryOf(plans[k].entries, item.server)
            IN  [kind |-> kind, server |-> item.server, root |-> RootOf(k),
                 version |-> e.version, endpoints |-> e.endpoints]
      [] OTHER -> [kind |-> kind, server |-> item.server, endpoint |-> item.endpoint]

\* publish_root.
DecideRoot(k, item) ==
    LET record == reg.root[RootOf(k)]
    IN  IF record.status = "REVOKED" THEN Conflict
        ELSE IF record.status = "ACTIVE"
             THEN IF record.version = plans[k].version THEN Skip ELSE Conflict
             ELSE Tx(k, "root", item)

\* publish_resolvers, one entry.
DecideResolver(k, item) ==
    LET current == reg.anchor[item.server]
        entry == EntryOf(plans[k].entries, item.server)
    IN  IF current.version = 0 THEN Tx(k, "publish", item)
        ELSE IF current.version < entry.version THEN Tx(k, "update", item)
        ELSE IF current = [status |-> "ACTIVE", version |-> entry.version,
                           endpoints |-> entry.endpoints, root |-> RootOf(k)]
             THEN Skip ELSE Conflict

\* bind_endpoints looks at the entry's anchor once, before its endpoints.
DecideAnchored(k, item) ==
    LET current == reg.anchor[item.server]
        entry == EntryOf(plans[k].entries, item.server)
    IN  IF /\ current.version = entry.version /\ current.endpoints = entry.endpoints
           /\ current.root = RootOf(k) /\ current.status = "ACTIVE"
        THEN Skip ELSE Conflict

\* Mutant of DecideBind: an endpoint that is bound already is taken as done,
\* whoever owns it.
DecideBindAny(k, item) ==
    IF reg.bound[item.endpoint] = None THEN Tx(k, "bind", item) ELSE Skip

DecideBind(k, item) ==
    IF reg.bound[item.endpoint] \notin {None, item.server} THEN Conflict
    ELSE IF reg.bound[item.endpoint] = None THEN Tx(k, "bind", item) ELSE Skip

\* Mutant of DecideUnbind: a binding that is gone already is an error.
DecideUnbindStrict(k, item) ==
    IF reg.bound[item.endpoint] # item.server THEN Conflict ELSE Tx(k, "unbind", item)

DecideUnbind(k, item) ==
    IF reg.bound[item.endpoint] = None THEN Skip
    ELSE IF reg.bound[item.endpoint] # item.server THEN Conflict
    ELSE Tx(k, "unbind", item)

DecideRevoke(k, item) ==
    IF reg.anchor[item.server].version = 0 THEN Conflict
    ELSE IF reg.anchor[item.server].status = "REVOKED" THEN Skip
    ELSE Tx(k, "revoke", item)

Decide(k, item) ==
    CASE item.kind = "root" -> DecideRoot(k, item)
      [] item.kind = "root-active" ->
            IF reg.root[RootOf(k)].status = "ACTIVE" THEN Skip ELSE Conflict
      [] item.kind = "resolver" -> DecideResolver(k, item)
      [] item.kind = "anchored" -> DecideAnchored(k, item)
      [] item.kind = "bind" -> DecideBind(k, item)
      [] item.kind = "unbind" -> DecideUnbind(k, item)
      [] item.kind = "revoke" -> DecideRevoke(k, item)

-----------------------------------------------------------------------------
(* Commands                                                                *)

NoCommand == [pc |-> "idle", plan |-> 0, phase |-> "none", at |-> 0,
              tx |-> Skip, ahead |-> 0]
Stopped(why) == [NoCommand EXCEPT !.pc = why, !.phase = cmd.phase]
Ready == cmd.pc \in {"idle", "failed", "conflict"}
NoReceipts == [plan |-> 0, items |-> {}]
Todo == Work(cmd.plan, cmd.phase)

\* sign, prepare and the approval of the plan's hash.
Prepare(draft, version, prev) ==
    /\ Ready /\ Newest < MaxPlans
    /\ Loadable(draft)
    /\ Buildable(version, prev)
    /\ plans' = Append(plans, BuildPlan(draft, version, prev))
    /\ carried' = IF done = Phase THEN carried \cup {Newest} ELSE carried
    /\ done' = {}
    /\ UNCHANGED <<reg, pool, cmd, journal, hand, faults>>

\* The operator moves the receipt files of an older plan away.
Archive ==
    /\ Ready
    /\ \E phase \in Phase : journal[phase].plan \notin {0, Newest}
    /\ journal' = [phase \in Phase |->
                     IF journal[phase].plan = Newest THEN journal[phase] ELSE NoReceipts]
    /\ UNCHANGED <<reg, pool, plans, cmd, done, carried, hand, faults>>

\* A phase starts: the plan's hash and target match, and the receipt file is
\* absent or belongs to this phase of this plan.
Start(phase) ==
    /\ Newest > 0
    /\ journal[phase].plan \in {0, Newest}
    /\ cmd' = [NoCommand EXCEPT !.pc = "read", !.plan = Newest, !.phase = phase, !.at = 1]
    /\ UNCHANGED <<reg, pool, plans, journal, done, carried, hand>>

\* The operator goes on with the first phase that has not ended.
StartNext ==
    /\ Ready /\ done # Phase
    /\ \E i \in 1..5 : /\ Order[i] \notin done
                       /\ \A j \in 1..(i - 1) : Order[j] \in done
                       /\ Start(Order[i])
    /\ UNCHANGED faults

\* Or runs another phase again, or too early.
StartOther(phase) ==
    /\ Ready /\ faults < MaxFaults
    /\ Start(phase)
    /\ faults' = faults + 1

\* The object is read from the Registry, and what to do is decided.
Read ==
    /\ cmd.pc = "read" /\ cmd.at <= Len(Todo)
    /\ LET tx == Decide(cmd.plan, Todo[cmd.at])
       IN  cmd' = CASE tx = Skip -> [cmd EXCEPT !.at = @ + 1]
                    [] tx = Conflict -> Stopped("conflict")
                    [] OTHER -> [cmd EXCEPT !.pc = "send", !.tx = tx]
    /\ UNCHANGED <<reg, pool, plans, journal, done, carried, hand, faults>>

\* The transaction is built, which estimates its gas on the latest state and
\* fails where the contract would refuse it, and sent with the next nonce of
\* the account, pending transactions counted.
Send ==
    /\ cmd.pc = "send"
    /\ LET role == Account(cmd.phase)
       IN  \/ /\ ~Accepts(cmd.tx)
              /\ cmd' = Stopped("failed")
              /\ UNCHANGED pool
           \/ /\ Accepts(cmd.tx)
              /\ pool' = [pool EXCEPT ![role] = Append(@, cmd.tx)]
              /\ cmd' = [cmd EXCEPT !.pc = "wait", !.ahead = Len(pool[role])]
    /\ UNCHANGED <<reg, plans, journal, done, carried, hand, faults>>

Without(s, n) == SubSeq(s, 1, n - 1) \o SubSeq(s, n + 1, Len(s))

\* Nonces: the oldest transaction of an account is mined first.
Minable(role) == IF pool[role] = <<>> THEN {} ELSE {1}

\* A transaction is mined; one that the contract refuses by now has a receipt
\* with status 0, and its sender fails.
Mine(role) ==
    /\ \E n \in Minable(role) :
          LET tx == pool[role][n]
              ok == Accepts(tx)
              mine == cmd.pc = "wait" /\ Account(cmd.phase) = role
          IN  /\ pool' = [pool EXCEPT ![role] = Without(@, n)]
              /\ reg' = IF ok THEN Applied(tx) ELSE reg
              /\ cmd' = CASE mine /\ cmd.ahead = n - 1 ->
                                IF ok THEN [cmd EXCEPT !.pc = "record", !.ahead = 0]
                                ELSE Stopped("failed")
                          [] mine /\ cmd.ahead > n - 1 -> [cmd EXCEPT !.ahead = @ - 1]
                          [] OTHER -> cmd
    /\ UNCHANGED <<plans, journal, done, carried, hand, faults>>

\* The receipt goes to the journal, which is written at once.
Record ==
    /\ cmd.pc = "record"
    /\ journal' = [journal EXCEPT ![cmd.phase] =
                     [plan |-> cmd.plan, items |-> @.items \cup {Todo[cmd.at]}]]
    /\ cmd' = [cmd EXCEPT !.pc = "read", !.at = @ + 1, !.tx = Skip]
    /\ UNCHANGED <<reg, pool, plans, done, carried, hand, faults>>

\* Everything is done: the file is written once more, also without receipts.
Finish ==
    /\ cmd.pc = "read" /\ cmd.at > Len(Todo)
    /\ journal' = [journal EXCEPT ![cmd.phase] = [plan |-> cmd.plan, items |-> @.items]]
    /\ done' = done \cup {cmd.phase}
    /\ cmd' = NoCommand
    /\ UNCHANGED <<reg, pool, plans, carried, hand, faults>>

\* The receipt does not come in transaction_timeout_seconds, the RPC endpoint
\* fails or the process stops; what was sent stays in the pool.
Stops ==
    /\ ~Ready
    /\ faults < MaxFaults
    /\ faults' = faults + 1
    /\ cmd' = Stopped("failed")
    /\ UNCHANGED <<reg, pool, plans, journal, done, carried, hand>>

\* revoke-resolver and revoke-root, by the Revoker, beside the publication.
RevokeResolver(s) ==
    /\ faults < MaxFaults
    /\ LET tx == [kind |-> "revoke", server |-> s, endpoint |-> None]
       IN  /\ Accepts(tx)
           /\ pool' = [pool EXCEPT !["revoker"] = Append(@, tx)]
    /\ hand' = [hand EXCEPT !.servers = @ \cup {s}]
    /\ faults' = faults + 1
    /\ UNCHANGED <<reg, plans, cmd, journal, done, carried>>

RevokeRoot(k) ==
    /\ faults < MaxFaults
    /\ LET tx == [kind |-> "revoke-root", root |-> k]
       IN  /\ Accepts(tx)
           /\ pool' = [pool EXCEPT !["revoker"] = Append(@, tx)]
    /\ hand' = [hand EXCEPT !.roots = @ \cup {k}]
    /\ faults' = faults + 1
    /\ UNCHANGED <<reg, plans, cmd, journal, done, carried>>

Init ==
    /\ reg = [root |-> [k \in 1..MaxPlans |-> NoRoot],
              anchor |-> [s \in Server |-> NoAnchor],
              bound |-> [e \in Endpoint |-> None]]
    /\ pool = [role \in Role |-> <<>>]
    /\ plans = <<>>
    /\ cmd = NoCommand
    /\ journal = [phase \in Phase |-> NoReceipts]
    /\ done = {} /\ carried = {}
    /\ hand = [servers |-> {}, roots |-> {}]
    /\ faults = 0

Next ==
    \/ \E draft \in Draft, version \in 1..MaxPlans, prev \in 0..Newest :
          Prepare(draft, version, prev)
    \/ Archive \/ StartNext
    \/ \E phase \in Phase : StartOther(phase)
    \/ Read \/ Send \/ Record \/ Finish \/ Stops
    \/ \E role \in Role : Mine(role)
    \/ \E s \in Server : RevokeResolver(s)
    \/ \E k \in 1..MaxPlans : RevokeRoot(k)

Spec == Init /\ [][Next]_vars

\* The operator retries, commands run, and what was sent is mined.
Fairness ==
    /\ WF_vars(Archive \/ StartNext \/ Read \/ Send \/ Record \/ Finish)
    /\ WF_vars(\E role \in Role : Mine(role))

FairSpec == Spec /\ Fairness

-----------------------------------------------------------------------------
(* Properties                                                              *)

Completed == Newest > 0 /\ done = Phase

\* Nobody went on to the next plan before the one before had been carried out.
InTurn == \A k \in 1..(Newest - 1) : k \in carried

\* When the five phases of the newest plan have ended, in whatever order and
\* after whatever timeouts and repetitions, the Registry says what the plan
\* says: the root at its version, every entry anchored under it, every
\* endpoint bound to its server, nothing bound to a server that gave it up,
\* and the removed servers revoked, except for what was revoked by hand.
\* It stays so: no transaction left in a pool undoes it.  (An older plan that
\* was given up with a binding in the pool is another matter: unbind-endpoints
\* finds nothing to remove, and the binding comes afterwards.)
CompletedMatches ==
    Completed /\ InTurn =>
        LET plan == plans[Newest]
        IN  /\ reg.root[RootOf(Newest)].version = plan.version
            /\ reg.root[RootOf(Newest)].status = "ACTIVE" \/ RootOf(Newest) \in hand.roots
            /\ \A i \in DOMAIN plan.entries :
                  LET entry == plan.entries[i]
                      anchor == reg.anchor[entry.server]
                  IN  /\ anchor.version = entry.version /\ anchor.endpoints = entry.endpoints
                      /\ anchor.root = RootOf(Newest)
                      /\ anchor.status = "ACTIVE" \/ entry.server \in hand.servers
                      /\ \A e \in Elements(entry.endpoints) : reg.bound[e] = entry.server
            /\ \A i \in DOMAIN plan.unbinds :
                  reg.bound[plan.unbinds[i].endpoint] # plan.unbinds[i].server
            /\ \A i \in DOMAIN plan.revocations :
                  reg.anchor[plan.revocations[i].server].status = "REVOKED"

\* Plans that were prepared one from the other.
Chained == InTurn /\ \A k \in 1..Newest : plans[k].prev = k - 1

\* What the runbook asks of a plan: a known server has a higher version, a
\* removed one is not used again, and nothing was revoked by hand.
Publishable ==
    /\ Chained
    /\ hand = [servers |-> {}, roots |-> {}]
    /\ \A k \in 1..(Newest - 1) : \A s \in ServersOf(plans[Newest].entries) :
          /\ s \in ServersOf(plans[k].entries) =>
                EntryOf(plans[k].entries, s).version < EntryOf(plans[Newest].entries, s).version
          /\ \A i \in DOMAIN plans[k].revocations : plans[k].revocations[i].server # s

\* Removals are computed from the previous plan and not from the Registry.
\* They are complete all the same where each plan names the one before it and
\* that one was carried out: then every endpoint that is bound belongs to the
\* newest plan, and so does every resolver that is active, so that no endpoint
\* leads to a resolver that was removed.
NothingLeftBound ==
    Completed /\ Chained =>
        LET entries == plans[Newest].entries
        IN  /\ \A e \in Endpoint : reg.bound[e] # None =>
                  e \in EndpointsOf(entries, reg.bound[e])
            /\ \A s \in Server : reg.anchor[s].status = "ACTIVE" => s \in ServersOf(entries)

\* The two kinds of snapshot agree on every approved plan: what can be prepared as
\* one can be prepared as the other, with the same entries, although only the
\* external one looks for endpoints with two owners; so no snapshot is signed
\* that answers a lookup in two ways (manage_v2_registry.py:608, 492).
SnapshotsAgree ==
    \A k \in 1..Newest, version \in 0..1, block \in 0..1, signer \in Issuers \cup {0} :
        {x.entries : x \in PrepareNorn(plans[k], version, block, signer)}
          = {x.entries : x \in PrepareExternal(plans[k], version, block, signer)}

\* What was revoked, by a plan or by hand, is never active again, whichever
\* plan is published later and whichever transaction was under way.
RevokedForGood ==
    [][ /\ \A s \in Server : reg.anchor[s].status = "REVOKED"
                               => reg'.anchor[s].status = "REVOKED"
        /\ \A k \in 1..MaxPlans : reg.root[k].status = "REVOKED"
                               => reg'.root[k].status = "REVOKED" ]_reg

\* bind-endpoints was run before unbind-endpoints had ended, and has bound an
\* endpoint that the plan moves from one server to another.
Misordered ==
    /\ Newest > 0 /\ "unbind-endpoints" \notin done
    /\ \E i \in DOMAIN plans[Newest].unbinds :
          reg.bound[plans[Newest].unbinds[i].endpoint]
              \notin {None, plans[Newest].unbinds[i].server}

\* A plan that raises the version of every server, names the plan before it
\* and meets no revocation can be carried out: retrying the phase that has not
\* ended gets to the end of the plan, timeouts, stopped commands and repeated
\* phases notwithstanding, unless endpoints were bound before the old bindings
\* had been removed.
PublicationCompletes ==
    \A k \in 1..MaxPlans :
        (Newest = k) ~> (Completed \/ Newest > k \/ ~Publishable \/ Misordered)

\* The five commands may be repeated: a phase of a plan never stops with a
\* conflict when the phases before it have ended and nothing but this chain of
\* plans was ever published.
RetriesNeverConflict ==
    ~ /\ cmd.pc = "conflict" /\ Publishable /\ ~Misordered
      /\ \A i, j \in 1..5 : cmd.phase = Order[i] /\ j < i => Order[j] \in done

=============================================================================
