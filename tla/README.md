# A TLA+ model of the DNS service identity data plane

This project is kept beside the repository. It models the parts that keep state across
processes, messages and crashes: the Rust data plane (`rust/crates`), the Python V1 service
(`src/resolver_identity`), and the tools with which identities are published, hosts installed and
deliveries built (`tools`, `deploy/easy-install`). TLC checks the models on small instances; TLAPS
proves their safety for every instance. All paths below are relative to the repository root.

## 1. The system

A *Wrapper* in front of a recursive resolver answers a DNS client only when it holds verified
evidence of the path the resolution took. The evidence comes from *trace events* that the
resolver emits, and from signed *identities* of DNS servers that are anchored in a Registry on
a chain. Everything fails closed: without evidence the client gets SERVFAIL.

| Part | State it keeps | Operations | Talks to |
|---|---|---|---|
| Knot hook and trace producer (`resolver-trace/knot`, `ri-knot-trace-producer`) | resolution contexts by request key, event counters | begin, send, response, failure, finish, abort | the resolver's hooks; the Trace Adapter's socket, one "OK" per event |
| Trace Adapter (`ri-trace-adapter`) | SQLite spool, seen and state tables, dead letters; wake-up channel; one upload worker with provenance timers | `enqueue`, `load_batch`, `prepare_upload_batch`, `upload_batch`, `acknowledge`, `quarantine`, `quarantine_trace` | producers (Unix socket), the Agent (HTTPS, retried), the evidence store (read) |
| Agent (`ri-agent`) | none of its own; the evidence store | trace ingestion, evidence graphs, response attestations, retention | the Trace Adapter, the Wrapper, other Agents |
| Evidence store (`ri-store`) | trace events, query contexts, claims, identities, endpoint lookup, checkpoint, cache generation, evidence graphs | one SQLite transaction each | shared by Agent, Wrapper, Registry Sync and Trace Adapter |
| Wrapper (`ri-wrapper`) | transaction ID pool (active, cooling, counter), permits | `process_query`, `verify_response`, `validate_local_registry` | clients, upstream resolvers, the Agent, the evidence store |
| Registry Sync (`ri-registry-sync`) | none; the local snapshot in the store | `reconcile` at every poll | a chain adapter, the identities file, the store |
| Chain adapters (`ri-chain-adapter`) | the configured target | `read_snapshot`, `block_hash` for EVM, Norn and external signed snapshots | RPC endpoints |
| Evidence policy (`ri-core`) | none | `validate_graph` and its parts | used by Agent and Wrapper |
| Registry contract (`contracts`) | roles, Roots, anchors, endpoint bindings | publish, update, revoke, bind, unbind | publication tools |
| Publication tools (`tools/manage_v2_registry.py`) | plans, receipt journals | sign, prepare, approve, the five phases, Norn and external snapshots | the contract, through pending transactions |
| Lifecycle tool (`deploy/easy-install/product-kit/common`) | releases, current and previous pointers, install state, data marker, lock, loaded images | prepare-secrets, preflight, install, activate, rollback, uninstall, backup | Docker |
| Field renderers (`tools/manage_field_deployment.py`, `tools/manage_norn_field_delivery.py`) | bundle and release directories | validate, render, verify | inventories, evidence files, git |
| Site delivery builder (`tools/build_domain_center_site_bundle.py`) | the delivery directory | validate, build, verify | the rendered release, OCI archives, acceptance evidence, the product kit |
| Python V1 (`src/resolver_identity`) | indexer tables, trusted cache, watcher state, chain contexts | publish, verify, refresh, watch, observe a chain, release | the Registry, Agents of other resolvers |

What is hard to get right, and hard to test, in this system:

* *Durability across crashes and lost replies.* The producer is told "OK" before the Agent has
  the event, and the Agent may execute a request long after the adapter gave it up.
* *Binding an answer to its own resolution.* Identical concurrent queries differ only in a 16-bit
  transaction ID that is used again after a delay, and in the row number at registration.
* *Reading a changing snapshot.* Agent, Wrapper and Registry Sync use the same database from
  different processes without a common transaction.
* *Progress.* One upload worker, one retry loop and one atomic snapshot serve everybody: whatever
  blocks them blocks all.
* *Caches and revocation.* In V1 a query, a background refresh, the event watcher and the publisher
  change one trusted cache, the watcher following a chain that may reorganise.
* *Commands that are run again.* Publication, installation and rendering are sequences of writes
  by an operator's command that may be stopped anywhere and started again over what it left.

The hazards, each with the line where it bites and the properties that cover it, are listed in
`PROJECT.json`.

## 2. Modules

| Module | Models | Role |
|---|---|---|
| `TracePipeline` | Trace Adapter, Agent ingestion | core component |
| `TraceLog` | what readers of the evidence store may rely on | abstract specification, implemented by `TracePipeline` |
| `QueryBinding` | Wrapper, transaction IDs, contexts and claims | component |
| `RegistrySnapshot` | Registry Sync, the local snapshot, which identities a graph rests on, the Wrapper's comparison | composition of three processes on one database |
| `TrustedCache` | V1: publisher, indexer, verifier, trusted cache, coordinator, event watcher | composition of four processes on one database |
| `ChainEvidence` | V1: recursive verification chains between Agents, the Wrapper's checks and caches | component |
| `RegistryPublication` | `manage_v2_registry.py` and the contract it writes to | composition of operator, commands, transaction pools and contract |
| `HostLifecycle` | `lifecycle.py`, `load_images.py` | component |
| `FieldDelivery` | the two field renderers | component |
| `SiteBundle` | the site delivery builder | extends `FieldDelivery`, whose release it packages |
| `...Proofs` | | theorems about the module whose name they begin with, `SiteBundleProofs` also about `FieldDelivery` (section 4) |
| `MC...` | | small sets for TLC, one module for each of the above |

Operators whose comment begins with "Mutant of X" are plausible mistakes in the code of X. No
specification uses them; replacing X by one of them must make the property break that
`PROJECT.json` lists with it.

### TracePipeline

| Variable | Code |
|---|---|
| `spool`, `seen`, `state`, `dead` | the SQLite tables `trace_spool`, `trace_spool_seen`, `trace_spool_state`, `trace_dead_letter` |
| `store` | `ri_v2_trace_events` of the Agent |
| `conn`, `tokens` | a reader between its commit and its "OK"; the `mpsc` channel |
| `wpc`, `batch`, `rest`, `waiting` | the worker's place in `upload_worker`/`process_batch`, its rows, `provenance_wait_started` |
| `late` | requests whose client gave up, which the Agent may still execute |
| `source`, `expired`, `used` | the graph `find_latest_cache_source_graph` would return |
| `aged` | events outside the Agent's 300 s ingestion window |

An event is a record of its ID, trace, sequence number, kind and parent; everything else that
`validate_trace_event` looks at is the flag `valid`. A row is an event and the source graph
digest the worker may add. SQLite gives a new row the largest rowid plus one, so a rowid may be
used again. `Upload` is the whole exchange with the Agent (its checks, its transaction, its
status and the worker's reaction); `GiveUp` and `LateRequest` separate the two when the
connection fails. A busy Agent, or one whose store fails for another reason, is a request that
was given up and never executed. A crash forgets everything that is not in SQLite. The adapter
also exits on a 401 or 404 and on a cache hit without a cache object digest. The first is a wrong
configuration and has the effect of `Crash`; the second is an event that the Knot producer never
writes. A retry by the same connection after an error is `Resubmit` or a new `Enqueue`.

### QueryBinding

An exchange is one query at the resolver: an attempt of the Wrapper, or a query of another
resolver (a peer). `pc`, `up` and `tx` follow a client query through `process_query_inner`,
`active`, `cooling` and `next` are the pool, `ctx`, `rows` and `claims` the tables, `agent` and
`anchor` the Agent's work and the event it claimed. An event is the terminal event of an
exchange and is named after it, which no code can see: the properties use the name to say whose
event a claim got. All queries ask the same question in the runs, the worst case for binding.

Assumptions, each a constant of the module so that a run can drop it:

* `PromptTrace`: the last events of a transaction ID arrive before the ID is used again, also
  across a restart of the Wrapper. The code does not enforce it (the reuse delay is 5 to 300 s,
  15 s by default; the adapter retries up to 300 s). Without it an event of the ID's earlier user
  lies above the row boundary and is claimed.
* `LongRetention`: the Agent does not purge an event the adapter may still deliver again.
* `QuietPurge = FALSE`: retention does not delete the newest row. If it does, SQLite reuses the
  rowid and a registered query misses its own event, a needless SERVFAIL.
* `binding_own` has no peers: the event of a peer's query with the same transaction ID and the same
  digests of query and response could be claimed for a client query. `binding_claims` gives the
  peer an ID that the Wrapper uses too.

### RegistrySnapshot

`hist` and `gen` are the Registry's contents by generation, `height` and `fork` the finalized
checkpoint, `file` the identities file. `sync`, `snap` and `want` are one reconciliation between
its reads. `ids`, `lookup`, `cp`, `fresh` and `cacheGen` are the local snapshot, `graphs` the
stored graphs with the identities they were built from. `bpc`, `nodes`, `source`, `bgen` and
`todo` follow a graph request from the Agent's first read to the Wrapper's last comparison. The
Registry's state root is its content. Servers are numbers, and the identities file lists them in
order. Generation and height move independently, as with the Norn and external adapters (with
the EVM adapter the generation is the height). One Registry Sync runs at a time. Nodes that come
from another Agent's graph, and the comparison of heights that only matters for them, are left
out.

### TrustedCache

| Variable | Code |
|---|---|
| `chain` | the Registry's blocks, with the state after each and the event each emits |
| `idx` | the indexer's objects, proofs, lookups and endpoints |
| `pub` | `AdminPublisher.publish` in progress, one write at a time |
| `rows` | the `trusted_cache` table |
| `th` | a query and a background refresh in `ResolverVerifier`, each between two of its reads |
| `watch`, `disk` | `EventWatcher` in memory and its rows of `runtime_state` |

Every call to the database or to the Registry is a step of its own. `ReadGeneration` to
`ExpireRow` are `CacheManager.get_valid`, `ColdStart` to `StoreVerified` are `_verify_cold`,
`PollStart` to `Persist` are one `poll_web3_events` with its reorganisation check, its events, its
reconciliation and its save. The watcher may be killed anywhere and starts from what it saved.
The Merkle proof of the resolver's entry is built and verified by the operators `MerkleProof` and
`VerifyMerkleProof`. One resolver is modelled, because rows of different resolvers never meet.
Queries follow one another. The field `revived` of a row is history that no code sees: the row is
trusted because a status was written over one that was not.

### ChainEvidence

`version` and `active` are the Agents' configurations and the Registry, `thread` the observation
threads that outlive the coordinator's deadline, `context`, `highWater` and `invalidated` what
the Wrapper keeps between queries. In the signed payload the chains of the upstreams are nested in
a chain; here a chain is the sequence of its nodes in the order in which the code walks through
them, each with its depth. What is nested in a node is the stretch of deeper nodes behind it
(`Within`), its downstream chains begin one level below it (`Downs`), and to nest chains in a node is
to put it before them and them one level deeper (`Nest`). So the checks that the code makes
recursively, with a counter of nodes, are quantifiers over positions, and the proofs need no
induction over trees. `BuiltFrom` is the end of `_build_chain` in one Agent. The recursion of
`DistributedAgentVerifier` through the Agents is a stack of frames, with depth and loop checks that
live in one Agent's call only; requests fail nondeterministically.

### RegistryPublication

`plans` are the approved plans, `cmd` the command that runs (`Read`, `Send`, the wait, `Record`,
`Finish`), `pool` the transactions that were sent and not mined, by account, `journal` the receipt
files, `reg` the contract with its guards. A command that times out or is killed leaves its
transaction in the pool, where it is mined between any two later steps. `Decide` is the reading of
the contract that each phase makes before a transaction. The preparation of Norn and external
snapshots from a plan is `PrepareNorn` and `PrepareExternal`.

### HostLifecycle

The variables are the files the tool keeps (`releases`, `current`, `previous`, `file`, `data`,
`locked`), Docker's `images` and `running` services, and `op`, the run in progress with its own
copy of the state. Each write that another run can see is a step; `StepFails` is an error in one of
them, followed by the tool's own recovery (`Undo`, `RestoreDown`, `RestorePhase`,
`InstallFailed`), `Crash` a kill, after which an operator removes the lock. One run at a time: a
second one ends at the lock, and `activate` and `backup`, which take none, are left to run alone.

### FieldDelivery and SiteBundle

`dir` are the directories on the disk with their files and lists of checksums, `job` the renderer,
`artifact`, `head` and `input` the files and the commit that may change while it runs. A file's
content is where it came from: the inventory, the artifacts and the commit it was made of, so that
a checksum is an equality. The validators are predicates on inventories, manifests and OCI
archives. `SiteBundle` binds a manifest to the release's manifest, packages the hosts one by one
from archives and kit as they are then, seals and verifies the result and replaces the delivery
before. A run follows either the bundles of a site or a release with its deliveries (`Apart`), which
have no file in common. `validate_inputs` is one step, also where it reads an archive twice, once
to validate it and once for its checksum.

## 3. Runs

| Run | Properties | Instance |
|---|---|---|
| `trace_cache` | `TypeOK`, `UploadStable`, `SpoolDrains` | two traces, the second a cache hit; 2 digests, spool of 2, 1 crash, fairness |
| `trace_faults` | `StoreSound`, `NothingLost`, `DeadLetterJustified`, `SpoolInOrder`, `ImplementsLog` | 6 events, one refused, one conflicting duplicate; 2 connections, spool of 3, batches of 2, 1 crash, 1 late request |
| `binding_own` | `TxExclusive`, `OwnEvidence` | 3 identical queries, 2 IDs, 2 permits, 1 restart |
| `binding_claims` | `TypeOK`, `EventUsedOnce`, `BoundaryAdmitsOwn`, `EveryQueryAnswered` | 1 query, 1 peer query, 2 upstreams, 1 ID, 1 purge, fairness |
| `registry_sync` | `LookupSound`, `OneSnapshot`, `RevokedNotListed`, `CheckpointKept` | 2 servers, 2 changes, 2 heights, 1 reorganisation, 2 edits, rollbacks |
| `registry_release` | `TypeOK`, `ReleasedOneSnapshot`, `ValidFileSynced` | 2 servers, endpoints stay, 1 graph request at a time, 2 changes, fairness |
| `v1_cache` | `RevocationSettles`, `RevokedNeverReleased`, `EventuallyConsistent` | 2 versions that move the resolver between 2 endpoints, 3 incidents (queries, publications, revocations, reorganisations, stops, seconds), fairness |
| `v1_chain` | `ReleasedCovered`, `BuiltChainsAccepted`, `QueriesDecided` | 3 Agents with 2 configurations each, among them a ring and a URL of the wrong Agent; 2 queries, depth 3, chains of at most 3 nodes, 1 change, fairness |
| `lifecycle` | `DataOwned`, `FailedInstallKeepsCurrent`, `StartedServes`, `ImagesKept` | 3 packages of 2 versions that share an image, 3 roles, 5 runs of the tool, 2 of them killed |
| `publication` | `CompletedMatches`, `NothingLeftBound`, `SnapshotsAgree`, `RevokedForGood`, `PublicationCompletes` | 2 servers, 3 endpoints, 5 identity files (two refused), 2 plans, 2 faults, fairness |
| `publication_rerun` | `RetriesNeverConflict`, violated | the same instance |
| `field` | `VerifiedWhole`, `BundlesDisjoint`, `ReadyJustified`, `DeliveredAsValidated` | 11 site inventories (9 with a mistake), 3 releases, 6 site manifests, 4 states of archives and evidence, 3 commits, 2 runs, 1 fault |

What they show, in the order of the table: the spool loses nothing and drains; a client query is
released only on its own event and always ends; the local snapshot is one snapshot and an answer
never mixes two; in V1 a handled revocation stays in force against every verification that was
under way, and the cache agrees with the Registry in the end; a released V1 answer leaves out no
resolver on its path; a host's data never loses its owner and a failed upgrade restores what ran;
a completed publication is what the contract holds, and it can be completed after any
interruption if the phases are retried in order; whatever verifies among rendered bundles,
releases and deliveries is whole, of one origin and of the validated material.

The bounds are the smallest at which every action happens and every mutant is found: two traces so
that one can block the other; a spool and a channel that fill up; batches of two so that a batch
can be isolated; one crash and one late request because the invariants relate a state to one
earlier upload of the same row; three queries on two IDs so that an ID is used again while another
is in use; two servers so that a snapshot can be mixed; two versions and three incidents so that a
revocation meets a publication and a verification of the version before; three Agents so that a
chain is nested twice and can close a ring; five runs of the lifecycle tool so that an upgrade,
its failure, a rollback, an uninstallation and a new installation follow each other; two plans so
that an endpoint moves and a server is removed; two renders so that one replaces the other. The
proofs below remove the bounds for the properties they state; those of the pipeline also cover
late requests with cache hits, which `trace_cache` leaves out to keep its liveness check small.
The largest runs (`registry_sync`, `field`) have one and a half to two and a half million states.
Deadlock is not checked: all these systems may stop, with nothing submitted, no query, no change,
or with the bounds used up. `binding_own` uses the symmetry of its queries; no run that checks
liveness does.

### Where the code differs from what is said of it

`publication_rerun` is a finding in `PROJECT.json`: the runbooks allow an interrupted publication
to be run again from its first command, but `unbind-endpoints` takes the binding that this plan
itself has made for a conflict (`tools/manage_v2_registry.py:1003`).

The models also contain the following behaviour, which no run refutes. The properties are stated
around it, or the module's assumptions exclude it where that is said.

* Successors of a dead lettered event are answered with a retryable 503 and hold up the upload
  worker until they age, although `docs/项目技术介绍.md:153` says that an invalid event does not block
  valid ones (`ri-agent/src/lib.rs:127`).
* The registration time of a query is stored and never compared: an event of the transaction ID's
  earlier user that arrives late is claimed (excluded by `PromptTrace`).
* `docs/production_architecture.md:68-69` says that the request of a neighbouring Agent carries the
  time at which the parent event was observed and is matched within strict bounds of it. The
  requests (`ri-agent/src/lib.rs:61-79`) carry no such time and `matching_response_candidates` has
  no bound, as in `PeerCandidate`.
* An endpoint that moved to an earlier server of the identities file violates the primary key of
  the lookup table at every poll (excluded from `ValidFileSynced`).
* The stored generation is read from the first identity row, which may be that of a removed server.
* A graph built from the identities of one snapshot may be stored under the next generation.
* `get_valid` writes REFRESHING over a row that was revoked since it was read
  (`verifier/cache_manager.py:55`). Such a row is trusted again until the next reconciliation of the
  watcher; `RevocationSettles` and `RevokedNeverReleased` except it by its field `revived`, and
  nothing else: the proof shows that there is no other way back.
* A snapshot prepared for the external adapter has at most 10000 entries, a Norn snapshot any number
  (the hypothesis of `SnapshotsAlwaysAgree`).
* `start_ordered` skips the phases that the state records as ready, whichever release they were
  ready for; the state file that recovery writes drops the identity fields, and later commands end
  with STATE005 (`lifecycle.py:1005`).
* The network matrix of a Norn release pairs hosts by their position in the list.
* `verify_delivery` wants a trusted key unless it is asked for the structure alone.
  `finalize_domain_center_easy_install.py` calls it without either and can never succeed, although
  `docs/easy-install/一页纸安装卡.md:68` and `技术运维手册.md:168` tell operators to run it.
* A manual that fails to render removes the directory of the manuals, and a failed requirement
  with evidence keeps a path outside the delivery: in both cases the builder refuses its own
  result (`Seal`).
* The builder compares the product kit before and after; a change that was undone in between
  goes unnoticed, and the kit's commit is not compared with the release's. A kill between the
  removal of the old delivery and the move of the new one leaves neither.

### Fairness

* `TracePipeline`: the Tokio runtime runs the readers and the worker, so each of their steps is
  weakly fair. The Agent answers sooner or later (`Upload`). Timers are clocks: the provenance
  timer is strongly fair because its trace is at the head of the spool again and again; the
  ingestion window ends for the events that may age; the Agent purges an expired graph within a
  minute. Producers, crashes and the appearance of graphs are not fair.
* `QueryBinding`: every wait of the Wrapper has a timeout, so each step of a query or its failure
  is weakly fair. Nothing is assumed of the resolver, the Agent or the clock.
* `RegistrySnapshot`: Registry Sync polls for ever; reading the latest finalized checkpoint is
  strongly fair, the rest of a reconciliation weakly. The chain, the operator, the Agent and the
  Wrapper are not fair.
* `TrustedCache`: the watcher's loop runs and is restarted by its supervisor when it stops, and
  blocks are mined (`docker-compose.legacy-python.yml` restarts it). Queries, refreshes and
  publications may stop half way for ever.
* `ChainEvidence`: the coordinator's steps, which have a deadline. Nothing is assumed of
  observation threads and Agents.
* `RegistryPublication`: the operator retries the phase that has not ended, a command that runs goes
  on, and transactions are mined. Timeouts and kills may happen up to the bound at any time.
* `HostLifecycle`, `FieldDelivery` and `SiteBundle` have no fairness: they state safety only.

## 4. Proofs

The theorems hold for every value of the constants, that is for any number of events, queries,
servers, files, faults and so on. Each module has one inductive invariant, which TLC checked on the
instance of the module's run before it was proved; none of the properties is inductive alone.
Every invariant has one lemma for each action or each part. "From" names the assumptions beyond
the types of the constants.

| Module | Invariant | Theorems | From |
|---|---|---|---|
| `TracePipelineProofs` | `PipelineInv`, `SpoolRecorded` | `TypeCorrect`, `StoreAlwaysSound`, `NothingEverLost`, `UploadAlwaysStable`, `DeadLettersJustified`, `SpoolAlwaysInOrder`, and the refinement `StoreImplementsLog` | |
| `QueryBindingProofs` | `BindingInv` | `TypeCorrect`, `TxAlwaysExclusive` | |
| | with `UsedInv` | `EventAlwaysUsedOnce` | `LongRetention` |
| | with `BoundaryInv` | `BoundaryAlwaysAdmitsOwn` | `~QuietPurge` |
| | with `OwnInv` | `AlwaysOwnEvidence` | `PromptTrace`, `PeersApart` |
| `RegistrySnapshotProofs` | `SnapshotInv` | `TypeCorrect`, `LookupAlwaysSound`, `AlwaysOneSnapshot`, `RevokedNeverListed`, the action property `CheckpointAlwaysKept` | `GenesisAssumption` |
| | with `OrderedInv` | `ReleasedAlwaysOneSnapshot` | `~MayRollback` |
| `TrustedCacheProofs` | `CacheInv` | `RevocationAlwaysSettles`, `RevokedNeverAllowed` | |
| `HostLifecycleProofs` | `LifecycleInv` | `DataAlwaysOwned`, `FailedInstallAlwaysKeepsCurrent`, `StartedAlwaysServes`, `ImagesAlwaysKept` | |
| `ChainEvidenceProofs` | `ChainInv` (`ChainInvariant`) | `ReleasedAlwaysCovered`, `BuiltChainsAlwaysAccepted` | `Parameters` |
| `RegistryPublicationProofs` | `PublicationInv` | the action property `RevokedAlwaysForGood`; `SnapshotsAlwaysAgree` | identity files with at most `MaxEntries` identities, for the second |
| | with `TurnInv` (`TurnInvariant`) | `CompletedAlwaysMatches`, `NothingEverLeftBound` | |
| `SiteBundleProofs` | `DeliveryInv` (of `FieldDelivery`) | `VerifiedAlwaysWhole`, `BundlesAlwaysDisjoint`, `ReadyAlwaysJustified` | `SitesAssumption` |
| | with `SiteInv` | `AlwaysDeliveredAsValidated`, `RenderedBesideDelivery` | `BundleParameters` |

The arguments:

* *Pipeline.* An acknowledgement deletes rows by event ID, so nothing is lost only if the rows of an
  acknowledged batch are in the store, which in turn holds because the worker's rows are the
  spool's rows (`WorkPending`) and because event IDs name one event (`SeenRows`). An upload cannot
  conflict with an earlier copy only if no cache hit was ever sent without its source
  (`RequestSound`), since the source is the only part of a row that changes. A dead letter is
  justified because the Agent refused its row for a reason that never passes. The store is sound
  because a row is inserted only after its predecessor, in the view of its own transaction
  (`BatchKeepsStoreSound`). The spool stays in order although rowids are used again, because the
  table of sequence numbers survives the rows (`SpoolRecorded`). For the refinement a log is the
  function from sequence numbers to the rows of a trace; it is well formed because the store is
  sound, and a step extends it because rows are never deleted or changed (`StoreGrowsStep`).
* *Binding.* A claim is the attempt's own event because an ID that nobody holds is quiet: all events
  of its users have arrived and lie below the boundary of the next user (`QuietInv`). That is where
  `PromptTrace` is needed, and the only place. An event is used once because a claim lives as long as
  its row (`RowsInv`, the foreign key) and a purged event does not come back.
* *Snapshot.* What Registry Sync has checked when it writes is relative to the checkpoint that is
  still stored then (`PollInv`), so the write never goes back. A released answer is of one snapshot
  because the Agent reads its own identity first: every node was read at that generation or a later
  one, and the node that the Wrapper compares last finds the snapshot of the first (`OrderedInv`).
  Without `~MayRollback` a snapshot could come, go and come back in between.
* *Cache.* A verification that is about to store has a generation that is current, and then it has
  read the Registry after the bump of every revocation announced so far (`ThreadInv`); a revocation
  that the watcher is in the middle of leaves only rows it has still to mark (`PendingInv`). A
  reorganisation takes blocks away and gives them new names, so what the watcher knows of a block
  holds only while the block is on the chain (`KnownInv`, `ForkInv`).
* *Lifecycle.* The run's copy of the state, the state file and the marker name one installation,
  with the exceptions listed step by step (`IdInv`); the releases a pointer may name are complete
  with their images, also while an installation replaces one of them (`ReleaseInv`, `LoadedInv`).
* *Publication.* Every transaction in a pool is of a known kind with a positive version
  (`PoolInv`), and a revoked resolver has a version (`RegInv`); therefore neither `publishResolver`,
  which wants version 0, nor `updateResolver` and `publishRoot`, which look at the status, can bring
  it back, however late they are mined. That the lists of a plan hold what they should is an
  induction over its concatenations and over finite sets of servers (`FlattenType`, `SortedType`),
  made from the well-foundedness of the natural numbers (`LeastNumber`).
* *Completed publication.* `CompletedMatches` speaks of a state in which all phases have ended, and is
  not inductive: a transaction that an earlier run gave up may be mined after the phase that
  repeated it, or after a phase that undoes it. `TurnInv` says why that does no harm. Everything
  that still waits in a pool is what the newest plan wants, or what somebody did by hand, or is
  spent, that is changes nothing when it is mined (`QueuesInv`); every item of a phase that has
  ended is done (`DoneInv`); a command has done the items before the one it is at, and what it is
  about to send or waits for is for that one (`WorkInv`). These hold where every plan was carried
  out before the next one was approved (`InTurn`), which is the hypothesis of the property; a plan
  that was given up half way may leave a binding in a pool that nobody takes back. For
  `NothingLeftBound` the plans must also name one another (`Chained`): then what is bound and
  active comes from the newest plan or from the one before (`LeftInv`), and the removals of the
  newest plan name exactly the difference (`RemovalsInv`).
* *Chains.* The properties speak of a chain the Wrapper holds; the reason lies in calls of several
  Agents that were under way earlier, each under a configuration that may have changed since. In
  `ChainInv` a call without an error has for each upstream it has passed either a terminal or a
  finished chain, and nothing else (`Sound`); the last hop of a call that waits leads to the Agent
  on the frame above (`Waiting`); the chains a call holds are nested as the Wrapper will ask
  (`Forest`); a thread that has a chain has one that was built like that (`Built`). That the Wrapper
  accepts such a chain needs one more fact: its loop check is over the whole path, and each Agent's
  is only over itself. The two agree because no resolver of a finished chain without an error is one
  of the Agents that still wait (`NoneWaits`): an Agent that is reconfigured loses its calls, so a
  ring of Agents is only cut by a request that fails, and with it fails every chain on the ring.
  `ReleasedCovered` follows because each resolver on the path was verified as ACTIVE between the
  query's begin and the answer (`since`), also by a thread that outlived an earlier deadline.
* *Deliveries.* The list of checksums is written last and of files that are all of one render
  (`BundleInv`, `ReleaseInv`, `PlacedInv`), and whatever is interrupted has no list.

Only model-checked:

* liveness (`SpoolDrains`, `EveryQueryAnswered`, `ValidFileSynced`, `EventuallyConsistent`,
  `QueriesDecided`, `PublicationCompletes`): fairness is outside what the prover handles.

Every safety property of the runs that pass is a theorem.

## 5. Plan

In this order:

1. `TraceMachine`: the Knot trace producer and its connections, composed with the spool's
   sequence check (numbers assigned under a lock, written after it; aborts; "ERR").
2. `SnapshotReading`: the chain adapters' agreement of several endpoints on one finalized block.
3. `EvidencePolicy`: topology, reachability and cache provenance as operators, checked against
   reference definitions; recursion between the Rust Agents and its termination by
   `visited_server_ids`.

## 6. Not modelled, and why

DNS wire format, hashes and signatures (content is compared by identity); HTTP, TLS and tokens;
metrics, monitoring, readiness and configuration parsing; store operations that only tests call;
the V1 service's HTTP routes and its legacy discovery without chains; the installer's wizard,
status and support reports, which change nothing; the wording and layout of rendered files and
reports. The acceptance tools (`run_norn_field_acceptance.py`,
`run_production_trace_acceptance.py`, `run_multi_resolver_e2e.py`) drive a deployed system and
judge what they see: they hold no state of their own that another process could meet, and their
judgement would be a restatement of the properties above. Compose files and shell scripts are
configuration. What the plan lists is not modelled yet.
