---------------------------- MODULE TracePipeline ----------------------------
(***************************************************************************)
(* The Trace Adapter and the Agent's trace ingestion.                      *)
(*                                                                         *)
(* Producer connections append events to the durable spool (SQLite) and    *)
(* are told "OK" once the event is committed.  One upload worker reads the *)
(* spool in rowid order, completes cache hits with the digest of their     *)
(* source graph, posts batches to the Agent and deletes what the Agent     *)
(* accepted or moves what it refused to the dead letter table.  The Agent  *)
(* checks every event of a batch and appends the batch to its evidence     *)
(* store in one transaction.                                               *)
(*                                                                         *)
(* The spool, the seen and state tables, the dead letters and the store    *)
(* survive a crash of the adapter; connections, wake-up tokens, the        *)
(* worker's batch and its provenance timers do not.  A request whose       *)
(* client gave up may still be executed by the Agent later.                *)
(***************************************************************************)
EXTENDS Naturals, FiniteSets, Functions

CONSTANTS
  Events,         \* the events a producer may submit, valid or not
  Conns,          \* producer connections
  Digests,        \* digests of source graphs
  NoDigest,       \* an event without source_graph_digest
  NoParent,       \* an event without parent_event_id
  MaxEvents,      \* RI_TRACE_SPOOL_MAX_EVENTS
  BatchSize,      \* RI_TRACE_BATCH_SIZE
  QueueCapacity,  \* RI_TRACE_QUEUE_CAPACITY
  MaxLate,        \* bound: requests abandoned by the client and still in flight
  MaxCrashes,     \* bound: crashes of the adapter
  MayAge          \* events that may leave the Agent's 300 s ingestion window

Traces == {e.trace : e \in Events}
Kinds == {"CLIENT_QUERY", "CACHE_HIT", "UPSTREAM", "CLIENT_RESPONSE", "RESOLUTION_FAILED"}
Terminal(e) == e.kind \in {"CLIENT_RESPONSE", "RESOLUTION_FAILED"}

\* A row is an event's JSON as the spool or the store holds it: the submitted
\* event and its source graph digest, which the worker may fill in.
Rows == [ev : Events, src : Digests \cup {NoDigest}]
Raw(e) == [ev |-> e, src |-> NoDigest]

\* A table maps rowids to rows; a batch is a part of the spool table.
IsTable(f) == DOMAIN f \subseteq Nat \ {0} /\ \A i \in DOMAIN f : f[i] \in Rows
Empty == [i \in {} |-> i]
First(f, i) == i \in DOMAIN f /\ \A j \in DOMAIN f : i <= j
Keep(f, S) == Restrict(f, S \cap DOMAIN f)
Ids(f) == {f[i].ev.id : i \in DOMAIN f}
Without(f, ids) == Keep(f, {i \in DOMAIN f : f[i].ev.id \notin ids})

\* "valid" stands for the Agent's checks of the event's own fields.
ASSUME EventsAssumption ==
  \A e \in Events : /\ e.seq \in Nat \ {0}
                    /\ e.kind \in Kinds
                    /\ e.valid \in BOOLEAN
ASSUME DigestAssumption == NoDigest \notin Digests
ASSUME BoundsAssumption ==
  /\ MaxEvents \in Nat \ {0} /\ BatchSize \in Nat \ {0}
  /\ QueueCapacity \in Nat \ {0}
  /\ MaxLate \in Nat /\ MaxCrashes \in Nat
ASSUME MayAgeAssumption == MayAge \subseteq Events

VARIABLES
  spool,      \* trace_spool: pending rows by rowid
  seen,       \* trace_spool_seen: every event ever accepted
  state,      \* trace_spool_state: last sequence and terminal flag of a trace
  dead,       \* trace_dead_letter
  store,      \* ri_v2_trace_events of the Agent
  conn,       \* the connections between a commit and their "OK"
  tokens,     \* wake-up tokens in the channel to the worker
  wpc,        \* where the worker is
  batch,      \* rows of the worker's current request
  rest,       \* rows still to be sent one by one after a rejected batch
  waiting,    \* events in provenance_wait_started
  late,       \* requests given up by the client, not yet executed
  source,     \* latest source graph for the cache object, or NoDigest
  expired,    \* that graph's expires_at has passed
  used,       \* digests of graphs already created
  aged,       \* events older than the ingestion window
  crashes

spoolVars == <<spool, seen, state, dead>>
workerVars == <<wpc, batch, rest, waiting>>
sourceVars == <<source, expired, used>>
vars == <<spoolVars, conn, workerVars, sourceVars, store, tokens, late, aged, crashes>>

TypeOK ==
  /\ IsTable(spool)
  /\ seen \subseteq Events
  /\ state \in [Traces -> [last : Nat, terminal : BOOLEAN]]
  /\ dead \subseteq Rows
  /\ store \subseteq Rows
  /\ conn \in [Conns -> {"reading", "committed"}]
  /\ tokens \in 0..QueueCapacity
  /\ wpc \in {"load", "wait", "prepare", "upload", "acknowledge", "quarantine"}
  /\ IsTable(batch)
  /\ IsTable(rest)
  /\ waiting \subseteq Events
  /\ \A b \in late : IsTable(b)
  /\ source \in Digests \cup {NoDigest}
  /\ expired \in BOOLEAN
  /\ used \subseteq Digests
  /\ aged \subseteq MayAge
  /\ crashes \in 0..MaxCrashes

Init ==
  /\ spool = Empty /\ seen = {} /\ dead = {} /\ store = {}
  /\ state = [t \in Traces |-> [last |-> 0, terminal |-> FALSE]]
  /\ conn = [c \in Conns |-> "reading"] /\ tokens = 0
  /\ wpc = "load" /\ batch = Empty /\ rest = Empty /\ waiting = {}
  /\ late = {} /\ source = NoDigest /\ expired = FALSE /\ used = {}
  /\ aged = {} /\ crashes = 0

-----------------------------------------------------------------------------
(* Producer connections: read_events and TraceSpool::enqueue.              *)

\* The checks of enqueue on an event that was not seen before.
Enqueueable(e) ==
  /\ \A s \in seen : s.id # e.id
  /\ Cardinality(DOMAIN spool) < MaxEvents
  /\ ~state[e.trace].terminal
  /\ e.seq = state[e.trace].last + 1
  /\ e.seq = 1 => e.kind = "CLIENT_QUERY" /\ e.parent = NoParent
  /\ e.seq > 1 => \E p \in seen : p.id = e.parent /\ p.trace = e.trace /\ p.seq < e.seq

\* Mutant of IsNextRowid: a new row fills the gap that an acknowledged one left.
IsLowestFreeRowid(n) == n \notin DOMAIN spool /\ \A i \in 1..(n - 1) : i \in DOMAIN spool

\* SQLite numbers a row one past the largest rowid in the table.
IsNextRowid(n) ==
  /\ \A i \in DOMAIN spool : i < n
  /\ n = 1 \/ n - 1 \in DOMAIN spool

\* The transaction commits the pending row, the seen row and the trace's state.
Enqueue(c, e) ==
  /\ conn[c] = "reading"
  /\ Enqueueable(e)
  /\ \E n \in 1..(Cardinality(Events) + 1) :
       /\ IsNextRowid(n)
       /\ spool' = [i \in DOMAIN spool \cup {n} |-> IF i = n THEN Raw(e) ELSE spool[i]]
  /\ seen' = seen \cup {e}
  /\ state' = [state EXCEPT ![e.trace] = [last |-> e.seq, terminal |-> Terminal(e)]]
  /\ conn' = [conn EXCEPT ![c] = "committed"]
  /\ UNCHANGED <<dead, workerVars, sourceVars, store, tokens, late, aged, crashes>>

\* A retransmission of the same JSON is accepted and changes nothing durable.
Resubmit(c, e) ==
  /\ conn[c] = "reading"
  /\ e \in seen
  /\ conn' = [conn EXCEPT ![c] = "committed"]
  /\ UNCHANGED <<spoolVars, workerVars, sourceVars, store, tokens, late, aged, crashes>>

\* Mutant of SendToken: the token does not wait for room in the channel.
SendTokenUnbounded(c) ==
  /\ conn[c] = "committed"
  /\ tokens' = tokens + 1
  /\ conn' = [conn EXCEPT ![c] = "reading"]
  /\ UNCHANGED <<spoolVars, workerVars, sourceVars, store, late, aged, crashes>>

\* sender.send(()) waits for room in the channel; then "OK event_id" is written.
SendToken(c) ==
  /\ conn[c] = "committed"
  /\ tokens < QueueCapacity
  /\ tokens' = tokens + 1
  /\ conn' = [conn EXCEPT ![c] = "reading"]
  /\ UNCHANGED <<spoolVars, workerVars, sourceVars, store, late, aged, crashes>>

-----------------------------------------------------------------------------
(* The upload worker.                                                      *)

\* SELECT ... ORDER BY rowid LIMIT batch_size
LoadBatch ==
  Keep(spool, {i \in DOMAIN spool : Cardinality({j \in DOMAIN spool : j < i}) < BatchSize})

\* Mutant of Load: the worker waits for a token although rows are pending.
LoadAfterToken ==
  /\ wpc = "load"
  /\ batch' = Empty
  /\ wpc' = "wait"
  /\ UNCHANGED <<spoolVars, conn, rest, waiting, sourceVars, store, tokens, late, aged, crashes>>

Load ==
  /\ wpc = "load"
  /\ batch' = LoadBatch
  /\ wpc' = IF DOMAIN LoadBatch = {} THEN "wait" ELSE "prepare"
  /\ UNCHANGED <<spoolVars, conn, rest, waiting, sourceVars, store, tokens, late, aged, crashes>>

\* recv() on an empty spool, then up to flush_interval of further tokens.
Wake ==
  /\ wpc = "wait"
  /\ \E left \in 0..tokens : left < tokens /\ tokens' = left
  /\ batch' = LoadBatch
  /\ wpc' = "prepare"
  /\ UNCHANGED <<spoolVars, conn, rest, waiting, sourceVars, store, late, aged, crashes>>

NeedsSource(r) == r.ev.kind = "CACHE_HIT" /\ r.src = NoDigest
Unsourced(i) == wpc = "prepare" /\ First(batch, i) /\ NeedsSource(batch[i])
Sendable == {i \in DOMAIN batch : \A j \in DOMAIN batch : j <= i => ~NeedsSource(batch[j])}

\* No cache hit to complete at the head: send the rows before the first one.
\* A wake-up without news sends an empty batch.
Prepare ==
  /\ wpc = "prepare"
  /\ Sendable # {} \/ DOMAIN batch = {}
  /\ batch' = Keep(batch, Sendable)
  /\ wpc' = "upload"
  /\ UNCHANGED <<spoolVars, conn, rest, waiting, sourceVars, store, tokens, late, aged, crashes>>

\* Mutant of Enrich: the completed event is sent but not written to the spool.
EnrichInMemory ==
  /\ source # NoDigest /\ ~expired
  /\ \E i \in DOMAIN batch :
       /\ Unsourced(i)
       /\ batch' = [k \in {i} |-> [batch[i] EXCEPT !.src = source]]
       /\ waiting' = waiting \ {batch[i].ev}
  /\ wpc' = "upload"
  /\ UNCHANGED <<spoolVars, conn, rest, sourceVars, store, tokens, late, aged, crashes>>

\* The completed event replaces its pending row before it is sent, alone.
Enrich ==
  /\ source # NoDigest /\ ~expired
  /\ \E i \in DOMAIN batch :
       /\ Unsourced(i)
       /\ LET row == [batch[i] EXCEPT !.src = source] IN
            /\ row.ev.id \in Ids(spool)
            /\ spool' = [k \in DOMAIN spool |-> IF spool[k].ev.id = row.ev.id THEN row ELSE spool[k]]
            /\ batch' = [k \in {i} |-> row]
            /\ waiting' = waiting \ {row.ev}
  /\ wpc' = "upload"
  /\ UNCHANGED <<seen, state, dead, conn, rest, sourceVars, store, tokens, late, aged, crashes>>

\* No source graph yet: start the timer, or sleep while it has not run out.
AwaitSource ==
  /\ source = NoDigest
  /\ \E i \in DOMAIN batch : Unsourced(i) /\ waiting' = waiting \cup {batch[i].ev}
  /\ wpc' = "load" /\ batch' = Empty
  /\ UNCHANGED <<spoolVars, conn, rest, sourceVars, store, tokens, late, aged, crashes>>

\* cache_provenance_wait ran out: every pending row of the trace is quarantined.
QuarantineTrace ==
  /\ source = NoDigest
  /\ \E i \in DOMAIN batch :
       /\ Unsourced(i)
       /\ batch[i].ev \in waiting
       /\ LET gone == {r \in Range(spool) : r.ev.trace = batch[i].ev.trace}
              ids == {r.ev.id : r \in gone} IN
            /\ gone # {}
            /\ dead' = {r \in dead : r.ev.id \notin ids} \cup gone
            /\ spool' = Without(spool, ids)
       /\ waiting' = waiting \ {batch[i].ev}
  /\ wpc' = "load" /\ batch' = Empty
  /\ UNCHANGED <<seen, state, conn, rest, sourceVars, store, tokens, late, aged, crashes>>

-----------------------------------------------------------------------------
(* The Agent: ingest_trace_events and EvidenceStore::put_trace_events.     *)

\* validate_trace_event: the event's own fields, its age, and a cache hit's source.
Acceptable(r) ==
  /\ r.ev.valid
  /\ r.ev \notin aged
  /\ (r.ev.seq = 1) = (r.ev.kind = "CLIENT_QUERY")
  /\ ~NeedsSource(r)

\* Mutant of Continues: only the parent is looked up.
ContinuesAfterParent(rows, r) ==
  \/ r \in rows
  \/ /\ \A x \in rows : x.ev.id # r.ev.id
     /\ r.ev.seq > 1 => \E x \in rows : x.ev.trace = r.ev.trace /\ x.ev.seq < r.ev.seq

\* One row against the rows already in the transaction's view of the table:
\* either it is there unchanged, or its id is new and it continues its trace.
Continues(rows, r) ==
  \/ r \in rows
  \/ /\ \A x \in rows : x.ev.id # r.ev.id
     /\ \A x \in rows : x.ev.trace = r.ev.trace => x.ev.seq < r.ev.seq
     /\ r.ev.seq = 1 => r.ev.kind = "CLIENT_QUERY" /\ r.ev.parent = NoParent
     /\ r.ev.seq > 1 =>
          /\ \E x \in rows : x.ev.trace = r.ev.trace /\ x.ev.seq = r.ev.seq - 1
          /\ \E x \in rows : x.ev.id = r.ev.parent /\ x.ev.trace = r.ev.trace /\ x.ev.seq < r.ev.seq
          /\ \A x \in rows : x.ev.trace = r.ev.trace => ~Terminal(x.ev)

\* The transaction sees the stored rows and the batch's earlier rows.
View(b, i) == store \cup {b[j] : j \in {k \in DOMAIN b : k < i}}

\* Mutant of Reply: what the store refuses is reported as a bad payload.
ReplyNever503(b) ==
  IF DOMAIN b = {} \/ \E i \in DOMAIN b : ~Acceptable(b[i]) THEN 422
  ELSE IF \A i \in DOMAIN b : Continues(View(b, i), b[i]) THEN 204
  ELSE 422

\* 422 for a malformed batch or event, 503 for what the store refuses, else 204.
Reply(b) ==
  IF DOMAIN b = {} \/ \E i \in DOMAIN b : ~Acceptable(b[i]) THEN 422
  ELSE IF \A i \in DOMAIN b : Continues(View(b, i), b[i]) THEN 204
  ELSE 503

StoreAfter(b) == IF Reply(b) = 204 THEN store \cup Range(b) ELSE store

-----------------------------------------------------------------------------
(* Uploading: upload_batch, process_batch, acknowledge and quarantine.     *)

\* The next row of an isolated batch, or back to the spool, draining the tokens.
SendNext(rows) ==
  IF DOMAIN rows = {}
  THEN wpc' = "load" /\ batch' = Empty /\ rest' = Empty /\ tokens' = 0
  ELSE /\ \E i \in DOMAIN rows : /\ First(rows, i)
                                /\ batch' = Keep(rows, {i})
                                /\ rest' = Keep(rows, DOMAIN rows \ {i})
       /\ wpc' = "upload"
       /\ UNCHANGED tokens

\* Mutant of Upload: a refusal by the store is taken for success.
UploadIgnoring503 ==
  /\ wpc = "upload"
  /\ store' = StoreAfter(batch)
  /\ \/ /\ Reply(batch) # 422
        /\ wpc' = "acknowledge"
        /\ UNCHANGED <<batch, rest, tokens>>
     \/ /\ Reply(batch) = 422
        /\ IF Cardinality(DOMAIN batch) = 1
           THEN wpc' = "quarantine" /\ UNCHANGED <<batch, rest, tokens>>
           ELSE SendNext(batch)
  /\ UNCHANGED <<spoolVars, conn, waiting, sourceVars, late, aged, crashes>>

\* The Agent executes the request and the worker reads its status.  A success
\* is acknowledged, a payload rejection is quarantined or isolated row by row,
\* anything else is sent again.
Upload ==
  /\ wpc = "upload"
  /\ store' = StoreAfter(batch)
  /\ \/ /\ Reply(batch) = 204
        /\ wpc' = "acknowledge"
        /\ UNCHANGED <<batch, rest, tokens>>
     \/ /\ Reply(batch) = 422
        /\ \E i \in DOMAIN batch : DOMAIN batch = {i}
        /\ wpc' = "quarantine"
        /\ UNCHANGED <<batch, rest, tokens>>
     \/ /\ Reply(batch) = 422
        /\ \A i \in DOMAIN batch : DOMAIN batch # {i}
        /\ SendNext(batch)
     \/ /\ Reply(batch) = 503
        /\ UNCHANGED <<wpc, batch, rest, tokens>>
  /\ UNCHANGED <<spoolVars, conn, waiting, sourceVars, late, aged, crashes>>

\* The HTTP timeout: the request may still be executed, the worker sends again.
GiveUp ==
  /\ wpc = "upload"
  /\ DOMAIN batch # {}
  /\ Cardinality(late) < MaxLate
  /\ late' = late \cup {batch}
  /\ UNCHANGED <<spoolVars, conn, workerVars, sourceVars, store, tokens, aged, crashes>>

\* The Agent executes, or never sees, a request nobody waits for.
LateRequest(b) ==
  /\ b \in late
  /\ late' = late \ {b}
  /\ store' \in {store, StoreAfter(b)}
  /\ UNCHANGED <<spoolVars, conn, workerVars, sourceVars, tokens, aged, crashes>>

Acknowledge ==
  /\ wpc = "acknowledge"
  /\ spool' = Without(spool, Ids(batch))
  /\ SendNext(rest)
  /\ UNCHANGED <<seen, state, dead, conn, waiting, sourceVars, store, late, aged, crashes>>

Quarantine ==
  /\ wpc = "quarantine"
  /\ dead' = {r \in dead : r.ev.id \notin Ids(batch)} \cup Range(batch)
  /\ spool' = Without(spool, Ids(batch))
  /\ SendNext(rest)
  /\ UNCHANGED <<seen, state, conn, waiting, sourceVars, store, late, aged, crashes>>

\* The process ends and is started again: what is not in SQLite is gone.
Restart ==
  /\ conn' = [c \in Conns |-> "reading"]
  /\ tokens' = 0
  /\ wpc' = "load" /\ batch' = Empty /\ rest' = Empty /\ waiting' = {}
  /\ UNCHANGED <<spoolVars, sourceVars, store, aged>>

\* A crash may leave the worker's request in flight.
Crash ==
  /\ crashes < MaxCrashes
  /\ crashes' = crashes + 1
  /\ \/ late' = late
     \/ wpc = "upload" /\ DOMAIN batch # {} /\ Cardinality(late) < MaxLate /\ late' = late \cup {batch}
  /\ Restart

\* prepare_upload_batch fails on an expired source graph and ends the process.
ExitOnExpiredSource ==
  /\ \E i \in DOMAIN batch : Unsourced(i)
  /\ source # NoDigest /\ expired
  /\ Restart
  /\ UNCHANGED <<late, crashes>>

-----------------------------------------------------------------------------
(* The environment: source graphs and time.                                *)

\* The Agent stores a graph for a claimed client response (put_graph).
PutSource(d) ==
  /\ d \notin used
  /\ \E r \in store : r.ev.kind = "CLIENT_RESPONSE"
  /\ source' = d /\ expired' = FALSE /\ used' = used \cup {d}
  /\ UNCHANGED <<spoolVars, conn, workerVars, store, tokens, late, aged, crashes>>

ExpireSource ==
  /\ source # NoDigest /\ ~expired
  /\ expired' = TRUE
  /\ UNCHANGED <<spoolVars, conn, workerVars, source, used, store, tokens, late, aged, crashes>>

\* purge_expired, or a new Registry generation that deletes every graph.
DropSource ==
  /\ source # NoDigest
  /\ source' = NoDigest /\ expired' = FALSE
  /\ UNCHANGED <<spoolVars, conn, workerVars, used, store, tokens, late, aged, crashes>>

Age(e) ==
  /\ e \in MayAge \ aged
  /\ e \in seen
  /\ aged' = aged \cup {e}
  /\ UNCHANGED <<spoolVars, conn, workerVars, sourceVars, store, tokens, late, crashes>>

Next ==
  \/ \E c \in Conns, e \in Events : Enqueue(c, e) \/ Resubmit(c, e)
  \/ \E c \in Conns : SendToken(c)
  \/ Load \/ Wake \/ Prepare \/ Enrich \/ AwaitSource \/ QuarantineTrace
  \/ Upload \/ GiveUp \/ Acknowledge \/ Quarantine
  \/ \E b \in late : LateRequest(b)
  \/ Crash \/ ExitOnExpiredSource
  \/ \E d \in Digests : PutSource(d)
  \/ ExpireSource \/ DropSource
  \/ \E e \in Events : Age(e)

\* The runtime schedules the reader tasks and the worker; the Agent answers
\* sooner or later; the provenance timer and the ingestion window run out with
\* the clock; the Agent purges expired graphs every minute.
Fairness ==
  /\ \A c \in Conns : WF_vars(SendToken(c))
  /\ WF_vars(Load) /\ WF_vars(Wake) /\ WF_vars(Prepare) /\ WF_vars(Enrich)
  /\ WF_vars(AwaitSource) /\ SF_vars(QuarantineTrace) /\ WF_vars(Upload)
  /\ WF_vars(Acknowledge) /\ WF_vars(Quarantine) /\ WF_vars(ExitOnExpiredSource)
  /\ WF_vars(expired /\ DropSource)
  /\ \A e \in MayAge : WF_vars(Age(e))

Spec == Init /\ [][Next]_vars
FairSpec == Spec /\ Fairness

-----------------------------------------------------------------------------
(* Properties.                                                             *)

Pending == {r.ev : r \in Range(spool)}
Stored == {r.ev : r \in store}
DeadLettered == {r.ev : r \in dead}
InFlight == UNION {Range(b) : b \in late}

\* The rows of a trace in the store are numbered without gaps, no two share a
\* number, each has an earlier parent and nothing follows a terminal event,
\* whatever batches, retries and late requests put_trace_events executed.
StoreSound ==
  /\ \A r \in store : r.ev.seq > 1 =>
       \E x \in store : x.ev.trace = r.ev.trace /\ x.ev.seq = r.ev.seq - 1
  /\ \A r, x \in store : r.ev.trace = x.ev.trace /\ r.ev.seq = x.ev.seq => r = x
  /\ \A r, x \in store : r.ev.trace = x.ev.trace /\ Terminal(r.ev) => x.ev.seq <= r.ev.seq
  /\ \A r \in store : r.ev.seq > 1 =>
       \E x \in store : x.ev.id = r.ev.parent /\ x.ev.trace = r.ev.trace /\ x.ev.seq < r.ev.seq

\* An event that enqueue committed, so every event whose producer can read "OK",
\* is pending, stored by the Agent or in the dead letters: acknowledge deletes
\* only what the Agent has, across crashes and lost replies.
NothingLost == seen \subseteq Pending \cup Stored \cup DeadLettered

\* What was uploaded once, stored or still in flight, is what the spool holds:
\* a completed cache hit is durable before its first upload, so uploading it
\* again after a crash can never conflict with the Agent's immutable copy.
UploadStable ==
  \A p \in Range(spool) : \A r \in store \cup InFlight :
    r.ev.id = p.ev.id => r = p

\* Only an event the Agent can never accept is dead lettered, or one of a trace
\* whose cache hit found no source graph: a busy or failing Agent (503, timeout,
\* lost reply) never sends a good event to the dead letters.
DeadLetterJustified ==
  \A r \in dead : \/ ~Acceptable(r)
                  \/ \E x \in dead : x.ev.trace = r.ev.trace /\ NeedsSource(x)

\* The pending rows of a trace keep their order, and a row is pending once.
SpoolInOrder ==
  \A i, j \in DOMAIN spool : i < j =>
    /\ spool[i].ev.id # spool[j].ev.id
    /\ spool[i].ev.trace = spool[j].ev.trace => spool[i].ev.seq < spool[j].ev.seq

-----------------------------------------------------------------------------
(* The inductive invariant behind the safety properties above.             *)

Working == {batch[i] : i \in DOMAIN batch} \cup {rest[i] : i \in DOMAIN rest}
Sending == wpc \in {"upload", "acknowledge", "quarantine"}

\* Every row anywhere is an event of the seen table, whose ids are unique.
SeenRows ==
  /\ \A x, y \in seen : x.id = y.id => x = y
  /\ \A r \in Range(spool) \cup dead \cup store \cup InFlight : r.ev \in seen
  /\ \A i, j \in DOMAIN spool : spool[i].ev.id = spool[j].ev.id => i = j
  /\ \A r \in dead, p \in Range(spool) : r.ev.id # p.ev.id

\* The worker's rows are the spool's rows, and each is sent in one request.
WorkPending ==
  /\ \A i \in DOMAIN batch : i \in DOMAIN spool /\ batch[i] = spool[i]
  /\ \A i \in DOMAIN rest : i \in DOMAIN spool /\ rest[i] = spool[i]
  /\ DOMAIN batch \cap DOMAIN rest = {}
  /\ ~Sending => DOMAIN rest = {}
  /\ wpc \in {"load", "wait"} => DOMAIN batch = {}

\* No cache hit is sent without its source; what is acknowledged is stored;
\* what is quarantined was refused and will always be; no request has a row twice.
RequestSound ==
  /\ \A b \in late : \A i, j \in DOMAIN b : b[i].ev.id = b[j].ev.id => i = j
  /\ \A r \in store \cup InFlight : ~NeedsSource(r)
  /\ Sending => \A r \in Working : ~NeedsSource(r)
  /\ wpc = "acknowledge" => \A i \in DOMAIN batch : batch[i] \in store
  /\ wpc = "quarantine" => \A i \in DOMAIN batch : ~Acceptable(batch[i])

PipelineInv ==
  /\ SeenRows /\ WorkPending /\ RequestSound
  /\ StoreSound /\ NothingLost /\ UploadStable /\ DeadLetterJustified

-----------------------------------------------------------------------------

\* The store implements the abstract log of every trace.
LogOf(t) ==
  LET rows == {r \in store : r.ev.trace = t}
  IN [n \in {r.ev.seq : r \in rows} |-> CHOOSE r \in rows : r.ev.seq = n]

Log == INSTANCE TraceLog WITH
  Entries <- Rows,
  Closing <- {r \in Rows : Terminal(r.ev)},
  log <- [t \in Traces |-> LogOf(t)]

\* Trace ingestion implements the log that evidence graphs are built from.
ImplementsLog == Log!Spec

\* Every event that was committed to the spool leaves it: the worker never
\* sleeps on a non-empty spool, and nothing is retried beyond the window in
\* which the Agent may accept it.
SpoolDrains == \A e \in Events : (e \in Pending) ~> (e \notin Pending)
=============================================================================
