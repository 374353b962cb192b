------------------------- MODULE TracePipelineProofs -------------------------
(***************************************************************************)
(* Proofs about the trace pipeline, for any set of events, any number of   *)
(* connections and any bounds.                                             *)
(***************************************************************************)
EXTENDS TracePipeline, TLAPS

\* A part of a table is a table.
LEMMA KeepIsTable ==
  ASSUME NEW f, IsTable(f), NEW S
  PROVE  IsTable(Keep(f, S))
BY DEF IsTable, Keep, Restrict

\* The spool of a new database, and the batch of an idle worker, are tables.
LEMMA EmptyIsTable == IsTable(Empty)
BY DEF IsTable, Empty

\* Type correctness: every step of the adapter, the Agent and the clock keeps
\* the tables well formed.
LEMMA TypeInit == Init => TypeOK
<1> SUFFICES ASSUME Init PROVE TypeOK
  OBVIOUS
<1>1. IsTable(spool) /\ IsTable(batch) /\ IsTable(rest)
  BY EmptyIsTable DEF Init
<1>2. state \in [Traces -> [last : Nat, terminal : BOOLEAN]]
  BY DEF Init
<1>3. tokens \in 0..QueueCapacity /\ crashes \in 0..MaxCrashes
  BY BoundsAssumption DEF Init
<1>4. conn \in [Conns -> {"reading", "committed"}] /\ expired \in BOOLEAN
  BY DEF Init
<1>5. QED
  BY <1>1, <1>2, <1>3, <1>4 DEF Init, TypeOK

\* No action of the adapter, the Agent or the environment breaks the types.
LEMMA TypeStep == TypeOK /\ [Next]_vars => TypeOK'
<1> SUFFICES ASSUME TypeOK, [Next]_vars PROVE TypeOK'
  OBVIOUS
<1> USE BoundsAssumption, DigestAssumption, EventsAssumption, EmptyIsTable
<1>a. ASSUME NEW c \in Conns, NEW e \in Events, Enqueue(c, e) PROVE TypeOK'
  <2>1. IsTable(spool')
    BY <1>a DEF Enqueue, TypeOK, IsTable, Rows, Raw
  <2>2. state' \in [Traces -> [last : Nat, terminal : BOOLEAN]]
    BY <1>a DEF Enqueue, TypeOK, Traces, Terminal
  <2>3. QED
    BY <1>a, <2>1, <2>2 DEF Enqueue, TypeOK, workerVars, sourceVars
<1>b. ASSUME NEW c \in Conns, NEW e \in Events, Resubmit(c, e) PROVE TypeOK'
  BY <1>b DEF Resubmit, TypeOK, spoolVars, workerVars, sourceVars
<1>c. ASSUME NEW c \in Conns, SendToken(c) PROVE TypeOK'
  BY <1>c DEF SendToken, TypeOK, spoolVars, workerVars, sourceVars
<1>d. CASE Load
  BY <1>d, KeepIsTable DEF Load, LoadBatch, TypeOK, spoolVars, sourceVars
<1>e. CASE Wake
  BY <1>e, KeepIsTable DEF Wake, LoadBatch, TypeOK, spoolVars, sourceVars
<1>f. CASE Prepare
  BY <1>f, KeepIsTable DEF Prepare, TypeOK, spoolVars, sourceVars
<1>g. CASE Enrich
  <2>1. PICK i \in DOMAIN batch :
          LET row == [batch[i] EXCEPT !.src = source] IN
            /\ spool' = [k \in DOMAIN spool |-> IF spool[k].ev.id = row.ev.id THEN row ELSE spool[k]]
            /\ batch' = [k \in {i} |-> row]
            /\ waiting' = waiting \ {row.ev}
    BY <1>g DEF Enrich
  <2>2. [batch[i] EXCEPT !.src = source] \in Rows
    BY DEF TypeOK, IsTable, Rows
  <2>3. IsTable(spool') /\ IsTable(batch')
    BY <2>1, <2>2 DEF TypeOK, IsTable
  <2>4. QED
    BY <1>g, <2>1, <2>3 DEF Enrich, TypeOK, sourceVars
<1>h. CASE AwaitSource
  <2>1. waiting' \subseteq Events
    BY <1>h DEF AwaitSource, TypeOK, IsTable, Rows
  <2>2. QED
    BY <1>h, <2>1 DEF AwaitSource, TypeOK, spoolVars, sourceVars
<1>i. CASE QuarantineTrace
  <2>1. IsTable(spool') /\ dead' \subseteq Rows
    <3>1. PICK S : spool' = Keep(spool, S)
      BY <1>i DEF QuarantineTrace, Without
    <3>2. IsTable(spool) /\ dead \subseteq Rows
      BY DEF TypeOK
    <3>3. IsTable(spool')
      BY <3>1, <3>2 DEF IsTable, Keep, Restrict
    <3>4. Range(spool) \subseteq Rows
      BY <3>2 DEF IsTable, Range
    <3>5. dead' \subseteq dead \cup Range(spool)
      BY <1>i DEF QuarantineTrace
    <3> QED BY <3>2, <3>3, <3>4, <3>5
  <2>2. waiting' \subseteq Events
    BY <1>i DEF QuarantineTrace, TypeOK
  <2>3. QED
    BY <1>i, <2>1, <2>2 DEF QuarantineTrace, TypeOK, sourceVars
<1>s. ASSUME NEW b, IsTable(b) PROVE StoreAfter(b) \subseteq Rows
  BY <1>s DEF StoreAfter, Range, IsTable, TypeOK
<1>n. ASSUME NEW rows, IsTable(rows), SendNext(rows)
      PROVE  /\ IsTable(batch') /\ IsTable(rest')
             /\ wpc' \in {"load", "upload"} /\ tokens' \in 0..QueueCapacity
  <2>1. CASE DOMAIN rows = {}
    BY <1>n, <2>1 DEF SendNext
  <2>2. CASE DOMAIN rows # {}
    <3>1. PICK i \in DOMAIN rows : batch' = Keep(rows, {i}) /\ rest' = Keep(rows, DOMAIN rows \ {i})
      BY <1>n, <2>2 DEF SendNext
    <3>2. IsTable(batch') /\ IsTable(rest')
      BY <1>n, <3>1, KeepIsTable
    <3>3. QED
      BY <1>n, <2>2, <3>2 DEF SendNext, TypeOK
  <2>3. QED BY <2>1, <2>2
<1>j. CASE Upload
  <2>1. store' \subseteq Rows
    BY <1>j, <1>s DEF Upload, TypeOK
  <2>2. /\ IsTable(batch') /\ IsTable(rest') /\ tokens' \in 0..QueueCapacity
        /\ wpc' \in {"load", "upload", "acknowledge", "quarantine"}
    <3>1. CASE SendNext(batch)
      BY <3>1, <1>n DEF TypeOK
    <3>2. CASE ~SendNext(batch)
      BY <1>j, <3>2 DEF Upload, TypeOK
    <3>3. QED BY <3>1, <3>2
  <2>3. QED
    BY <1>j, <2>1, <2>2 DEF Upload, TypeOK, spoolVars, sourceVars
<1>k. CASE GiveUp
  BY <1>k DEF GiveUp, TypeOK, spoolVars, workerVars, sourceVars
<1>l. ASSUME NEW b \in late, LateRequest(b) PROVE TypeOK'
  <2>1. store' \subseteq Rows
    BY <1>l, <1>s DEF LateRequest, TypeOK
  <2>2. QED
    BY <1>l, <2>1 DEF LateRequest, TypeOK, spoolVars, workerVars, sourceVars
<1>m. CASE Acknowledge
  <2>1. IsTable(spool')
    BY <1>m, KeepIsTable DEF Acknowledge, Without, TypeOK
  <2>2. QED
    BY <1>m, <1>n, <2>1 DEF Acknowledge, TypeOK, sourceVars
<1>o. CASE Quarantine
  <2>1. IsTable(spool') /\ dead' \subseteq Rows
    BY <1>o, KeepIsTable DEF Quarantine, Without, TypeOK, Range, IsTable
  <2>2. QED
    BY <1>o, <1>n, <2>1 DEF Quarantine, TypeOK, sourceVars
<1>p. CASE Crash
  BY <1>p DEF Crash, Restart, TypeOK, spoolVars, sourceVars
<1>q. CASE ExitOnExpiredSource
  BY <1>q DEF ExitOnExpiredSource, Restart, TypeOK, spoolVars, sourceVars
<1>r. ASSUME NEW d \in Digests, PutSource(d) PROVE TypeOK'
  BY <1>r DEF PutSource, TypeOK, spoolVars, workerVars
<1>t. CASE ExpireSource \/ DropSource
  BY <1>t DEF ExpireSource, DropSource, TypeOK, spoolVars, workerVars
<1>u. ASSUME NEW e \in Events, Age(e) PROVE TypeOK'
  BY <1>u DEF Age, TypeOK, spoolVars, workerVars, sourceVars
<1>v. CASE UNCHANGED vars
  BY <1>v DEF vars, TypeOK, spoolVars, workerVars, sourceVars
<1>w. QED
  BY <1>a, <1>b, <1>c, <1>d, <1>e, <1>f, <1>g, <1>h, <1>i, <1>j, <1>k, <1>l, <1>m,
     <1>o, <1>p, <1>q, <1>r, <1>t, <1>u, <1>v DEF Next

\* In every reachable state the spool, the worker's rows and the requests in
\* flight are tables of rows, and the channel holds at most its capacity.
THEOREM TypeCorrect == Spec => []TypeOK
BY TypeInit, TypeStep, PTL DEF Spec

-----------------------------------------------------------------------------
(* What the helpers on tables do.                                          *)

\* The next request takes its rows from the given ones and leaves the others.
LEMMA SendNextRows ==
  ASSUME NEW rows, SendNext(rows)
  PROVE  /\ DOMAIN batch' \subseteq DOMAIN rows /\ DOMAIN rest' \subseteq DOMAIN rows
         /\ DOMAIN batch' \cap DOMAIN rest' = {}
         /\ \A i \in DOMAIN batch' : batch'[i] = rows[i]
         /\ \A i \in DOMAIN rest' : rest'[i] = rows[i]
         /\ wpc' \in {"load", "upload"}
         /\ wpc' = "load" => DOMAIN batch' = {} /\ DOMAIN rest' = {}
BY DEF SendNext, Keep, Restrict, Empty

\* A new row gets an unused rowid and an unused event id.
LEMMA EnqueueRows ==
  ASSUME NEW c \in Conns, NEW e \in Events, TypeOK, Enqueue(c, e)
  PROVE  /\ \A x \in seen : x.id # e.id
         /\ \E n \in Nat \ {0} :
              /\ n \notin DOMAIN spool
              /\ DOMAIN spool' = DOMAIN spool \cup {n}
              /\ spool'[n] = Raw(e)
              /\ \A i \in DOMAIN spool : spool'[i] = spool[i]
<1>1. \A x \in seen : x.id # e.id
  BY DEF Enqueue, Enqueueable
<1>2. PICK n \in 1..(Cardinality(Events) + 1) :
        /\ \A i \in DOMAIN spool : i < n
        /\ spool' = [i \in DOMAIN spool \cup {n} |-> IF i = n THEN Raw(e) ELSE spool[i]]
  BY DEF Enqueue, IsNextRowid
<1>3. n \in Nat \ {0} /\ n \notin DOMAIN spool
  BY <1>2 DEF TypeOK, IsTable
<1>4. QED
  BY <1>1, <1>2, <1>3

\* The rows of the completed cache hit, and the place of the others.
LEMMA EnrichRows ==
  ASSUME TypeOK, SeenRows, WorkPending, Enrich
  PROVE  \E i \in DOMAIN batch :
           /\ i \in DOMAIN spool /\ batch[i] = spool[i] /\ NeedsSource(spool[i])
           /\ source \in Digests
           /\ DOMAIN spool' = DOMAIN spool
           /\ spool'[i] = [spool[i] EXCEPT !.src = source]
           /\ \A k \in DOMAIN spool : k # i => spool'[k] = spool[k]
           /\ DOMAIN batch' = {i} /\ batch'[i] = spool'[i]
           /\ DOMAIN rest = {} /\ wpc' = "upload"
<1>1. PICK i \in DOMAIN batch :
        /\ wpc = "prepare" /\ NeedsSource(batch[i])
        /\ spool' = [k \in DOMAIN spool |-> IF spool[k].ev.id = batch[i].ev.id
                                             THEN [batch[i] EXCEPT !.src = source] ELSE spool[k]]
        /\ batch' = [k \in {i} |-> [batch[i] EXCEPT !.src = source]]
  <2>1. PICK i \in DOMAIN batch :
          /\ Unsourced(i)
          /\ LET row == [batch[i] EXCEPT !.src = source] IN
               /\ spool' = [k \in DOMAIN spool |-> IF spool[k].ev.id = row.ev.id THEN row ELSE spool[k]]
               /\ batch' = [k \in {i} |-> row]
    BY DEF Enrich
  <2>2. [batch[i] EXCEPT !.src = source].ev = batch[i].ev
    BY DEF TypeOK, IsTable, Rows
  <2>3. QED
    BY <2>1, <2>2 DEF Unsourced
<1>2. i \in DOMAIN spool /\ batch[i] = spool[i] /\ DOMAIN rest = {}
  BY <1>1 DEF WorkPending, Sending
<1>3. \A k \in DOMAIN spool : spool[k].ev.id = spool[i].ev.id => k = i
  BY <1>2 DEF SeenRows
<1>4. source \in Digests /\ wpc' = "upload"
  BY DEF Enrich, TypeOK
<1>5. QED
  BY <1>1, <1>2, <1>3, <1>4

-----------------------------------------------------------------------------
(* The parts of the inductive invariant, one lemma each, one step per action. *)

\* The worker's rows stay the spool's rows.
LEMMA WorkPendingStep ==
  ASSUME TypeOK, SeenRows, WorkPending, [Next]_vars
  PROVE  WorkPending'
<1> USE DEF WorkPending, Sending, spoolVars, workerVars, sourceVars
<1>a. ASSUME NEW c \in Conns, NEW e \in Events, Enqueue(c, e) PROVE WorkPending'
  BY <1>a, EnqueueRows DEF Enqueue
<1>b. ASSUME NEW c \in Conns, NEW e \in Events, Resubmit(c, e) PROVE WorkPending'
  BY <1>b DEF Resubmit
<1>c. ASSUME NEW c \in Conns, SendToken(c) PROVE WorkPending'
  BY <1>c DEF SendToken
<1>d. CASE Load
  BY <1>d DEF Load, LoadBatch, Keep, Restrict
<1>e. CASE Wake
  BY <1>e DEF Wake, LoadBatch, Keep, Restrict
<1>f. CASE Prepare
  BY <1>f DEF Prepare, Sendable, Keep, Restrict
<1>g. CASE Enrich
  BY <1>g, EnrichRows DEF Enrich
<1>h. CASE AwaitSource
  BY <1>h DEF AwaitSource, Unsourced, First, Empty
<1>i. CASE QuarantineTrace
  BY <1>i DEF QuarantineTrace, Unsourced, First, Without, Keep, Restrict, Empty
<1>j. CASE Upload
  <2>1. CASE SendNext(batch)
    BY <1>j, <2>1, SendNextRows DEF Upload
  <2>2. CASE ~SendNext(batch)
    BY <1>j, <2>2 DEF Upload
  <2>3. QED BY <2>1, <2>2
<1>k. CASE GiveUp
  BY <1>k DEF GiveUp
<1>l. ASSUME NEW b \in late, LateRequest(b) PROVE WorkPending'
  BY <1>l DEF LateRequest
<1>m. CASE Acknowledge
  <2>1. \A i \in DOMAIN rest : rest[i].ev.id \notin Ids(batch)
    BY DEF SeenRows, Ids
  <2>2. SendNext(rest) /\ spool' = Without(spool, Ids(batch))
    BY <1>m DEF Acknowledge
  <2>3. /\ DOMAIN spool' \subseteq DOMAIN spool
        /\ \A k \in DOMAIN spool' : spool'[k] = spool[k] /\ spool[k].ev.id \notin Ids(batch)
        /\ \A k \in DOMAIN spool : spool[k].ev.id \notin Ids(batch) => k \in DOMAIN spool'
    BY <2>2 DEF Without, Keep, Restrict
  <2>4. \A i \in DOMAIN rest : i \in DOMAIN spool' /\ rest[i] = spool'[i]
    BY <2>1, <2>3
  <2>5. QED
    BY <2>2, <2>4, SendNextRows
<1>o. CASE Quarantine
  <2>1. \A i \in DOMAIN rest : rest[i].ev.id \notin Ids(batch)
    BY DEF SeenRows, Ids
  <2>2. SendNext(rest) /\ spool' = Without(spool, Ids(batch))
    BY <1>o DEF Quarantine
  <2>3. /\ DOMAIN spool' \subseteq DOMAIN spool
        /\ \A k \in DOMAIN spool' : spool'[k] = spool[k] /\ spool[k].ev.id \notin Ids(batch)
        /\ \A k \in DOMAIN spool : spool[k].ev.id \notin Ids(batch) => k \in DOMAIN spool'
    BY <2>2 DEF Without, Keep, Restrict
  <2>4. \A i \in DOMAIN rest : i \in DOMAIN spool' /\ rest[i] = spool'[i]
    BY <2>1, <2>3
  <2>5. QED
    BY <2>2, <2>4, SendNextRows
<1>p. CASE Crash
  BY <1>p DEF Crash, Restart, Empty
<1>q. CASE ExitOnExpiredSource
  BY <1>q DEF ExitOnExpiredSource, Restart, Empty
<1>r. ASSUME NEW d \in Digests, PutSource(d) PROVE WorkPending'
  BY <1>r DEF PutSource
<1>t. CASE ExpireSource \/ DropSource
  BY <1>t DEF ExpireSource, DropSource
<1>u. ASSUME NEW e \in Events, Age(e) PROVE WorkPending'
  BY <1>u DEF Age
<1>v. CASE UNCHANGED vars
  BY <1>v DEF vars
<1>w. QED
  BY <1>a, <1>b, <1>c, <1>d, <1>e, <1>f, <1>g, <1>h, <1>i, <1>j, <1>k, <1>l, <1>m, <1>o, <1>p, <1>q, <1>r, <1>t, <1>u, <1>v DEF Next

\* Every row stays an event of the seen table, pending at most once and never both
\* pending and dead.
LEMMA SeenRowsStep ==
  ASSUME TypeOK, SeenRows, WorkPending, [Next]_vars
  PROVE  SeenRows'
<1> USE DEF WorkPending, Sending, SeenRows, Range, InFlight, StoreAfter, spoolVars, workerVars, sourceVars
<1>a. ASSUME NEW c \in Conns, NEW e \in Events, Enqueue(c, e) PROVE SeenRows'
  <2>1. UNCHANGED <<dead, store, late>> /\ seen' = seen \cup {e}
    BY <1>a DEF Enqueue
  <2>2. PICK n \in Nat \ {0} :
          /\ n \notin DOMAIN spool
          /\ DOMAIN spool' = DOMAIN spool \cup {n}
          /\ spool'[n] = Raw(e)
          /\ \A i \in DOMAIN spool : spool'[i] = spool[i]
    BY <1>a, EnqueueRows
  <2>3. \A x \in seen : x.id # e.id
    BY <1>a, EnqueueRows
  <2>4. spool'[n].ev = e
    BY <2>2 DEF Raw
  <2>5. QED
    BY <2>1, <2>2, <2>3, <2>4
<1>b. ASSUME NEW c \in Conns, NEW e \in Events, Resubmit(c, e) PROVE SeenRows'
  BY <1>b DEF Resubmit
<1>c. ASSUME NEW c \in Conns, SendToken(c) PROVE SeenRows'
  BY <1>c DEF SendToken
<1>d. CASE Load
  BY <1>d DEF Load, LoadBatch, Keep, Restrict
<1>e. CASE Wake
  BY <1>e DEF Wake, LoadBatch, Keep, Restrict
<1>f. CASE Prepare
  BY <1>f DEF Prepare, Sendable, Keep, Restrict
<1>g. CASE Enrich
  <2>1. UNCHANGED <<seen, dead, store, late>>
    BY <1>g DEF Enrich
  <2>2. PICK i \in DOMAIN spool :
          /\ DOMAIN spool' = DOMAIN spool
          /\ spool'[i] = [spool[i] EXCEPT !.src = source]
          /\ \A k \in DOMAIN spool : k # i => spool'[k] = spool[k]
    BY <1>g, EnrichRows
  <2>3. \A k \in DOMAIN spool : spool'[k].ev = spool[k].ev
    BY <2>2 DEF TypeOK, IsTable, Rows
  <2>4. QED
    BY <2>1, <2>2, <2>3
<1>h. CASE AwaitSource
  BY <1>h DEF AwaitSource, Unsourced, First, Empty
<1>i. CASE QuarantineTrace
  <2>1. PICK ids : /\ ids = {r.ev.id : r \in {x \in Range(spool) : x.ev.id \in ids}}
                   /\ dead' = {r \in dead : r.ev.id \notin ids} \cup {x \in Range(spool) : x.ev.id \in ids}
                   /\ spool' = Without(spool, ids)
    <3>1. PICK i \in DOMAIN batch :
            LET gone == {r \in Range(spool) : r.ev.trace = batch[i].ev.trace}
                ids == {r.ev.id : r \in gone} IN
              /\ dead' = {r \in dead : r.ev.id \notin ids} \cup gone
              /\ spool' = Without(spool, ids)
      BY <1>i DEF QuarantineTrace
    <3> DEFINE gone == {r \in Range(spool) : r.ev.trace = batch[i].ev.trace}
               ids == {r.ev.id : r \in gone}
    <3>2. {x \in Range(spool) : x.ev.id \in ids} = gone
      OBVIOUS
    <3>3. QED
      BY <3>1, <3>2
  <2>2. UNCHANGED <<seen, store, late>>
    BY <1>i DEF QuarantineTrace
  <2>3. /\ DOMAIN spool' \subseteq DOMAIN spool
        /\ \A k \in DOMAIN spool' : spool'[k] = spool[k] /\ spool[k].ev.id \notin ids
    BY <2>1 DEF Without, Keep, Restrict
  <2>4. \A r \in dead' : \/ r \in dead /\ r.ev.id \notin ids
                         \/ r.ev \in seen /\ r.ev.id \in ids
    BY <2>1
  <2>5. QED
    BY <2>2, <2>3, <2>4
<1>j. CASE Upload
  BY <1>j DEF Upload
<1>k. CASE GiveUp
  BY <1>k DEF GiveUp
<1>l. ASSUME NEW b \in late, LateRequest(b) PROVE SeenRows'
  BY <1>l DEF LateRequest
<1>m. CASE Acknowledge
  <2>1. UNCHANGED <<seen, dead, store, late>> /\ spool' = Without(spool, Ids(batch))
    BY <1>m DEF Acknowledge
  <2>2. /\ DOMAIN spool' \subseteq DOMAIN spool
        /\ \A k \in DOMAIN spool' : spool'[k] = spool[k] /\ spool[k].ev.id \notin Ids(batch)
    BY <2>1 DEF Without, Keep, Restrict
  <2>3. QED
    BY <2>1, <2>2
<1>o. CASE Quarantine
  <2>1. UNCHANGED <<seen, store, late>> /\ spool' = Without(spool, Ids(batch))
    BY <1>o DEF Quarantine
  <2>2. dead' = {r \in dead : r.ev.id \notin Ids(batch)} \cup Range(batch)
    BY <1>o DEF Quarantine
  <2>3. \A r \in dead' : r.ev \in seen /\ (r.ev.id \in Ids(batch) \/ r \in dead)
    BY <2>2 DEF Ids
  <2>4. /\ DOMAIN spool' \subseteq DOMAIN spool
        /\ \A k \in DOMAIN spool' : spool'[k] = spool[k] /\ spool[k].ev.id \notin Ids(batch)
    BY <2>1 DEF Without, Keep, Restrict
  <2>5. QED
    BY <2>1, <2>3, <2>4
<1>p. CASE Crash
  BY <1>p DEF Crash, Restart, Empty
<1>q. CASE ExitOnExpiredSource
  BY <1>q DEF ExitOnExpiredSource, Restart, Empty
<1>r. ASSUME NEW d \in Digests, PutSource(d) PROVE SeenRows'
  BY <1>r DEF PutSource
<1>t. CASE ExpireSource \/ DropSource
  BY <1>t DEF ExpireSource, DropSource
<1>u. ASSUME NEW e \in Events, Age(e) PROVE SeenRows'
  BY <1>u DEF Age
<1>v. CASE UNCHANGED vars
  BY <1>v DEF vars
<1>w. QED
  BY <1>a, <1>b, <1>c, <1>d, <1>e, <1>f, <1>g, <1>h, <1>i, <1>j, <1>k, <1>l, <1>m, <1>o, <1>p, <1>q, <1>r, <1>t, <1>u, <1>v DEF Next

\* A request never carries an unsourced cache hit, and its outcome is what the
\* Agent answered.
LEMMA RequestSoundStep ==
  ASSUME TypeOK, SeenRows, WorkPending, RequestSound, [Next]_vars
  PROVE  RequestSound'
<1> USE DEF RequestSound, Sending, Working, InFlight, Range, spoolVars, workerVars, sourceVars
<1>a. ASSUME NEW c \in Conns, NEW e \in Events, Enqueue(c, e) PROVE RequestSound'
  <2>1. UNCHANGED <<store, late, wpc, batch, rest, aged>>
    BY <1>a DEF Enqueue
  <2>2. QED BY <2>1 DEF Acceptable
<1>b. ASSUME NEW c \in Conns, NEW e \in Events, Resubmit(c, e) PROVE RequestSound'
  BY <1>b DEF Resubmit, Acceptable
<1>c. ASSUME NEW c \in Conns, SendToken(c) PROVE RequestSound'
  BY <1>c DEF SendToken, Acceptable
<1>d. CASE Load
  BY <1>d DEF Load, LoadBatch, Keep, Restrict
<1>e. CASE Wake
  BY <1>e DEF Wake, LoadBatch, Keep, Restrict
<1>f. CASE Prepare
  <2>1. UNCHANGED <<store, late, rest, aged>> /\ wpc = "prepare" /\ wpc' = "upload"
    BY <1>f DEF Prepare
  <2>2. \A i \in DOMAIN batch' : ~NeedsSource(batch'[i])
    BY <1>f DEF Prepare, Sendable, Keep, Restrict, TypeOK, IsTable
  <2>3. QED
    BY <2>1, <2>2 DEF WorkPending
<1>g. CASE Enrich
  <2>1. UNCHANGED <<store, late, rest, aged>>
    BY <1>g DEF Enrich
  <2>2. PICK i \in DOMAIN spool :
          /\ source \in Digests
          /\ spool'[i] = [spool[i] EXCEPT !.src = source]
          /\ DOMAIN batch' = {i} /\ batch'[i] = spool'[i] /\ DOMAIN rest = {} /\ wpc' = "upload"
    BY <1>g, EnrichRows
  <2>3. ~NeedsSource(batch'[i])
    BY <2>2, DigestAssumption DEF NeedsSource, TypeOK, IsTable, Rows
  <2>4. QED
    BY <2>1, <2>2, <2>3
<1>h. CASE AwaitSource
  BY <1>h DEF AwaitSource, Unsourced, First, Empty
<1>i. CASE QuarantineTrace
  <2>1. UNCHANGED <<late, aged, store, rest>> /\ wpc' = "load" /\ batch' = Empty
    BY <1>i DEF QuarantineTrace
  <2>2. QED
    BY <2>1 DEF Empty
<1>j. CASE Upload
  <2>1. UNCHANGED <<late, aged>> /\ wpc = "upload" /\ store' = StoreAfter(batch)
    BY <1>j DEF Upload
  <2>2. \A r \in store' : r \in store \/ r \in Range(batch)
    BY <2>1 DEF StoreAfter
  <2>3. \A r \in store' \cup InFlight' : ~NeedsSource(r)
    BY <2>1, <2>2
  <2>4. CASE Reply(batch) = 204 /\ wpc' = "acknowledge" /\ UNCHANGED <<batch, rest>>
    BY <2>1, <2>3, <2>4 DEF StoreAfter
  <2>5. CASE /\ Reply(batch) = 422 /\ wpc' = "quarantine" /\ UNCHANGED <<batch, rest>>
             /\ \E i \in DOMAIN batch : DOMAIN batch = {i}
    <3>1. \A i \in DOMAIN batch : ~Acceptable(batch[i])
      BY <2>5 DEF Reply
    <3>2. QED
      BY <2>1, <2>3, <2>5, <3>1 DEF Acceptable
  <2>6. CASE SendNext(batch)
    BY <2>1, <2>3, <2>6, SendNextRows
  <2>7. CASE UNCHANGED <<wpc, batch, rest>>
    BY <2>1, <2>3, <2>7
  <2>8. QED
    BY <1>j, <2>4, <2>5, <2>6, <2>7 DEF Upload
<1>k. CASE GiveUp
  <2>1. UNCHANGED <<wpc, batch, rest, aged, store>> /\ late' = late \cup {batch} /\ wpc = "upload"
    BY <1>k DEF GiveUp
  <2>2. \A i, j \in DOMAIN batch : batch[i].ev.id = batch[j].ev.id => i = j
    BY DEF WorkPending, SeenRows
  <2>3. QED
    BY <2>1, <2>2 DEF Acceptable
<1>l. ASSUME NEW b \in late, LateRequest(b) PROVE RequestSound'
  <2>1. UNCHANGED <<wpc, batch, rest, aged>> /\ late' = late \ {b}
    BY <1>l DEF LateRequest
  <2>2. store \subseteq store' /\ \A r \in store' : r \in store \/ r \in Range(b)
    BY <1>l DEF LateRequest, StoreAfter
  <2>3. QED
    BY <2>1, <2>2 DEF Acceptable
<1>m. CASE Acknowledge
  <2>1. UNCHANGED <<late, aged, store>> /\ wpc = "acknowledge" /\ SendNext(rest)
    BY <1>m DEF Acknowledge
  <2>2. QED
    BY <2>1, SendNextRows
<1>o. CASE Quarantine
  <2>1. UNCHANGED <<late, aged, store>> /\ wpc = "quarantine" /\ SendNext(rest)
    BY <1>o DEF Quarantine
  <2>2. QED
    BY <2>1, SendNextRows
<1>p. CASE Crash
  <2>1. UNCHANGED <<aged, store>> /\ wpc' = "load" /\ DOMAIN batch' = {} /\ DOMAIN rest' = {}
    BY <1>p DEF Crash, Restart, Empty
  <2>2. late' = late \/ (wpc = "upload" /\ late' = late \cup {batch})
    BY <1>p DEF Crash
  <2>3. \A i, j \in DOMAIN batch : batch[i].ev.id = batch[j].ev.id => i = j
    BY DEF WorkPending, SeenRows
  <2>4. QED
    BY <2>1, <2>2, <2>3
<1>q. CASE ExitOnExpiredSource
  BY <1>q DEF ExitOnExpiredSource, Restart, Empty
<1>r. ASSUME NEW d \in Digests, PutSource(d) PROVE RequestSound'
  BY <1>r DEF PutSource, Acceptable
<1>t. CASE ExpireSource \/ DropSource
  BY <1>t DEF ExpireSource, DropSource, Acceptable
<1>u. ASSUME NEW e \in Events, Age(e) PROVE RequestSound'
  <2>1. UNCHANGED <<wpc, batch, rest, late, store>> /\ aged \subseteq aged'
    BY <1>u DEF Age
  <2>2. QED
    BY <2>1 DEF Acceptable
<1>v. CASE UNCHANGED vars
  BY <1>v DEF vars, Acceptable
<1>w. QED
  BY <1>a, <1>b, <1>c, <1>d, <1>e, <1>f, <1>g, <1>h, <1>i, <1>j, <1>k, <1>l, <1>m, <1>o, <1>p, <1>q, <1>r, <1>t, <1>u, <1>v DEF Next

\* One batch, accepted or not, keeps the store sound: a row that was accepted
\* saw the stored rows and the rows of the batch before it.
LEMMA BatchKeepsStoreSound ==
  ASSUME TypeOK, StoreSound, NEW b, IsTable(b), store' = StoreAfter(b),
         \A i, j \in DOMAIN b : b[i].ev.id = b[j].ev.id => i = j
  PROVE  StoreSound'
<1>1. CASE Reply(b) # 204
  BY <1>1 DEF StoreSound, StoreAfter
<1>2. CASE Reply(b) = 204
  <2>1. /\ \A i \in DOMAIN b : Continues(View(b, i), b[i])
        /\ store' = store \cup Range(b)
        /\ DOMAIN b \subseteq Nat
    BY <1>2 DEF Reply, StoreAfter, IsTable
  <2>2. \A r \in store' : r.ev.seq \in Nat
    BY <2>1, EventsAssumption DEF TypeOK, IsTable, Rows, Range
  <2>3. \A i \in DOMAIN b : View(b, i) \subseteq store'
    BY <2>1 DEF View, Range
  \* A row is stored already, or it continues its trace.
  <2>4. \A i \in DOMAIN b : b[i] \in store \/
          /\ \A x \in View(b, i) : x.ev.trace = b[i].ev.trace => x.ev.seq < b[i].ev.seq
          /\ b[i].ev.seq > 1 =>
               /\ \E x \in store' : x.ev.trace = b[i].ev.trace /\ x.ev.seq = b[i].ev.seq - 1
               /\ \E x \in store' : /\ x.ev.id = b[i].ev.parent /\ x.ev.trace = b[i].ev.trace
                                    /\ x.ev.seq < b[i].ev.seq
               /\ \A x \in View(b, i) : x.ev.trace = b[i].ev.trace => ~Terminal(x.ev)
    <3> SUFFICES ASSUME NEW i \in DOMAIN b, b[i] \notin store
                 PROVE  /\ \A x \in View(b, i) : x.ev.trace = b[i].ev.trace => x.ev.seq < b[i].ev.seq
                        /\ b[i].ev.seq > 1 =>
                           /\ \E x \in store' : x.ev.trace = b[i].ev.trace /\ x.ev.seq = b[i].ev.seq - 1
                           /\ \E x \in store' : /\ x.ev.id = b[i].ev.parent /\ x.ev.trace = b[i].ev.trace
                                                /\ x.ev.seq < b[i].ev.seq
                           /\ \A x \in View(b, i) : x.ev.trace = b[i].ev.trace => ~Terminal(x.ev)
      OBVIOUS
    <3>1. b[i] \notin View(b, i)
      BY <2>1 DEF View
    <3>2. QED
      BY <2>1, <2>3, <3>1 DEF Continues
  \* Of two rows, both were stored, or they are the same, or one saw the other.
  <2>5. ASSUME NEW r \in store', NEW x \in store'
        PROVE  \/ r \in store /\ x \in store
               \/ r = x
               \/ \E i \in DOMAIN b : r = b[i] /\ r \notin store /\ x \in View(b, i)
               \/ \E i \in DOMAIN b : x = b[i] /\ x \notin store /\ r \in View(b, i)
    <3>1. CASE r \in store
      BY <2>1, <3>1 DEF View, Range
    <3>2. CASE x \in store
      BY <2>1, <3>2 DEF View, Range
    <3>3. CASE r \notin store /\ x \notin store
      <4>1. PICK i \in DOMAIN b, j \in DOMAIN b : r = b[i] /\ x = b[j]
        BY <2>1, <3>3 DEF Range
      <4>2. j < i \/ i < j \/ i = j
        BY <2>1
      <4>3. QED
        BY <3>3, <4>1, <4>2 DEF View
    <3>4. QED BY <3>1, <3>2, <3>3
  <2>6. ASSUME NEW r \in store', r.ev.seq > 1
        PROVE  /\ \E x \in store' : x.ev.trace = r.ev.trace /\ x.ev.seq = r.ev.seq - 1
               /\ \E x \in store' : x.ev.id = r.ev.parent /\ x.ev.trace = r.ev.trace /\ x.ev.seq < r.ev.seq
    <3>1. CASE r \in store
      BY <2>1, <2>6, <3>1 DEF StoreSound
    <3>2. CASE r \notin store
      <4>1. PICK i \in DOMAIN b : r = b[i]
        BY <2>1, <3>2 DEF Range
      <4>2. QED
        BY <2>4, <2>6, <3>2, <4>1
    <3>3. QED BY <3>1, <3>2
  <2>7. ASSUME NEW r \in store', NEW x \in store', r.ev.trace = x.ev.trace, r.ev.seq = x.ev.seq
        PROVE  r = x
    <3>1. CASE r \in store /\ x \in store
      BY <2>7, <3>1 DEF StoreSound
    <3>2. ASSUME NEW i \in DOMAIN b, b[i] \notin store,
                 \/ r = b[i] /\ x \in View(b, i)
                 \/ x = b[i] /\ r \in View(b, i)
          PROVE  FALSE
      <4>1. r.ev.seq < x.ev.seq \/ x.ev.seq < r.ev.seq
        BY <2>4, <2>7, <3>2
      <4>2. QED BY <2>2, <2>7, <4>1
    <3>3. QED BY <2>5, <3>1, <3>2
  <2>8. ASSUME NEW r \in store', NEW x \in store', r.ev.trace = x.ev.trace, Terminal(r.ev)
        PROVE  x.ev.seq <= r.ev.seq
    <3>1. CASE r \in store /\ x \in store
      BY <2>8, <3>1 DEF StoreSound
    <3>2. CASE r = x
      BY <2>2, <3>2
    <3>3. ASSUME NEW i \in DOMAIN b, r = b[i], r \notin store, x \in View(b, i)
          PROVE  x.ev.seq <= r.ev.seq
      BY <2>2, <2>4, <2>8, <3>3
    <3>4. ASSUME NEW i \in DOMAIN b, x = b[i], x \notin store, r \in View(b, i)
          PROVE  x.ev.seq <= r.ev.seq
      <4>1. r.ev.seq < x.ev.seq /\ r.ev.seq \in Nat /\ x.ev.seq \in Nat
        BY <2>2, <2>4, <2>8, <3>4
      <4>2. r.ev.seq # 0
        BY <2>1, EventsAssumption DEF TypeOK, IsTable, Rows, Range
      <4>3. x.ev.seq > 1
        BY <4>1, <4>2
      <4>4. QED
        BY <2>4, <2>8, <3>4, <4>3
    <3>5. QED BY <2>5, <3>1, <3>2, <3>3, <3>4
  <2>9. QED
    BY <2>6, <2>7, <2>8 DEF StoreSound
<1>3. QED BY <1>1, <1>2

\* Only the Agent writes to the store, one batch at a time.
LEMMA StoreSoundStep ==
  ASSUME TypeOK, SeenRows, WorkPending, RequestSound, StoreSound, [Next]_vars
  PROVE  StoreSound'
<1> USE DEF StoreSound, spoolVars, workerVars, sourceVars
<1>a. ASSUME NEW c \in Conns, NEW e \in Events, Enqueue(c, e) PROVE StoreSound'
  BY <1>a DEF Enqueue
<1>b. ASSUME NEW c \in Conns, NEW e \in Events, Resubmit(c, e) PROVE StoreSound'
  BY <1>b DEF Resubmit
<1>c. ASSUME NEW c \in Conns, SendToken(c) PROVE StoreSound'
  BY <1>c DEF SendToken
<1>d. CASE Load
  BY <1>d DEF Load, LoadBatch, Keep, Restrict
<1>e. CASE Wake
  BY <1>e DEF Wake, LoadBatch, Keep, Restrict
<1>f. CASE Prepare
  BY <1>f DEF Prepare, Sendable, Keep, Restrict
<1>g. CASE Enrich
  BY <1>g DEF Enrich, Unsourced, First
<1>h. CASE AwaitSource
  BY <1>h DEF AwaitSource, Unsourced, First, Empty
<1>i. CASE QuarantineTrace
  BY <1>i DEF QuarantineTrace, Unsourced, First, Without, Keep, Restrict, Empty
<1>j. CASE Upload
  <2>1. store' = StoreAfter(batch) /\ IsTable(batch)
    BY <1>j DEF Upload, TypeOK
  <2>2. \A i, j \in DOMAIN batch : batch[i].ev.id = batch[j].ev.id => i = j
    BY DEF WorkPending, SeenRows
  <2>3. QED
    BY <2>1, <2>2, BatchKeepsStoreSound
<1>k. CASE GiveUp
  BY <1>k DEF GiveUp
<1>l. ASSUME NEW b \in late, LateRequest(b) PROVE StoreSound'
  <2>1. store' = StoreAfter(b) \/ store' = store
    BY <1>l DEF LateRequest
  <2>2. IsTable(b) /\ \A i, j \in DOMAIN b : b[i].ev.id = b[j].ev.id => i = j
    BY DEF TypeOK, RequestSound
  <2>3. QED
    BY <2>1, <2>2, BatchKeepsStoreSound
<1>m. CASE Acknowledge
  BY <1>m DEF Acknowledge
<1>o. CASE Quarantine
  BY <1>o DEF Quarantine
<1>p. CASE Crash
  BY <1>p DEF Crash, Restart, Empty
<1>q. CASE ExitOnExpiredSource
  BY <1>q DEF ExitOnExpiredSource, Restart, Empty
<1>r. ASSUME NEW d \in Digests, PutSource(d) PROVE StoreSound'
  BY <1>r DEF PutSource
<1>t. CASE ExpireSource \/ DropSource
  BY <1>t DEF ExpireSource, DropSource
<1>u. ASSUME NEW e \in Events, Age(e) PROVE StoreSound'
  BY <1>u DEF Age
<1>v. CASE UNCHANGED vars
  BY <1>v DEF vars
<1>w. QED
  BY <1>a, <1>b, <1>c, <1>d, <1>e, <1>f, <1>g, <1>h, <1>i, <1>j, <1>k, <1>l, <1>m, <1>o, <1>p, <1>q, <1>r, <1>t, <1>u, <1>v DEF Next

\* A committed event leaves the spool for the store or the dead letters only.
LEMMA NothingLostStep ==
  ASSUME TypeOK, SeenRows, WorkPending, RequestSound, NothingLost, [Next]_vars
  PROVE  NothingLost'
<1> USE DEF NothingLost, Pending, Stored, DeadLettered, Range, spoolVars, workerVars, sourceVars
<1>a. ASSUME NEW c \in Conns, NEW e \in Events, Enqueue(c, e) PROVE NothingLost'
  <2>1. UNCHANGED <<dead, store>> /\ seen' = seen \cup {e}
    BY <1>a DEF Enqueue
  <2>2. PICK n \in Nat \ {0} :
          /\ DOMAIN spool' = DOMAIN spool \cup {n}
          /\ spool'[n] = Raw(e)
          /\ \A i \in DOMAIN spool : spool'[i] = spool[i]
    BY <1>a, EnqueueRows
  <2>3. spool'[n].ev = e
    BY <2>2 DEF Raw
  <2>4. QED
    BY <2>1, <2>2, <2>3
<1>b. ASSUME NEW c \in Conns, NEW e \in Events, Resubmit(c, e) PROVE NothingLost'
  BY <1>b DEF Resubmit
<1>c. ASSUME NEW c \in Conns, SendToken(c) PROVE NothingLost'
  BY <1>c DEF SendToken
<1>d. CASE Load
  BY <1>d DEF Load, LoadBatch, Keep, Restrict
<1>e. CASE Wake
  BY <1>e DEF Wake, LoadBatch, Keep, Restrict
<1>f. CASE Prepare
  BY <1>f DEF Prepare, Sendable, Keep, Restrict
<1>g. CASE Enrich
  <2>1. UNCHANGED <<seen, dead, store>>
    BY <1>g DEF Enrich
  <2>2. PICK i \in DOMAIN spool :
          /\ DOMAIN spool' = DOMAIN spool
          /\ spool'[i] = [spool[i] EXCEPT !.src = source]
          /\ \A k \in DOMAIN spool : k # i => spool'[k] = spool[k]
    BY <1>g, EnrichRows
  <2>3. \A k \in DOMAIN spool : spool'[k].ev = spool[k].ev
    BY <2>2 DEF TypeOK, IsTable, Rows
  <2>4. QED
    BY <2>1, <2>2, <2>3
<1>h. CASE AwaitSource
  BY <1>h DEF AwaitSource, Unsourced, First, Empty
<1>i. CASE QuarantineTrace
  <2>1. UNCHANGED <<seen, store>>
    BY <1>i DEF QuarantineTrace
  <2>2. PICK i \in DOMAIN batch :
          LET gone == {r \in Range(spool) : r.ev.trace = batch[i].ev.trace}
              ids == {r.ev.id : r \in gone} IN
            /\ dead' = {r \in dead : r.ev.id \notin ids} \cup gone
            /\ spool' = Without(spool, ids)
    BY <1>i DEF QuarantineTrace
  <2> DEFINE gone == {r \in Range(spool) : r.ev.trace = batch[i].ev.trace}
             ids == {r.ev.id : r \in gone}
  <2>3. \A k \in DOMAIN spool : spool[k].ev.id \notin ids => k \in DOMAIN spool' /\ spool'[k] = spool[k]
    BY <2>2 DEF Without, Keep, Restrict
  <2>4. \A r \in dead : r \in dead'
    BY <2>2 DEF SeenRows
  <2>5. \A k \in DOMAIN spool : spool[k].ev.id \in ids => spool[k] \in dead'
    BY <2>2 DEF SeenRows
  <2>6. QED
    BY <2>1, <2>3, <2>4, <2>5
<1>j. CASE Upload
  <2>1. UNCHANGED <<seen, spool, dead>> /\ store \subseteq store'
    BY <1>j DEF Upload, StoreAfter
  <2>2. QED
    BY <2>1
<1>k. CASE GiveUp
  BY <1>k DEF GiveUp
<1>l. ASSUME NEW b \in late, LateRequest(b) PROVE NothingLost'
  <2>1. UNCHANGED <<seen, spool, dead>> /\ store \subseteq store'
    BY <1>l DEF LateRequest, StoreAfter
  <2>2. QED
    BY <2>1
<1>m. CASE Acknowledge
  <2>1. UNCHANGED <<seen, store, dead>> /\ spool' = Without(spool, Ids(batch)) /\ wpc = "acknowledge"
    BY <1>m DEF Acknowledge
  <2>2. \A k \in DOMAIN spool :
          \/ k \in DOMAIN spool' /\ spool'[k] = spool[k]
          \/ \E i \in DOMAIN batch : batch[i].ev.id = spool[k].ev.id
    BY <2>1 DEF Without, Keep, Restrict, Ids
  <2>3. \A k \in DOMAIN spool :
          \/ k \in DOMAIN spool' /\ spool'[k] = spool[k]
          \/ spool[k] \in store
    BY <2>1, <2>2 DEF RequestSound, WorkPending, SeenRows
  <2>4. QED
    BY <2>1, <2>3
<1>o. CASE Quarantine
  <2>1. UNCHANGED <<seen, store>> /\ spool' = Without(spool, Ids(batch)) /\ wpc = "quarantine"
    BY <1>o DEF Quarantine
  <2>2. dead' = {r \in dead : r.ev.id \notin Ids(batch)} \cup Range(batch)
    BY <1>o DEF Quarantine
  <2>3. dead \subseteq dead'
    BY <2>2 DEF SeenRows, WorkPending, Ids
  <2>4. \A k \in DOMAIN spool :
          \/ k \in DOMAIN spool' /\ spool'[k] = spool[k]
          \/ \E i \in DOMAIN batch : batch[i].ev.id = spool[k].ev.id
    BY <2>1 DEF Without, Keep, Restrict, Ids
  <2>5. \A k \in DOMAIN spool :
          \/ k \in DOMAIN spool' /\ spool'[k] = spool[k]
          \/ spool[k] \in dead'
    BY <2>2, <2>4 DEF WorkPending, SeenRows
  <2>6. QED
    BY <2>1, <2>3, <2>5
<1>p. CASE Crash
  BY <1>p DEF Crash, Restart, Empty
<1>q. CASE ExitOnExpiredSource
  BY <1>q DEF ExitOnExpiredSource, Restart, Empty
<1>r. ASSUME NEW d \in Digests, PutSource(d) PROVE NothingLost'
  BY <1>r DEF PutSource
<1>t. CASE ExpireSource \/ DropSource
  BY <1>t DEF ExpireSource, DropSource
<1>u. ASSUME NEW e \in Events, Age(e) PROVE NothingLost'
  BY <1>u DEF Age
<1>v. CASE UNCHANGED vars
  BY <1>v DEF vars
<1>w. QED
  BY <1>a, <1>b, <1>c, <1>d, <1>e, <1>f, <1>g, <1>h, <1>i, <1>j, <1>k, <1>l, <1>m, <1>o, <1>p, <1>q, <1>r, <1>t, <1>u, <1>v DEF Next

\* What was sent is what is pending.
LEMMA UploadStableStep ==
  ASSUME TypeOK, SeenRows, WorkPending, RequestSound, UploadStable, [Next]_vars
  PROVE  UploadStable'
<1> USE DEF UploadStable, InFlight, Range, spoolVars, workerVars, sourceVars
<1>a. ASSUME NEW c \in Conns, NEW e \in Events, Enqueue(c, e) PROVE UploadStable'
  <2>1. UNCHANGED <<store, late>>
    BY <1>a DEF Enqueue
  <2>2. PICK n \in Nat \ {0} :
          /\ DOMAIN spool' = DOMAIN spool \cup {n}
          /\ spool'[n] = Raw(e)
          /\ \A i \in DOMAIN spool : spool'[i] = spool[i]
    BY <1>a, EnqueueRows
  <2>3. spool'[n].ev = e /\ \A x \in seen : x.id # e.id
    BY <1>a, <2>2, EnqueueRows DEF Raw
  <2>4. QED
    BY <2>1, <2>2, <2>3 DEF SeenRows
<1>b. ASSUME NEW c \in Conns, NEW e \in Events, Resubmit(c, e) PROVE UploadStable'
  BY <1>b DEF Resubmit
<1>c. ASSUME NEW c \in Conns, SendToken(c) PROVE UploadStable'
  BY <1>c DEF SendToken
<1>d. CASE Load
  BY <1>d DEF Load, LoadBatch, Keep, Restrict
<1>e. CASE Wake
  BY <1>e DEF Wake, LoadBatch, Keep, Restrict
<1>f. CASE Prepare
  BY <1>f DEF Prepare, Sendable, Keep, Restrict
<1>g. CASE Enrich
  <2>1. UNCHANGED <<store, late>>
    BY <1>g DEF Enrich
  <2>2. PICK i \in DOMAIN spool :
          /\ NeedsSource(spool[i])
          /\ DOMAIN spool' = DOMAIN spool
          /\ spool'[i] = [spool[i] EXCEPT !.src = source]
          /\ \A k \in DOMAIN spool : k # i => spool'[k] = spool[k]
    BY <1>g, EnrichRows
  <2>3. spool'[i].ev = spool[i].ev
    BY <2>2 DEF TypeOK, IsTable, Rows
  <2>4. \A r \in store \cup InFlight : r.ev.id # spool[i].ev.id
    BY <2>2 DEF RequestSound
  <2>5. ASSUME NEW k \in DOMAIN spool, NEW r \in store \cup InFlight, r.ev.id = spool'[k].ev.id
        PROVE  r = spool'[k]
    <3>1. k # i
      BY <2>3, <2>4, <2>5
    <3>2. spool'[k] = spool[k]
      BY <2>2, <3>1
    <3>3. QED
      BY <2>5, <3>2
  <2>6. InFlight' = InFlight
    BY <2>1
  <2>7. QED
    BY <2>1, <2>2, <2>5, <2>6
<1>h. CASE AwaitSource
  BY <1>h DEF AwaitSource, Unsourced, First, Empty
<1>i. CASE QuarantineTrace
  <2>1. UNCHANGED <<store, late>> /\ \A k \in DOMAIN spool' : k \in DOMAIN spool /\ spool'[k] = spool[k]
    BY <1>i DEF QuarantineTrace, Without, Keep, Restrict
  <2>2. QED
    BY <2>1
<1>j. CASE Upload
  <2>1. UNCHANGED <<spool, late>> /\ \A r \in store' : r \in store \/ r \in Range(batch)
    BY <1>j DEF Upload, StoreAfter
  <2>2. \A r \in Range(batch) : \A p \in Range(spool) : r.ev.id = p.ev.id => r = p
    BY DEF WorkPending, SeenRows
  <2>3. QED
    BY <2>1, <2>2
<1>k. CASE GiveUp
  <2>1. UNCHANGED <<spool, store>> /\ late' = late \cup {batch}
    BY <1>k DEF GiveUp
  <2>2. \A r \in Range(batch) : \A p \in Range(spool) : r.ev.id = p.ev.id => r = p
    BY DEF WorkPending, SeenRows
  <2>3. QED
    BY <2>1, <2>2
<1>l. ASSUME NEW b \in late, LateRequest(b) PROVE UploadStable'
  <2>1. UNCHANGED <<spool>> /\ late' \subseteq late /\ \A r \in store' : r \in store \/ r \in Range(b)
    BY <1>l DEF LateRequest, StoreAfter
  <2>2. QED
    BY <2>1
<1>m. CASE Acknowledge
  <2>1. UNCHANGED <<store, late>> /\ \A k \in DOMAIN spool' : k \in DOMAIN spool /\ spool'[k] = spool[k]
    BY <1>m DEF Acknowledge, Without, Keep, Restrict
  <2>2. QED
    BY <2>1
<1>o. CASE Quarantine
  <2>1. UNCHANGED <<store, late>> /\ \A k \in DOMAIN spool' : k \in DOMAIN spool /\ spool'[k] = spool[k]
    BY <1>o DEF Quarantine, Without, Keep, Restrict
  <2>2. QED
    BY <2>1
<1>p. CASE Crash
  <2>1. UNCHANGED <<spool, store>> /\ (late' = late \/ late' = late \cup {batch})
    BY <1>p DEF Crash, Restart
  <2>2. \A r \in Range(batch) : \A p \in Range(spool) : r.ev.id = p.ev.id => r = p
    BY DEF WorkPending, SeenRows
  <2>3. QED
    BY <2>1, <2>2
<1>q. CASE ExitOnExpiredSource
  BY <1>q DEF ExitOnExpiredSource, Restart, Empty
<1>r. ASSUME NEW d \in Digests, PutSource(d) PROVE UploadStable'
  BY <1>r DEF PutSource
<1>t. CASE ExpireSource \/ DropSource
  BY <1>t DEF ExpireSource, DropSource
<1>u. ASSUME NEW e \in Events, Age(e) PROVE UploadStable'
  BY <1>u DEF Age
<1>v. CASE UNCHANGED vars
  BY <1>v DEF vars
<1>w. QED
  BY <1>a, <1>b, <1>c, <1>d, <1>e, <1>f, <1>g, <1>h, <1>i, <1>j, <1>k, <1>l, <1>m, <1>o, <1>p, <1>q, <1>r, <1>t, <1>u, <1>v DEF Next

\* A dead letter stays justified: the window never reopens, and dead letters stay.
LEMMA DeadLetterStep ==
  ASSUME TypeOK, SeenRows, WorkPending, RequestSound, DeadLetterJustified, [Next]_vars
  PROVE  DeadLetterJustified'
<1> USE DEF DeadLetterJustified, spoolVars, workerVars, sourceVars
<1>a. ASSUME NEW c \in Conns, NEW e \in Events, Enqueue(c, e) PROVE DeadLetterJustified'
  <2>1. UNCHANGED <<dead, aged>>
    BY <1>a DEF Enqueue
  <2>2. QED BY <2>1 DEF Acceptable
<1>b. ASSUME NEW c \in Conns, NEW e \in Events, Resubmit(c, e) PROVE DeadLetterJustified'
  <2>1. UNCHANGED <<dead, aged>>
    BY <1>b DEF Resubmit
  <2>2. QED BY <2>1 DEF Acceptable
<1>c. ASSUME NEW c \in Conns, SendToken(c) PROVE DeadLetterJustified'
  <2>1. UNCHANGED <<dead, aged>>
    BY <1>c DEF SendToken
  <2>2. QED BY <2>1 DEF Acceptable
<1>d. CASE Load
  <2>1. UNCHANGED <<dead, aged>>
    BY <1>d DEF Load, LoadBatch, Keep, Restrict
  <2>2. QED BY <2>1 DEF Acceptable
<1>e. CASE Wake
  <2>1. UNCHANGED <<dead, aged>>
    BY <1>e DEF Wake, LoadBatch, Keep, Restrict
  <2>2. QED BY <2>1 DEF Acceptable
<1>f. CASE Prepare
  <2>1. UNCHANGED <<dead, aged>>
    BY <1>f DEF Prepare, Sendable, Keep, Restrict
  <2>2. QED BY <2>1 DEF Acceptable
<1>g. CASE Enrich
  <2>1. UNCHANGED <<dead, aged>>
    BY <1>g DEF Enrich, Unsourced, First
  <2>2. QED BY <2>1 DEF Acceptable
<1>h. CASE AwaitSource
  <2>1. UNCHANGED <<dead, aged>>
    BY <1>h DEF AwaitSource, Unsourced, First, Empty
  <2>2. QED BY <2>1 DEF Acceptable
<1>i. CASE QuarantineTrace
  <2>1. aged' = aged
    BY <1>i DEF QuarantineTrace
  <2>2. PICK i \in DOMAIN batch :
          /\ wpc = "prepare" /\ NeedsSource(batch[i])
          /\ LET gone == {r \in Range(spool) : r.ev.trace = batch[i].ev.trace}
                 ids == {r.ev.id : r \in gone} IN
               dead' = {r \in dead : r.ev.id \notin ids} \cup gone
    BY <1>i DEF QuarantineTrace, Unsourced
  <2>3. batch[i] \in dead'
    BY <2>2 DEF WorkPending, Range
  <2>4. \A r \in dead' : r \in dead \/ r.ev.trace = batch[i].ev.trace
    BY <2>2
  <2>5. \A r \in dead : r \in dead'
    BY <2>2 DEF SeenRows, Range
  <2>6. QED
    BY <2>1, <2>2, <2>3, <2>4, <2>5 DEF Acceptable
<1>j. CASE Upload
  <2>1. UNCHANGED <<dead, aged>>
    BY <1>j DEF Upload
  <2>2. QED BY <2>1 DEF Acceptable
<1>k. CASE GiveUp
  <2>1. UNCHANGED <<dead, aged>>
    BY <1>k DEF GiveUp
  <2>2. QED BY <2>1 DEF Acceptable
<1>l. ASSUME NEW b \in late, LateRequest(b) PROVE DeadLetterJustified'
  <2>1. UNCHANGED <<dead, aged>>
    BY <1>l DEF LateRequest
  <2>2. QED BY <2>1 DEF Acceptable
<1>m. CASE Acknowledge
  <2>1. UNCHANGED <<dead, aged>>
    BY <1>m DEF Acknowledge
  <2>2. QED BY <2>1 DEF Acceptable
<1>o. CASE Quarantine
  <2>1. aged' = aged /\ wpc = "quarantine"
    BY <1>o DEF Quarantine
  <2>2. dead' = {r \in dead : r.ev.id \notin Ids(batch)} \cup Range(batch)
    BY <1>o DEF Quarantine
  <2>3. dead \subseteq dead'
    BY <2>2 DEF SeenRows, WorkPending, Ids, Range
  <2>4. \A r \in dead' : r \in dead \/ ~Acceptable(r)
    BY <2>1, <2>2 DEF RequestSound, Range
  <2>5. QED
    BY <2>1, <2>3, <2>4 DEF Acceptable
<1>p. CASE Crash
  <2>1. UNCHANGED <<dead, aged>>
    BY <1>p DEF Crash, Restart, Empty
  <2>2. QED BY <2>1 DEF Acceptable
<1>q. CASE ExitOnExpiredSource
  <2>1. UNCHANGED <<dead, aged>>
    BY <1>q DEF ExitOnExpiredSource, Restart, Empty
  <2>2. QED BY <2>1 DEF Acceptable
<1>r. ASSUME NEW d \in Digests, PutSource(d) PROVE DeadLetterJustified'
  <2>1. UNCHANGED <<dead, aged>>
    BY <1>r DEF PutSource
  <2>2. QED BY <2>1 DEF Acceptable
<1>t. CASE ExpireSource \/ DropSource
  <2>1. UNCHANGED <<dead, aged>>
    BY <1>t DEF ExpireSource, DropSource
  <2>2. QED BY <2>1 DEF Acceptable
<1>u. ASSUME NEW e \in Events, Age(e) PROVE DeadLetterJustified'
  <2>1. UNCHANGED dead /\ aged \subseteq aged'
    BY <1>u DEF Age
  <2>2. QED
    BY <2>1 DEF Acceptable
<1>v. CASE UNCHANGED vars
  <2>1. UNCHANGED <<dead, aged>>
    BY <1>v DEF vars
  <2>2. QED BY <2>1 DEF Acceptable
<1>w. QED
  BY <1>a, <1>b, <1>c, <1>d, <1>e, <1>f, <1>g, <1>h, <1>i, <1>j, <1>k, <1>l, <1>m, <1>o, <1>p, <1>q, <1>r, <1>t, <1>u, <1>v DEF Next

-----------------------------------------------------------------------------
\* An empty spool and an empty store satisfy the inductive invariant.
LEMMA PipelineInit == Init => PipelineInv
BY DEF Init, PipelineInv, SeenRows, WorkPending, RequestSound, StoreSound, NothingLost, UploadStable,
       DeadLetterJustified, Sending, Working, InFlight, Pending, Stored, DeadLettered, Range, Empty

\* Every step of the pipeline preserves every part of the inductive invariant.
LEMMA PipelineStep == TypeOK /\ PipelineInv /\ [Next]_vars => PipelineInv'
BY WorkPendingStep, SeenRowsStep, RequestSoundStep, StoreSoundStep, NothingLostStep,
   UploadStableStep, DeadLetterStep DEF PipelineInv

\* The inductive invariant holds in every reachable state of the pipeline.
THEOREM PipelineCorrect == Spec => []PipelineInv
BY PipelineInit, PipelineStep, TypeCorrect, PTL DEF Spec

\* Whatever batches, retries, late requests and crashes happen, the Agent's
\* store holds gap-free, single-valued, causally ordered, terminated traces.
THEOREM StoreAlwaysSound == Spec => []StoreSound
BY PipelineCorrect, PTL DEF PipelineInv

\* No event committed to the spool is ever lost.
THEOREM NothingEverLost == Spec => []NothingLost
BY PipelineCorrect, PTL DEF PipelineInv

\* No upload can conflict with what an earlier upload of the same event stored.
THEOREM UploadAlwaysStable == Spec => []UploadStable
BY PipelineCorrect, PTL DEF PipelineInv

\* No failure of the Agent or the network dead letters a good event.
THEOREM DeadLettersJustified == Spec => []DeadLetterJustified
BY PipelineCorrect, PTL DEF PipelineInv

-----------------------------------------------------------------------------
(* The order of the spool.                                                 *)

\* No pending row is ahead of the last sequence number enqueue recorded for its
\* trace.
SpoolRecorded ==
  \A i \in DOMAIN spool : spool[i].ev.seq <= state[spool[i].ev.trace].last

\* Only enqueue adds a row: every other step keeps the events of the rows it
\* leaves in the spool, at their rowids.
LEMMA OnlyEnqueueAdds ==
  ASSUME TypeOK, SeenRows, WorkPending, [Next]_vars,
         \A c \in Conns, e \in Events : ~Enqueue(c, e)
  PROVE  /\ state' = state
         /\ DOMAIN spool' \subseteq DOMAIN spool
         /\ \A i \in DOMAIN spool' : spool'[i].ev = spool[i].ev
<1> DEFINE Kept == /\ state' = state
                   /\ DOMAIN spool' \subseteq DOMAIN spool
                   /\ \A i \in DOMAIN spool' : spool'[i].ev = spool[i].ev
<1> SUFFICES Kept OBVIOUS
<1>1. ASSUME UNCHANGED <<spool, state>> PROVE Kept
  BY <1>1
<1>2. ASSUME NEW ids, spool' = Without(spool, ids), state' = state PROVE Kept
  BY <1>2 DEF Without, Keep, Restrict
<1> HIDE DEF Kept
<1>3. CASE Enrich
  <2>1. state' = state
    BY <1>3 DEF Enrich
  <2>2. PICK i \in DOMAIN batch :
          /\ i \in DOMAIN spool
          /\ DOMAIN spool' = DOMAIN spool
          /\ spool'[i] = [spool[i] EXCEPT !.src = source]
          /\ \A k \in DOMAIN spool : k # i => spool'[k] = spool[k]
    BY <1>3, EnrichRows
  <2>3. spool'[i].ev = spool[i].ev
    BY <2>2 DEF TypeOK, IsTable, Rows
  <2>4. QED BY <2>1, <2>2, <2>3 DEF Kept
<1>4. CASE QuarantineTrace
  BY <1>2, <1>4 DEF QuarantineTrace
<1>5. CASE Acknowledge \/ Quarantine
  BY <1>2, <1>5 DEF Acknowledge, Quarantine
<1>6. CASE Load \/ Wake \/ Prepare \/ AwaitSource \/ Upload \/ GiveUp
  BY <1>1, <1>6 DEF Load, Wake, Prepare, AwaitSource, Upload, GiveUp, spoolVars
<1>7. CASE Crash \/ ExitOnExpiredSource \/ ExpireSource \/ DropSource
  BY <1>1, <1>7 DEF Crash, ExitOnExpiredSource, Restart, ExpireSource, DropSource, spoolVars
<1>8. ASSUME NEW c \in Conns, NEW e \in Events, Resubmit(c, e) PROVE Kept
  BY <1>1, <1>8 DEF Resubmit, spoolVars
<1>9. ASSUME NEW c \in Conns, SendToken(c) PROVE Kept
  BY <1>1, <1>9 DEF SendToken, spoolVars
<1>10. ASSUME NEW b \in late, LateRequest(b) PROVE Kept
  BY <1>1, <1>10 DEF LateRequest, spoolVars
<1>11. ASSUME NEW d \in Digests, PutSource(d) PROVE Kept
  BY <1>1, <1>11 DEF PutSource, spoolVars
<1>12. ASSUME NEW e \in Events, Age(e) PROVE Kept
  BY <1>1, <1>12 DEF Age, spoolVars
<1>13. CASE UNCHANGED vars
  BY <1>1, <1>13 DEF vars, spoolVars
<1>14. QED
  BY <1>3, <1>4, <1>5, <1>6, <1>7, <1>8, <1>9, <1>10, <1>11, <1>12, <1>13 DEF Next

\* A new row comes after all pending ones and continues its trace; every other
\* step leaves a part of the spool as it was.
LEMMA SpoolOrderStep ==
  ASSUME TypeOK, SeenRows, WorkPending, SpoolRecorded, SpoolInOrder, [Next]_vars
  PROVE  SpoolRecorded' /\ SpoolInOrder'
<1>1. CASE \A c \in Conns, e \in Events : ~Enqueue(c, e)
  <2>1. /\ state' = state
        /\ DOMAIN spool' \subseteq DOMAIN spool
        /\ \A i \in DOMAIN spool' : spool'[i].ev = spool[i].ev
    BY <1>1, OnlyEnqueueAdds
  <2>2. QED BY <2>1 DEF SpoolRecorded, SpoolInOrder
<1>2. ASSUME NEW c \in Conns, NEW e \in Events, Enqueue(c, e)
      PROVE  SpoolRecorded' /\ SpoolInOrder'
  <2>1. PICK n \in 1..(Cardinality(Events) + 1) :
          /\ \A i \in DOMAIN spool : i < n
          /\ spool' = [i \in DOMAIN spool \cup {n} |-> IF i = n THEN Raw(e) ELSE spool[i]]
    BY <1>2 DEF Enqueue, IsNextRowid
  <2>2. /\ n \in Nat /\ DOMAIN spool \subseteq Nat
        /\ \A i \in DOMAIN spool : spool[i].ev \in Events
    BY <2>1 DEF TypeOK, IsTable, Rows
  <2>3. /\ DOMAIN spool' = DOMAIN spool \cup {n}
        /\ n \notin DOMAIN spool
        /\ spool'[n].ev = e
        /\ \A i \in DOMAIN spool : spool'[i] = spool[i]
    BY <2>1, <2>2 DEF Raw
  <2>4. /\ e.trace \in Traces
        /\ \A i \in DOMAIN spool : spool[i].ev.trace \in Traces /\ spool[i].ev.seq \in Nat
        /\ e.seq \in Nat
    BY <2>2, EventsAssumption DEF Traces
  <2>5. /\ \A t \in Traces : state[t].last \in Nat
        /\ state'[e.trace].last = e.seq
        /\ \A t \in Traces : t # e.trace => state'[t] = state[t]
        /\ e.seq = state[e.trace].last + 1
    BY <1>2, <2>4 DEF Enqueue, Enqueueable, TypeOK
  <2>6. \A i \in DOMAIN spool : spool[i].ev.trace = e.trace => spool[i].ev.seq < e.seq
    BY <2>4, <2>5 DEF SpoolRecorded
  <2>7. \A i \in DOMAIN spool : spool[i].ev.id # e.id
    BY <1>2 DEF Enqueue, Enqueueable, SeenRows, Range
  <2>8. SpoolRecorded'
    <3> SUFFICES ASSUME NEW i \in DOMAIN spool'
                 PROVE  spool'[i].ev.seq <= state'[spool'[i].ev.trace].last
      BY DEF SpoolRecorded
    <3>1. CASE i = n
      BY <2>3, <2>4, <2>5, <3>1
    <3>2. CASE i \in DOMAIN spool /\ spool[i].ev.trace = e.trace
      BY <2>3, <2>4, <2>5, <2>6, <3>2
    <3>3. CASE i \in DOMAIN spool /\ spool[i].ev.trace # e.trace
      BY <2>3, <2>4, <2>5, <3>3 DEF SpoolRecorded
    <3>4. QED BY <2>3, <3>1, <3>2, <3>3
  <2>9. SpoolInOrder'
    <3> SUFFICES ASSUME NEW i \in DOMAIN spool', NEW j \in DOMAIN spool', i < j
                 PROVE  /\ spool'[i].ev.id # spool'[j].ev.id
                        /\ spool'[i].ev.trace = spool'[j].ev.trace => spool'[i].ev.seq < spool'[j].ev.seq
      BY DEF SpoolInOrder
    <3>1. i \in DOMAIN spool
      BY <2>1, <2>2, <2>3
    <3>2. CASE j = n
      BY <2>3, <2>6, <2>7, <3>1, <3>2
    <3>3. CASE j \in DOMAIN spool
      BY <2>3, <3>1, <3>3 DEF SpoolInOrder
    <3>4. QED BY <2>3, <3>2, <3>3
  <2>10. QED BY <2>8, <2>9
<1>3. QED BY <1>1, <1>2

\* The pending rows of a trace are always in the order of their sequence numbers,
\* so a batch read in rowid order never sends an event before its predecessor.
THEOREM SpoolAlwaysInOrder == Spec => []SpoolInOrder
<1>1. Init => SpoolRecorded /\ SpoolInOrder
  BY DEF Init, SpoolRecorded, SpoolInOrder, Empty
<1>2. TypeOK /\ PipelineInv /\ (SpoolRecorded /\ SpoolInOrder) /\ [Next]_vars
        => (SpoolRecorded /\ SpoolInOrder)'
  BY SpoolOrderStep DEF PipelineInv
<1>3. QED
  BY <1>1, <1>2, TypeCorrect, PipelineCorrect, PTL DEF Spec

-----------------------------------------------------------------------------
(* The store implements the abstract log.                                  *)

\* A step of the Agent keeps the stored rows, and a new row comes after every
\* stored row of its trace, none of which is terminal.
StoreGrows ==
  /\ store \subseteq store'
  /\ \A r \in store' \ store : \A x \in store : x.ev.trace = r.ev.trace =>
       x.ev.seq < r.ev.seq /\ ~Terminal(x.ev)

\* What one batch adds continues the traces of the store.
LEMMA BatchGrows ==
  ASSUME TypeOK, NEW b, IsTable(b), store' = StoreAfter(b),
         \A i, j \in DOMAIN b : b[i].ev.id = b[j].ev.id => i = j
  PROVE  StoreGrows
<1>1. CASE Reply(b) # 204
  BY <1>1 DEF StoreGrows, StoreAfter
<1>2. CASE Reply(b) = 204
  <2>1. /\ \A i \in DOMAIN b : Continues(View(b, i), b[i])
        /\ store' = store \cup Range(b)
    BY <1>2 DEF Reply, StoreAfter
  <2>2. ASSUME NEW r \in store', r \notin store, NEW x \in store, x.ev.trace = r.ev.trace
        PROVE  x.ev.seq < r.ev.seq /\ ~Terminal(x.ev)
    <3>1. PICK i \in DOMAIN b : r = b[i]
      BY <2>1, <2>2 DEF Range
    <3>2. r \notin View(b, i)
      BY <2>2, <3>1 DEF View, IsTable
    <3>3. /\ x \in View(b, i)
          /\ \A y \in View(b, i) : y.ev.trace = r.ev.trace => y.ev.seq < r.ev.seq
          /\ r.ev.seq > 1 => \A y \in View(b, i) : y.ev.trace = r.ev.trace => ~Terminal(y.ev)
      BY <2>1, <3>1, <3>2 DEF Continues, View
    <3>4. x.ev.seq \in Nat \ {0} /\ r.ev.seq \in Nat
      BY <3>1, EventsAssumption DEF TypeOK, IsTable, Rows
    <3>5. QED BY <2>2, <3>3, <3>4
  <2>3. QED BY <2>1, <2>2 DEF StoreGrows
<1>3. QED BY <1>1, <1>2

\* Only the Agent writes to the store: a batch it answers, or a late request.
LEMMA StoreGrowsStep ==
  ASSUME TypeOK, PipelineInv, [Next]_vars
  PROVE  store' = store \/ StoreGrows
<1>1. CASE Upload
  <2>1. store' = StoreAfter(batch) /\ IsTable(batch)
    BY <1>1 DEF Upload, TypeOK
  <2>2. \A i, j \in DOMAIN batch : batch[i].ev.id = batch[j].ev.id => i = j
    BY DEF PipelineInv, WorkPending, SeenRows
  <2>3. QED BY <2>1, <2>2, BatchGrows
<1>2. ASSUME NEW b \in late, LateRequest(b) PROVE store' = store \/ StoreGrows
  <2>1. store' = StoreAfter(b) \/ store' = store
    BY <1>2 DEF LateRequest
  <2>2. IsTable(b) /\ \A i, j \in DOMAIN b : b[i].ev.id = b[j].ev.id => i = j
    BY DEF TypeOK, PipelineInv, RequestSound
  <2>3. QED BY <2>1, <2>2, BatchGrows
<1>3. CASE Load \/ Wake \/ Prepare \/ Enrich \/ AwaitSource \/ QuarantineTrace
  BY <1>3 DEF Load, Wake, Prepare, Enrich, AwaitSource, QuarantineTrace
<1>4. CASE GiveUp \/ Acknowledge \/ Quarantine \/ Crash \/ ExitOnExpiredSource
  BY <1>4 DEF GiveUp, Acknowledge, Quarantine, Crash, ExitOnExpiredSource, Restart
<1>5. CASE ExpireSource \/ DropSource \/ UNCHANGED vars
  BY <1>5 DEF ExpireSource, DropSource, vars
<1>6. ASSUME NEW c \in Conns, NEW e \in Events, Enqueue(c, e) \/ Resubmit(c, e)
      PROVE  store' = store
  BY <1>6 DEF Enqueue, Resubmit
<1>7. ASSUME NEW c \in Conns, SendToken(c) PROVE store' = store
  BY <1>7 DEF SendToken
<1>8. ASSUME NEW d \in Digests, PutSource(d) PROVE store' = store
  BY <1>8 DEF PutSource
<1>9. ASSUME NEW e \in Events, Age(e) PROVE store' = store
  BY <1>9 DEF Age
<1>10. QED
  BY <1>1, <1>2, <1>3, <1>4, <1>5, <1>6, <1>7, <1>8, <1>9 DEF Next

\* The log that a set of rows makes of a trace.
LogOver(S, t) ==
  LET rows == {r \in S : r.ev.trace = t}
  IN [n \in {r.ev.seq : r \in rows} |-> CHOOSE r \in rows : r.ev.seq = n]

\* What StoreSound says of a set of rows: at most one row of a trace has a
\* sequence number; there are no gaps, and nothing after a terminal event.
SingleValued(S) ==
  \A r, x \in S : r.ev.trace = x.ev.trace /\ r.ev.seq = x.ev.seq => r = x

Complete(S) ==
  /\ \A r \in S : r.ev.seq > 1 => \E x \in S : x.ev.trace = r.ev.trace /\ x.ev.seq = r.ev.seq - 1
  /\ \A r, x \in S : r.ev.trace = x.ev.trace /\ Terminal(r.ev) => x.ev.seq <= r.ev.seq

\* The entries of a trace's log are its rows, each at its sequence number.
LEMMA LogEntries ==
  ASSUME NEW S, SingleValued(S), NEW t
  PROVE  /\ LogOver(S, t) = [n \in DOMAIN LogOver(S, t) |-> LogOver(S, t)[n]]
         /\ \A r \in S : r.ev.trace = t =>
              r.ev.seq \in DOMAIN LogOver(S, t) /\ LogOver(S, t)[r.ev.seq] = r
         /\ \A n \in DOMAIN LogOver(S, t) :
              LogOver(S, t)[n] \in S /\ LogOver(S, t)[n].ev.trace = t /\ LogOver(S, t)[n].ev.seq = n
<1> DEFINE rows == {r \in S : r.ev.trace = t}
           nums == {r.ev.seq : r \in rows}
           At(n) == CHOOSE r \in rows : r.ev.seq = n
<1>1. LogOver(S, t) = [n \in nums |-> At(n)]
  BY DEF LogOver
<1>2. \A n \in nums : At(n) \in rows /\ At(n).ev.seq = n
  OBVIOUS
<1>3. \A r \in S : r.ev.trace = t => r.ev.seq \in nums
  OBVIOUS
<1>4. \A r \in rows : r \in S /\ r.ev.trace = t
  OBVIOUS
<1> HIDE DEF At, nums, rows
<1>5. DOMAIN LogOver(S, t) = nums /\ \A n \in nums : LogOver(S, t)[n] = At(n)
  BY <1>1
<1>6. QED BY <1>1, <1>2, <1>3, <1>4, <1>5 DEF SingleValued

\* The log of every trace of sound rows is well formed: numbered from 1 without
\* gaps, with nothing after a terminal event.
LEMMA LogWellFormed ==
  ASSUME NEW S \in SUBSET Rows, SingleValued(S), Complete(S), NEW t
  PROVE  Log!WellFormed(LogOver(S, t))
<1> DEFINE f == LogOver(S, t)
<1>1. /\ \A r \in S : r.ev.trace = t => r.ev.seq \in DOMAIN f /\ f[r.ev.seq] = r
      /\ \A n \in DOMAIN f : f[n] \in S /\ f[n].ev.trace = t /\ f[n].ev.seq = n
  BY LogEntries
<1>2. \A r \in S : r.ev.seq \in Nat \ {0} /\ r \in Rows
  BY EventsAssumption DEF Rows
<1> HIDE DEF f
<1>3. Log!GapFree(f)
  BY <1>1, <1>2 DEF Complete, Log!GapFree
<1>4. Log!ClosedAtEnd(f)
  BY <1>1, <1>2 DEF Complete, Log!ClosedAtEnd
<1>5. \A n \in DOMAIN f : f[n] \in Rows
  BY <1>1, <1>2
<1>6. QED BY <1>3, <1>4, <1>5 DEF Log!WellFormed, f

\* A store that grows only at the ends of its traces extends every log, and
\* leaves a closed log as it is.
LEMMA LogExtends ==
  ASSUME TypeOK, SingleValued(store), SingleValued(store'), StoreGrows, NEW t
  PROVE  /\ Log!Extends(LogOver(store', t), LogOver(store, t))
         /\ Log!Closed(LogOver(store, t)) => LogOver(store', t) = LogOver(store, t)
<1> DEFINE f == LogOver(store, t)
           g == LogOver(store', t)
<1>1. /\ f = [n \in DOMAIN f |-> f[n]]
      /\ \A r \in store : r.ev.trace = t => r.ev.seq \in DOMAIN f /\ f[r.ev.seq] = r
      /\ \A n \in DOMAIN f : f[n] \in store /\ f[n].ev.trace = t /\ f[n].ev.seq = n
  BY LogEntries
<1>2. /\ g = [n \in DOMAIN g |-> g[n]]
      /\ \A r \in store' : r.ev.trace = t => r.ev.seq \in DOMAIN g /\ g[r.ev.seq] = r
      /\ \A n \in DOMAIN g : g[n] \in store' /\ g[n].ev.trace = t /\ g[n].ev.seq = n
  BY LogEntries
<1> HIDE DEF f, g
<1>3. Log!Extends(g, f)
  BY <1>1, <1>2 DEF StoreGrows, Log!Extends
<1>4. ASSUME Log!Closed(f) PROVE g = f
  <2>1. PICK n \in DOMAIN f : Terminal(f[n].ev)
    BY <1>4 DEF Log!Closed
  <2>2. \A r \in store' : r.ev.trace = t => r \in store
    BY <1>1, <2>1 DEF StoreGrows
  <2>3. DOMAIN g = DOMAIN f
    BY <1>1, <1>2, <1>3, <2>2 DEF Log!Extends
  <2>4. QED BY <1>1, <1>2, <1>3, <2>3 DEF Log!Extends
<1>5. QED BY <1>3, <1>4 DEF f, g

\* Whatever batches, retries, late requests and crashes happen, the readers of the
\* evidence store see the logs of TraceLog: they grow at their ends only, no entry
\* changes and nothing follows a terminal event.
THEOREM StoreImplementsLog == Spec => ImplementsLog
<1>1. Init => Log!Init
  <2> SUFFICES ASSUME Init PROVE Log!Init
    OBVIOUS
  <2>1. store = {}
    BY DEF Init
  <2>2. ASSUME NEW t PROVE LogOf(t) = <<>>
    BY <2>1 DEF LogOf
  <2>3. QED BY <2>2 DEF Log!Init
<1>2. ASSUME TypeOK, TypeOK', PipelineInv, PipelineInv', [Next]_vars
      PROVE  [Log!Extend]_([t \in Traces |-> LogOf(t)])
  <2>1. \A t : LogOf(t) = LogOver(store, t) /\ (LogOf(t))' = LogOver(store', t)
    BY DEF LogOf, LogOver
  <2>2. CASE store' = store
    BY <2>1, <2>2
  <2>3. CASE StoreGrows
    <3>1. SingleValued(store) /\ SingleValued(store')
      BY <1>2 DEF SingleValued, StoreSound, PipelineInv
    <3>2. \A t : /\ Log!Extends(LogOver(store', t), LogOver(store, t))
                 /\ Log!Closed(LogOver(store, t)) => LogOver(store', t) = LogOver(store, t)
      BY <1>2, <2>3, <3>1, LogExtends
    <3>3. store' \in SUBSET Rows /\ Complete(store')
      BY <1>2 DEF TypeOK, Complete, StoreSound, PipelineInv
    <3>4. \A t : Log!WellFormed(LogOver(store', t))
      BY <3>1, <3>3, LogWellFormed
    <3>5. QED BY <2>1, <3>2, <3>4 DEF Log!Extend
  <2>4. QED BY <1>2, <2>2, <2>3, StoreGrowsStep
<1>3. QED
  BY <1>1, <1>2, TypeCorrect, PipelineCorrect, PTL DEF Spec, ImplementsLog, Log!Spec
=============================================================================
