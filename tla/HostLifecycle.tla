---------------------------- MODULE HostLifecycle ----------------------------
(***************************************************************************)
(* The lifecycle tool of a resolver host (product-kit lifecycle.py and     *)
(* load_images.py): prepare-secrets, preflight, install with and without   *)
(* --no-start, activate, rollback and uninstall.  Every write to the disk  *)
(* or call of docker that another run of the tool can see is a step, and   *)
(* the process may stop between any two of them.                           *)
(*                                                                         *)
(* A package is a version with the configuration it is installed with; its *)
(* release directory is named after the version alone.  The services of a  *)
(* resolver come up in phases (registry_ready, agent_trace_ready,          *)
(* resolver_ready and, on R1, wrapper_shadow_ready), those of a Norn node  *)
(* in one.  One run of the tool at a time: a second one ends at the lock,  *)
(* and activate and backup, which do not take it, are left to run alone.   *)
(***************************************************************************)
EXTENDS Naturals, FiniteSets, Sequences

CONSTANTS
    Package,         \* records [v, c]: a version with its configuration
    ImagesOf,        \* ImagesOf[p]: the images the package's manifest lists
    ProbesOf,        \* ProbesOf[role]: the probe of each phase that the role starts
    MaxOps,          \* bound: runs of the tool
    MaxCrashes       \* bound: runs that are killed

ASSUME Parameters ==
    /\ \A p \in Package : p.v \in Nat \ {0}
    /\ \A r \in DOMAIN ProbesOf : ProbesOf[r] \in Seq({"http", "dns", "grpc", "none"})
    /\ {MaxOps, MaxCrashes} \subseteq Nat

VARIABLES
    role,      \* what this machine is; it never changes
    missing,   \* what preflight still misses on this machine
    images,    \* images docker has, by their local tag
    releases,  \* release directories, each with its .installed.json
    current,   \* the current symlink, or None
    previous,  \* state/previous-release, or None
    file,      \* state/install-state.json
    data,      \* the data directory and the install id of its marker (0: none)
    running,   \* running[i]: the release that service i runs from, or None
    locked,    \* .install.lock
    op,        \* the run of the tool in progress
    spent      \* what has been used of the bounds, and of install ids

vars == <<role, missing, images, releases, current, previous, file, data, running,
          locked, op, spent>>

None == [v |-> 0, c |-> 0]
Release == Package \cup {None}
NumPhases == Len(ProbesOf[role])
Phase == 1..NumPhases
Prerequisite == {"configuration", "tokens", "certificates", "host", "machine"}

\* The state file: its status, the package it is of, the install id with the host
\* and role (0 when the file does not have them), whether the images are loaded,
\* the phases that are ready, and the active and the staged release.
NoState == [status |-> "none", pkg |-> None, id |-> 0, loaded |-> FALSE,
            phases |-> {}, active |-> None, staged |-> None]

\* st is the run's own copy of the state, tgt the release it starts, prev the one
\* it falls back to.  kind, outcome and before (the release that was current when
\* the run began) are kept after it has ended, for the properties.
NoOp == [pc |-> "idle", kind |-> "none", outcome |-> "none", before |-> None,
         pkg |-> None, flag |-> FALSE, st |-> NoState, tgt |-> None, prev |-> None,
         i |-> 1, new |-> {}]

Goto(pc) == op' = [op EXCEPT !.pc = pc]

\* The state file is replaced in one step: a reader, also one after a crash, finds
\* the old or the new one.
Save(st) == file' = st

\* The state is of this host and role, and has an install id.
StateOfThisHost == file.id # 0

\* The same names with the same contents, by the hash of the package's tree and
\* of the configuration's.
SamePackage(p, q) == p = q

Services(r) == [i \in Phase |-> r]
AllDown == running = Services(None)

-----------------------------------------------------------------------------
(* Before an installation.                                                 *)

\* prepare-secrets generates the Agent key, the tokens and a CSR that do not
\* exist yet, and waits for the certificates.
PrepareSecrets ==
    /\ op.pc = "idle"
    /\ "tokens" \in missing
    /\ missing' = missing \ {"tokens"}
    /\ UNCHANGED <<images, releases, current, previous, file, data, running,
                   locked, op, spent>>

\* The configuration is rendered and the certificates are signed elsewhere; the
\* operator repairs the machine.
Provide(what) ==
    /\ op.pc = "idle"
    /\ what \in missing \ {"tokens"}
    /\ missing' = missing \ {what}
    /\ UNCHANGED <<images, releases, current, previous, file, data, running,
                   locked, op, spent>>

\* .env is of this host, pins every image and keeps the role's invariants.
ConfigurationValid == "configuration" \notin missing

\* Every secret of the role is there, restricted, and its keys and certificates
\* match.
SecretTreeValid == {"tokens", "certificates"} \cap missing = {}

\* The machine bears the name that the package was made for.
HostMatches == "host" \notin missing

\* System, resources, addresses, docker.
MachineReady == "machine" \notin missing

\* The role's ports can be bound; not asked when a release is active already.
PortsAvailable == current = None => AllDown

Preflight == ConfigurationValid /\ SecretTreeValid /\ HostMatches /\ MachineReady /\ PortsAvailable

\* A run begins: install (flag: --no-start), activate, rollback, backup or uninstall
\* (flag: --purge-data).
Begin(kind, p, flag) ==
    /\ op.pc = "idle"
    /\ spent.ops < MaxOps
    /\ kind = "install" => Preflight
    /\ spent' = [spent EXCEPT !.ops = @ + 1]
    /\ op' = [NoOp EXCEPT !.kind = kind, !.pkg = p, !.flag = flag, !.pc = "enter",
                          !.before = current]
    /\ UNCHANGED <<missing, images, releases, current, previous, file, data, running, locked>>

Ended(outcome) ==
    [NoOp EXCEPT !.kind = op.kind, !.flag = op.flag, !.before = op.before, !.outcome = outcome]

\* Refused before anything has been changed; a lock taken by this run is released.
Refuse == op' = Ended("failed") /\ UNCHANGED <<file, locked>>

-----------------------------------------------------------------------------
(* install                                                                 *)

\* Mutant of InstallEnter: the state file is first written at a later phase.
InstallEnterUnsaved ==
    LET fresh == [NoState EXCEPT !.pkg = op.pkg, !.id = spent.ids + 1] IN
    /\ op.kind = "install" /\ op.pc = "enter"
    /\ ~locked
    /\ file.id # 0 => file.pkg = op.pkg
    /\ op' = [op EXCEPT !.st = [(IF file.id # 0 THEN file ELSE fresh) EXCEPT !.status = "running"],
                        !.prev = current, !.pc = "images"]
    /\ locked' = TRUE
    /\ spent' = [spent EXCEPT !.ids = @ + 1]
    /\ UNCHANGED <<missing, images, releases, current, previous, file, data, running>>

\* Under the lock: the state is of this host; another package than the one it
\* names is only staged, beside a complete active one; status becomes running.
InstallEnter ==
    LET same == file # NoState /\ SamePackage(file.pkg, op.pkg)
        next == /\ op.flag /\ file.status = "complete" /\ current # None
        new == [NoState EXCEPT !.pkg = op.pkg, !.id = file.id, !.active = file.active]
        fresh == [NoState EXCEPT !.pkg = op.pkg, !.id = spent.ids + 1]
        st == IF file = NoState THEN fresh ELSE IF same THEN file ELSE new IN
    /\ op.kind = "install" /\ op.pc = "enter"
    /\ IF locked \/ (file # NoState /\ ~(StateOfThisHost /\ (same \/ next)))
       THEN Refuse /\ UNCHANGED spent
       ELSE /\ Save([st EXCEPT !.status = "running"])
            /\ op' = [op EXCEPT !.st = file', !.prev = current, !.pc = "images"]
            /\ locked' = TRUE
            /\ spent' = [spent EXCEPT !.ids = IF file = NoState THEN @ + 1 ELSE @]
    /\ UNCHANGED <<missing, images, releases, current, previous, data, running>>

\* verify_loaded: docker has the image under its local tag, with the right id.
Loaded(m) == m \in images

RemoveImages(S) == images' = images \ S

\* load_images: what docker has under its local tag is kept, the rest is loaded
\* one after another; the phase is recorded when all are there.
LoadImage ==
    /\ op.pc = "images"
    /\ \/ \E m \in ImagesOf[op.pkg] :
             /\ ~op.st.loaded /\ ~Loaded(m)
             /\ images' = images \cup {m}
             /\ op' = [op EXCEPT !.new = @ \cup {m}]
             /\ UNCHANGED file
       \/ /\ op.st.loaded \/ \A m \in ImagesOf[op.pkg] : Loaded(m)
          /\ op' = [op EXCEPT !.pc = "data", !.new = {}, !.st.loaded = TRUE]
          /\ Save(op'.st)
          /\ UNCHANGED images
    /\ UNCHANGED <<missing, releases, current, previous, data, running, locked, spent>>

\* Mutant of LoadFails: every image of the manifest is removed.
LoadFailsRemovingAll ==
    /\ op.pc = "images" /\ ~op.st.loaded
    /\ RemoveImages(ImagesOf[op.pkg])
    /\ op' = [op EXCEPT !.pc = "undo", !.new = {}]
    /\ UNCHANGED <<missing, releases, current, previous, file, data, running, locked, spent>>

\* A load that fails removes what it has loaded itself.
LoadFails ==
    /\ op.pc = "images" /\ ~op.st.loaded
    /\ RemoveImages(op.new)
    /\ op' = [op EXCEPT !.pc = "undo", !.new = {}]
    /\ UNCHANGED <<missing, releases, current, previous, file, data, running, locked, spent>>

\* An existing data directory must carry this installation's marker; a new one
\* is created first and marked next.
EnsureOwnedData ==
    LET owned == [op EXCEPT !.pc = "release", !.tgt = op.pkg] IN
    /\ \/ /\ op.pc = "data" /\ data.dir
          /\ IF data.id = op.st.id THEN op' = owned ELSE Goto("undo")
          /\ UNCHANGED data
       \/ /\ op.pc = "data" /\ ~data.dir
          /\ data' = [dir |-> TRUE, id |-> 0]
          /\ Goto("marker")
       \/ /\ op.pc = "marker"
          /\ data' = [data EXCEPT !.id = op.st.id]
          /\ op' = owned
    /\ UNCHANGED <<missing, images, releases, current, previous, file, running, locked, spent>>

\* The release directory: an existing one must be of this very package; a new one
\* is renamed into place.  Then compose checks the configuration, and the run
\* goes on to stage or to start it.
EnsureRelease ==
    /\ op.pc = "release"
    /\ IF \A r \in releases : r.v = op.pkg.v => SamePackage(r, op.pkg)
       THEN /\ releases' = releases \cup {op.pkg}
            /\ \/ op' = [op EXCEPT !.prev = current, !.pc = IF op.flag THEN "record" ELSE "up"]
               \/ Goto("undo")
       ELSE /\ UNCHANGED releases
            /\ Goto("undo")
    /\ UNCHANGED <<missing, images, current, previous, file, data, running, locked, spent>>

-----------------------------------------------------------------------------
(* start_ordered, for install, activate and rollback.                      *)

\* What a probe may find: "ready", "retry" (ask again until the timeout) or
\* "refused" (give up at once).  A readiness page is ready with a 2xx answer.
HttpReady(i) == IF running[i] = None THEN {"retry"} ELSE {"ready", "retry"}

\* The root is asked over UDP and over TCP; an answer with this query's ID that is
\* not SERVFAIL will do.
DnsQuery(i) == IF running[i] = None THEN {"retry"} ELSE {"ready", "retry"}

\* The block number of the Norn node: what cannot be reached, or answers 5xx, is
\* asked again; missing TLS material or an answer that does not decode is final.
NornGrpcReady(i) == (IF running[i] = None THEN {"retry"} ELSE {"ready", "retry"}) \cup {"refused"}

ReadinessProbe(i) ==
    CASE ProbesOf[role][i] = "http" -> HttpReady(i)
      [] ProbesOf[role][i] = "dns" -> DnsQuery(i)
      [] ProbesOf[role][i] = "grpc" -> NornGrpcReady(i)
      [] ProbesOf[role][i] = "none" -> {"ready"}

\* Only a resolver's phases are skipped when the state records them.
Skippable(i) == i \in op.st.phases /\ ProbesOf[role][i] \in {"http", "dns"}

NextPhase == [op EXCEPT !.i = @ + 1, !.pc = IF op.i = NumPhases THEN "switch" ELSE "up"]

\* Mutant of StartPhase: a recorded phase is skipped without a probe.
StartPhaseUnprobed ==
    /\ op.pc = "up"
    /\ \/ /\ Skippable(op.i)
          /\ op' = NextPhase
          /\ UNCHANGED running
       \/ /\ ~Skippable(op.i)
          /\ running' = [running EXCEPT ![op.i] = op.tgt]
          /\ Goto("ready")
    /\ UNCHANGED <<missing, images, releases, current, previous, file, data, locked, spent>>

\* A phase that the state records and whose service answers the probe is
\* skipped; any other is (re)created from the target by compose up.
StartPhase ==
    /\ op.pc = "up"
    /\ \/ /\ Skippable(op.i) /\ "ready" \in ReadinessProbe(op.i)
          /\ op' = NextPhase
          /\ UNCHANGED running
       \/ /\ Skippable(op.i) => "retry" \in ReadinessProbe(op.i)
          /\ running' = [running EXCEPT ![op.i] = op.tgt]
          /\ Goto("ready")
    /\ UNCHANGED <<missing, images, releases, current, previous, file, data, locked, spent>>

\* The probe of the phase succeeds before the timeout.
PhaseReady ==
    /\ op.pc = "ready"
    /\ "ready" \in ReadinessProbe(op.i)
    /\ op' = [NextPhase EXCEPT !.st.phases = @ \cup {op.i}]
    /\ Save(op'.st)
    /\ UNCHANGED <<missing, images, releases, current, previous, data, running, locked, spent>>

SwitchCurrent ==
    /\ op.pc = "switch"
    /\ current' = op.tgt
    /\ Goto("record")
    /\ UNCHANGED <<missing, images, releases, previous, file, data, running, locked, spent>>

\* previous-release, then the state; the lock is released.
RecordPrevious ==
    /\ op.pc = "record"
    /\ previous' = IF op.kind = "rollback" \/ (op.prev # None /\ op.prev # op.tgt)
                   THEN op.prev ELSE previous
    /\ Goto("commit")
    /\ UNCHANGED <<missing, images, releases, current, file, data, running, locked, spent>>

Commit ==
    /\ op.pc = "commit"
    /\ Save(IF op.kind = "uninstall" THEN [op.st EXCEPT !.status = "uninstalled"]
            ELSE IF op.kind = "install" /\ op.flag
            THEN [op.st EXCEPT !.status = "staged", !.active = op.prev, !.staged = op.tgt]
            ELSE [op.st EXCEPT !.status = "complete", !.active = op.tgt, !.staged = None])
    /\ op' = Ended("ok")
    /\ locked' = FALSE
    /\ UNCHANGED <<missing, images, releases, current, previous, data, running, spent>>

-----------------------------------------------------------------------------
(* activate, rollback, uninstall                                           *)

\* The staged release of a state that is this host's; no lock is taken.
ActivateEnter ==
    /\ op.kind = "activate" /\ op.pc = "enter"
    /\ IF StateOfThisHost /\ file.status = "staged" /\ file.staged \in releases
       THEN op' = [op EXCEPT !.st = file, !.tgt = file.staged, !.prev = current, !.pc = "up"]
       ELSE op' = Ended("failed")
    /\ UNCHANGED <<missing, images, releases, current, previous, file, data, running,
                   locked, spent>>

\* A release is current, the state is of this host.
ActiveInstall == current # None /\ StateOfThisHost

\* The lock, and the release that previous-release names.
RollbackEnter ==
    /\ op.kind = "rollback" /\ op.pc = "enter"
    /\ IF ActiveInstall /\ ~locked /\ previous \in releases
       THEN /\ op' = [op EXCEPT !.st = file, !.tgt = previous, !.prev = current, !.pc = "up"]
            /\ locked' = TRUE
            /\ UNCHANGED file
       ELSE Refuse
    /\ UNCHANGED <<missing, images, releases, current, previous, data, running, spent>>

UninstallEnter ==
    /\ op.kind = "uninstall" /\ op.pc = "enter"
    /\ IF ActiveInstall /\ ~locked /\ (op.flag => data.id = file.id)
       THEN /\ op' = [op EXCEPT !.st = file, !.pc = "stop"]
            /\ locked' = TRUE
            /\ UNCHANGED file
       ELSE Refuse
    /\ UNCHANGED <<missing, images, releases, current, previous, data, running, spent>>

\* compose down, the symlink, the data.
Uninstall ==
    /\ op.kind = "uninstall"
    /\ \/ /\ op.pc = "stop"
          /\ running' = Services(None)
          /\ Goto("unlink")
          /\ UNCHANGED <<current, data>>
       \/ /\ op.pc = "unlink"
          /\ current' = None
          /\ Goto("purge")
          /\ UNCHANGED <<running, data>>
       \/ /\ op.pc = "purge"
          /\ data' = IF op.flag THEN [dir |-> FALSE, id |-> 0] ELSE data
          /\ Goto("commit")
          /\ UNCHANGED <<running, current>>
    /\ UNCHANGED <<missing, images, releases, previous, file, locked, spent>>

\* backup takes no lock.  It reads the data of this installation while the
\* services run: the database through SQLite's online backup, whose copy must
\* pass the integrity check, the other files as they are.
Backup ==
    /\ op.kind = "backup" /\ op.pc = "enter"
    /\ \/ ActiveInstall /\ data.id = file.id /\ op' = Ended("ok")
       \/ op' = Ended("failed")
    /\ UNCHANGED <<missing, images, releases, current, previous, file, data, running,
                   locked, spent>>

-----------------------------------------------------------------------------
(* What goes wrong.                                                        *)

\* A step fails: compose, a probe that times out, the disk.  install catches all
\* of them; activate and rollback only what happens up to the switch; what
\* uninstall and the others raise ends the run, which releases the lock it took.
StepFails ==
    LET caught == op.kind = "install" \/ op.pc \in {"up", "ready"}
        started == op.kind = "install" /\ ~op.flag /\ op.pc \in {"up", "ready", "record", "commit"} IN
    /\ op.pc \in {"data", "release", "up", "ready", "record", "commit", "stop", "purge"}
    /\ IF caught
       THEN /\ Goto(IF started THEN "down" ELSE "undo")
            /\ UNCHANGED locked
       ELSE /\ op' = Ended("failed")
            /\ locked' = (locked /\ op.kind = "activate")
    /\ UNCHANGED <<missing, images, releases, current, previous, file, data, running, spent>>

\* Nothing has been started: the pointer as it was.
Undo ==
    /\ op.pc = "undo"
    /\ current' = IF op.kind = "activate" /\ op.prev = None THEN current ELSE op.prev
    /\ IF op.kind = "install"
       THEN Goto("fail") /\ UNCHANGED locked
       ELSE /\ op' = Ended("failed")
            /\ locked' = (locked /\ op.kind = "activate")
    /\ UNCHANGED <<missing, images, releases, previous, file, data, running, spent>>

\* Mutant of RestoreDown: the pointer stays on the release that failed.
RestoreDownOnly ==
    /\ op.pc = "down"
    /\ running' = Services(None)
    /\ op' = [op EXCEPT !.pc = IF op.prev = None THEN "fail" ELSE "restore", !.i = 1]
    /\ UNCHANGED <<missing, images, releases, current, previous, file, data, locked, spent>>

\* _restore_previous_release: everything down, the pointer back, and the
\* services of the previous release up again, in order.
RestoreDown ==
    /\ op.pc = "down"
    /\ running' = Services(None)
    /\ current' = op.prev
    /\ op' = [op EXCEPT !.pc = IF op.prev = None THEN "fail" ELSE "restore", !.i = 1]
    /\ UNCHANGED <<missing, images, releases, previous, file, data, locked, spent>>

\* Each phase writes the state file from a recovery state that has nothing else.
RestorePhase ==
    /\ op.pc = "restore"
    /\ \/ /\ running' = [running EXCEPT ![op.i] = op.prev]
          /\ Save([NoState EXCEPT !.phases = 1..op.i])
          /\ op' = [op EXCEPT !.i = @ + 1, !.pc = IF op.i = NumPhases THEN "fail" ELSE "restore"]
       \/ /\ running' \in {running, [running EXCEPT ![op.i] = op.prev]}
          /\ op' = [op EXCEPT !.pc = "fail", !.prev = None]
          /\ UNCHANGED file
    /\ UNCHANGED <<missing, images, releases, current, previous, data, locked, spent>>

InstallFailed ==
    /\ op.pc = "fail"
    /\ Save([op.st EXCEPT !.status = "failed", !.active = op.prev, !.staged = op.tgt])
    /\ op' = Ended("failed")
    /\ locked' = FALSE
    /\ UNCHANGED <<missing, images, releases, current, previous, data, running, spent>>

\* The process is killed; a lock it holds stays, until somebody removes it.
Crash ==
    /\ op.pc # "idle"
    /\ spent.crashes < MaxCrashes
    /\ spent' = [spent EXCEPT !.crashes = @ + 1]
    /\ op' = Ended("crashed")
    /\ UNCHANGED <<missing, images, releases, current, previous, file, data, running, locked>>

RemoveLock ==
    /\ op.pc = "idle" /\ locked
    /\ locked' = FALSE
    /\ UNCHANGED <<missing, images, releases, current, previous, file, data, running, op, spent>>

-----------------------------------------------------------------------------
\* A machine on which nothing has been prepared or installed.
Init ==
    /\ role \in DOMAIN ProbesOf
    /\ missing = Prerequisite
    /\ images = {} /\ releases = {}
    /\ current = None /\ previous = None
    /\ file = NoState
    /\ data = [dir |-> FALSE, id |-> 0]
    /\ running = Services(None)
    /\ locked = FALSE
    /\ op = NoOp
    /\ spent = [ops |-> 0, crashes |-> 0, ids |-> 0]

Next ==
    /\ UNCHANGED role
    /\ \/ PrepareSecrets \/ (\E what \in Prerequisite : Provide(what))
       \/ \E p \in Package, flag \in BOOLEAN : Begin("install", p, flag)
       \/ Begin("activate", None, FALSE) \/ Begin("rollback", None, FALSE)
       \/ Begin("backup", None, FALSE)
       \/ \E flag \in BOOLEAN : Begin("uninstall", None, flag)
       \/ InstallEnter \/ LoadImage \/ LoadFails \/ EnsureOwnedData \/ EnsureRelease
       \/ StartPhase \/ PhaseReady \/ SwitchCurrent \/ RecordPrevious \/ Commit
       \/ ActivateEnter \/ RollbackEnter \/ UninstallEnter \/ Uninstall \/ Backup
       \/ StepFails \/ Undo \/ RestoreDown \/ RestorePhase \/ InstallFailed
       \/ Crash \/ RemoveLock

Spec == Init /\ [][Next]_vars

-----------------------------------------------------------------------------

\* The install id of the state file is the one in the marker of the data
\* directory, wherever a run was stopped: the id is on the disk before the
\* directory is marked with it (lifecycle.py:1047, 933).  A data directory whose
\* state has another id could be neither used nor purged.
DataOwned ==
    data.id # 0 /\ file.id # 0 => data.id = file.id

\* An installation that fails leaves the current pointer on the release it found
\* there, whichever step failed, the recovery included (lifecycle.py:1097-1109).
FailedInstallKeepsCurrent ==
    op.pc = "idle" /\ op.kind = "install" /\ op.outcome = "failed" => current = op.before

\* A run that started a release and succeeded leaves every service running, also
\* when the state records phases of an earlier life of the host
\* (lifecycle.py:835).
StartedServes ==
    /\ op.pc = "idle" /\ op.outcome = "ok"
    /\ op.kind \in {"activate", "rollback"} \/ (op.kind = "install" /\ ~op.flag)
    => \A i \in Phase : running[i] # None

\* The images of the current release stay loaded, also when a later package with
\* some of the same images fails to load (load_images.py:142-162).
ImagesKept ==
    current # None => ImagesOf[current] \subseteq images
==============================================================================
