------------------------- MODULE HostLifecycleProofs -------------------------
(***************************************************************************)
(* Proofs about the lifecycle tool of a resolver host, for any packages,   *)
(* any images, any role with any number of phases and any number of runs   *)
(* and crashes.                                                            *)
(***************************************************************************)
EXTENDS HostLifecycle, TLAPS

-----------------------------------------------------------------------------
(* The inductive invariant, part by part.                                  *)

Status == {"none", "running", "failed", "complete", "staged", "uninstalled"}
StateFile == [status : Status, pkg : Release, id : Nat, loaded : BOOLEAN,
              phases : SUBSET Nat, active : Release, staged : Release]

InstallOnly == {"images", "data", "marker", "release", "down", "restore", "fail"}
UninstallOnly == {"stop", "unlink", "purge"}
Shared == {"idle", "enter", "up", "ready", "switch", "record", "commit", "undo"}
Kind == {"none", "install", "activate", "rollback", "backup", "uninstall"}
Image == UNION {ImagesOf[p] : p \in Package}

Run == [pc : InstallOnly \cup UninstallOnly \cup Shared, kind : Kind,
        outcome : {"none", "ok", "failed", "crashed"}, before : Release,
        pkg : Release, flag : BOOLEAN, st : StateFile, tgt : Release,
           prev : Release,
        i : Nat \ {0}, new : SUBSET Image]

TypeInv ==
    /\ images \subseteq Image /\ releases \subseteq Package
    /\ current \in Release /\ previous \in Release
    /\ file \in StateFile
    /\ data \in [dir : BOOLEAN, id : Nat]
    /\ running \in [Phase -> Release]
    /\ locked \in BOOLEAN
    /\ op \in Run
    /\ spent \in [ops : Nat, crashes : Nat, ids : Nat]

\* The run is past its first step: it has read the state file.
Working == op.pc \notin {"idle", "enter"}

\* Which steps belong to which command.
StepsInv ==
    /\ op.pc \in InstallOnly => op.kind = "install"
    /\ op.pc \in UninstallOnly => op.kind = "uninstall"
    /\ op.kind = "install" /\ op.pc # "idle" => op.pkg \in Package
    /\ op.kind = "install" /\ Working => op.st.pkg = op.pkg
    /\ op.kind = "install" /\ op.pc \in {"up", "ready", "switch"} => ~op.flag

\* The install id: what the marker, the state file and the run have seen of it.
IdInv ==
    /\ DataOwned
    /\ file = NoState => data.id = 0
    /\ Working => /\ op.st.id # 0
                  /\ data.id # 0 => data.id = op.st.id
                  /\ op.pc \notin {"restore", "fail"} => file.id = op.st.id

\* The pointer while an installation runs, and where it falls back to.
PointerInv ==
    /\ FailedInstallKeepsCurrent
    /\ op.kind = "install" /\ op.pc = "enter" => current = op.before
    /\ op.kind = "install" /\ Working =>
         /\ op.pc # "fail" => op.prev = op.before
         /\ op.pc \notin {"record", "commit", "down"} \/ (op.flag /\ op.pc # "down")
              => current = op.before

\* The releases that a pointer may name are complete, with their images.
ReleaseInv ==
    /\ current # None => current \in releases
    /\ op.prev # None => op.prev \in releases
    /\ op.pc \in {"up", "ready", "switch"} => op.tgt \in releases
    /\ op.pc = "release" => op.tgt = op.pkg

\* What the state file says is loaded is; what a run has just loaded no release
\* needs.
LoadedInv ==
    /\ \A r \in releases : ImagesOf[r] \subseteq images
    /\ \A r \in releases : ImagesOf[r] \cap op.new = {}
    /\ file.loaded => ImagesOf[file.pkg] \subseteq images
    /\ op.pc = "images" => file = op.st
    /\ op.pc # "images" => op.new = {}
    /\ Working /\ op.st.loaded => ImagesOf[op.st.pkg] \subseteq images
    /\ op.pc \in {"data", "marker", "release"} => ImagesOf[op.pkg] \subseteq images

\* The command starts a release.
Starts == op.kind \in {"activate", "rollback"} \/ (op.kind = "install" /\ ~op.flag)

\* The services of the phases that the run has been through are up.
ServeInv ==
    /\ StartedServes
    /\ op.pc \in {"enter", "images", "data", "marker", "release"} => op.i = 1
    /\ op.pc \in {"up", "ready"} => \A j \in Phase : j < op.i => running[j] # None
    /\ op.pc = "ready" /\ op.i \in Phase => running[op.i] # None
    /\ Starts /\ op.pc \in {"switch", "record", "commit"} =>
         \A j \in Phase : running[j] # None

LifecycleInv ==
    TypeInv /\ StepsInv /\ IdInv /\ PointerInv /\ ReleaseInv /\ LoadedInv /\ ServeInv

-----------------------------------------------------------------------------
(* What the building blocks of the actions do to the run, field by field.  *)

\* No package is taken for the absence of one: versions are positive.
LEMMA PackageIsNotNone == \A p \in Package : p # None
BY Parameters DEF None

\* The phases form an interval.
LEMMA PhasesAreNat == Phase \subseteq Nat \ {0}
BY DEF Phase

\* The state of a run that has not begun, and an empty state file, are well formed.
LEMMA EmptyStates == NoState \in StateFile /\ NoOp \in Run
BY DEF NoState, NoOp, StateFile, Status, Run, Release, Kind, Shared

\* What a run is about, which none of its steps changes.
SameRun ==
    /\ op'.kind = op.kind /\ op'.outcome = op.outcome /\ op'.before = op.before
    /\ op'.pkg = op.pkg /\ op'.flag = op.flag

\* The role, and with it the phases, are fixed.
LEMMA PhasesFixed == Next => Phase' = Phase
BY DEF Next, Phase, NumPhases

\* Only the step changes.
LEMMA GotoFields ==
  ASSUME op \in Run, NEW x \in InstallOnly \cup UninstallOnly \cup Shared, Goto(x)
  PROVE  /\ op' \in Run
         /\ op'.pc = x /\ SameRun
         /\ op'.st = op.st /\ op'.tgt = op.tgt /\ op'.prev = op.prev
         /\ op'.i = op.i /\ op'.new = op.new
BY DEF Goto, Run, SameRun

\* What is remembered of a run that has ended.
LEMMA EndedFields ==
  ASSUME op \in Run, NEW x \in {"none", "ok", "failed", "crashed"}, op' = Ended(x)
  PROVE  /\ op' \in Run
         /\ op'.pc = "idle" /\ op'.kind = op.kind /\ op'.outcome = x
         /\ op'.before = op.before /\ op'.flag = op.flag /\ op'.st = NoState
         /\ op'.tgt = None /\ op'.prev = None /\ op'.i = 1 /\ op'.new = {}
<1>1. Ended(x) \in Run
  BY EmptyStates DEF Ended, Run
<1>2. QED
  BY <1>1 DEF Ended, NoOp

\* A run at its first step.
LEMMA BeginFields ==
  ASSUME TypeInv, NEW kind \in Kind, NEW p \in Release, NEW flag \in BOOLEAN,
         Begin(kind, p, flag)
  PROVE  /\ op' \in Run /\ op.pc = "idle"
         /\ op'.pc = "enter" /\ op'.kind = kind /\ op'.outcome = "none"
         /\ op'.before = current /\ op'.pkg = p /\ op'.flag = flag
         /\ op'.tgt = None /\ op'.prev = None /\ op'.i = 1 /\ op'.new = {}
<1>1. op' \in Run
  BY EmptyStates DEF Begin, Run, TypeInv, Shared
<1>2. QED
  BY <1>1 DEF Begin, NoOp

\* An installation is refused, or takes its state from the file.
LEMMA InstallEnterFields ==
  ASSUME TypeInv, InstallEnter
  PROVE  \/ /\ op' = Ended("failed")
            /\ UNCHANGED <<file, locked, spent>>
         \/ /\ op' \in Run /\ file' \in StateFile /\ locked' = TRUE
            /\ spent' \in [ops : Nat, crashes : Nat, ids : Nat]
            /\ op'.pc = "images" /\ op.kind = "install" /\ SameRun
            /\ op'.st = file' /\ op'.tgt = op.tgt /\ op'.prev = current
            /\ op'.i = op.i /\ op'.new = op.new
            /\ file'.pkg = op.pkg
            /\ file'.id # 0
            /\ file # NoState => file'.id = file.id
            /\ file'.loaded => file.loaded /\ file.pkg = op.pkg
<1> DEFINE same == file # NoState /\ SamePackage(file.pkg, op.pkg)
           next == op.flag /\ file.status = "complete" /\ current # None
           new == [NoState EXCEPT !.pkg = op.pkg, !.id = file.id,
              !.active = file.active]
           fresh == [NoState EXCEPT !.pkg = op.pkg, !.id = spent.ids + 1]
           st == IF file = NoState THEN fresh ELSE IF same THEN file ELSE new
           refused == locked \/ (file # NoState /\ ~(StateOfThisHost /\ (same \/ next)))
<1>1. CASE refused
  BY <1>1 DEF InstallEnter, Refuse
<1>2. CASE ~refused
  <2>1. /\ file' = [st EXCEPT !.status = "running"]
        /\ op' = [op EXCEPT !.st = file', !.prev = current, !.pc = "images"]
        /\ locked' = TRUE
        /\ spent' = [spent EXCEPT !.ids = IF file = NoState THEN @ + 1 ELSE @]
        /\ op.kind = "install"
    BY <1>2 DEF InstallEnter, Save
  <2>2. /\ st \in StateFile /\ st.pkg = op.pkg /\ st.id # 0
        /\ file # NoState => st.id = file.id
        /\ st.loaded => file.loaded /\ file.pkg = op.pkg
    <3>1. op.pkg \in Release /\ spent.ids + 1 \in Nat \ {0} /\ file \in StateFile
      BY DEF TypeInv, Run
    <3>2. CASE file = NoState
      <4>1. fresh \in StateFile
        BY <3>1, EmptyStates DEF StateFile
      <4>2. fresh.pkg = op.pkg /\ fresh.id = spent.ids + 1 /\ fresh.loaded = FALSE
        BY DEF NoState
      <4>3. QED
        BY <3>1, <3>2, <4>1, <4>2
    <3>3. CASE file # NoState /\ same
      BY <1>2, <3>1, <3>3 DEF SamePackage, StateOfThisHost
    <3>4. CASE file # NoState /\ ~same
      <4>1. new \in StateFile
        BY <3>1, EmptyStates DEF StateFile
      <4>2. new.pkg = op.pkg /\ new.id = file.id /\ new.loaded = FALSE
        BY DEF NoState
      <4>3. QED
        BY <1>2, <3>4, <4>1, <4>2 DEF StateOfThisHost
    <3>5. QED
      BY <3>2, <3>3, <3>4
  <2> HIDE DEF st
  <2>3. /\ file' \in StateFile /\ file'.pkg = op.pkg /\ file'.id # 0
        /\ file # NoState => file'.id = file.id
        /\ file'.loaded => file.loaded /\ file.pkg = op.pkg
    BY <2>1, <2>2 DEF StateFile, Status
  <2>4. spent' \in [ops : Nat, crashes : Nat, ids : Nat]
    BY <2>1 DEF TypeInv
  <2>5. op' \in Run
    BY <2>1, <2>3 DEF Run, TypeInv, InstallOnly
  <2>6. /\ op'.pc = "images" /\ SameRun
        /\ op'.st = file' /\ op'.tgt = op.tgt /\ op'.prev = current
        /\ op'.i = op.i /\ op'.new = op.new
    BY <2>1 DEF Run, TypeInv, SameRun
  <2>7. QED
    BY <2>1, <2>3, <2>4, <2>5, <2>6
<1>3. QED
  BY <1>1, <1>2

\* activate and rollback take over the state as it is.
LEMMA TakeStateFields ==
  ASSUME TypeInv, NEW r \in Release,
         op' = [op EXCEPT !.st = file, !.tgt = r, !.prev = current, !.pc = "up"]
  PROVE  /\ op' \in Run
         /\ op'.pc = "up" /\ SameRun
         /\ op'.st = file /\ op'.tgt = r /\ op'.prev = current
         /\ op'.i = op.i /\ op'.new = op.new
BY DEF TypeInv, Run, Shared, SameRun

\* activate is refused, or starts the staged release.
LEMMA ActivateEnterFields ==
  ASSUME TypeInv, ActivateEnter
  PROVE  \/ op' = Ended("failed")
         \/ /\ op' \in Run /\ op'.pc = "up" /\ SameRun
            /\ op'.st = file /\ op'.tgt \in releases /\ op'.prev = current
            /\ op'.i = op.i /\ op'.new = op.new /\ file.id # 0
<1>1. file.staged \in Release
  BY DEF TypeInv, StateFile
<1>2. QED
  BY <1>1, TakeStateFields DEF ActivateEnter, StateOfThisHost

\* uninstall takes over the state as it is.
LEMMA UninstallFields ==
  ASSUME TypeInv, op' = [op EXCEPT !.st = file, !.pc = "stop"]
  PROVE  /\ op' \in Run
         /\ op'.pc = "stop" /\ SameRun
         /\ op'.st = file /\ op'.tgt = op.tgt /\ op'.prev = op.prev
         /\ op'.i = op.i /\ op'.new = op.new
BY DEF TypeInv, Run, UninstallOnly, SameRun

\* One more image is loaded, or all of them are.
LEMMA LoadImageFields ==
  ASSUME TypeInv, op.pkg \in Package, LoadImage
  PROVE  /\ op' \in Run /\ file' \in StateFile /\ SameRun
         /\ op'.tgt = op.tgt /\ op'.prev = op.prev /\ op'.i = op.i
         /\ \/ \E m \in ImagesOf[op.pkg] \ images :
                  /\ images' = images \cup {m} /\ op'.new = op.new \cup {m}
                  /\ op'.pc = "images" /\ op'.st = op.st /\ file' = file /\ ~op.st.loaded
            \/ /\ op.st.loaded \/ ImagesOf[op.pkg] \subseteq images
               /\ op'.pc = "data" /\ op'.new = {} /\ op'.st = file' /\ UNCHANGED images
               /\ file'.id = op.st.id /\ file'.pkg = op.st.pkg /\ file'.loaded = TRUE
<1>1. ASSUME NEW m \in ImagesOf[op.pkg], m \notin images,
             op' = [op EXCEPT !.new = @ \cup {m}]
      PROVE  /\ op' \in Run /\ SameRun
             /\ op'.tgt = op.tgt /\ op'.prev = op.prev /\ op'.i = op.i
             /\ op'.pc = op.pc /\ op'.st = op.st /\ op'.new = op.new \cup {m}
  <2>1. m \in Image
    BY <1>1 DEF Image
  <2>2. QED
    BY <1>1, <2>1 DEF TypeInv, Run, SameRun
<1>2. ASSUME op' = [op EXCEPT !.pc = "data", !.new = {}, !.st.loaded = TRUE]
      PROVE  /\ op' \in Run /\ op'.st \in StateFile /\ SameRun
             /\ op'.tgt = op.tgt /\ op'.prev = op.prev /\ op'.i = op.i
             /\ op'.pc = "data" /\ op'.new = {}
             /\ op'.st.id = op.st.id /\ op'.st.pkg = op.st.pkg /\ op'.st.loaded = TRUE
  <2>1. op'.st = [op.st EXCEPT !.loaded = TRUE] /\ op.st \in StateFile
    BY <1>2 DEF TypeInv, Run
  <2>2. /\ op'.st \in StateFile
        /\ op'.st.id = op.st.id /\ op'.st.pkg = op.st.pkg /\ op'.st.loaded = TRUE
    BY <2>1 DEF StateFile
  <2>3. QED
    BY <1>2, <2>2 DEF TypeInv, Run, InstallOnly, SameRun
<1>3. QED
  BY <1>1, <1>2 DEF LoadImage, Loaded, Save, TypeInv

\* A load that fails goes on to undo.
LEMMA LoadFailsFields ==
  ASSUME TypeInv, LoadFails
  PROVE  /\ op' \in Run /\ op'.pc = "undo" /\ SameRun
         /\ op'.st = op.st /\ op'.tgt = op.tgt /\ op'.prev = op.prev
         /\ op'.i = op.i /\ op'.new = {}
BY DEF LoadFails, TypeInv, Run, Shared, SameRun

\* The data directory is this installation's.
LEMMA OwnedFields ==
  ASSUME op \in Run, op' = [op EXCEPT !.pc = "release", !.tgt = op.pkg]
  PROVE  /\ op' \in Run /\ op'.pc = "release" /\ SameRun
         /\ op'.st = op.st /\ op'.tgt = op.pkg /\ op'.prev = op.prev
         /\ op'.i = op.i /\ op'.new = op.new
BY DEF Run, InstallOnly, SameRun

\* The release directory is there: stage it, or start it.
LEMMA ReleaseFields ==
  ASSUME TypeInv, op' = [op EXCEPT !.prev = current,
     !.pc = IF op.flag THEN "record" ELSE "up"]
  PROVE  /\ op' \in Run /\ op'.pc = (IF op.flag THEN "record" ELSE "up") /\ SameRun
         /\ op'.st = op.st /\ op'.tgt = op.tgt /\ op'.prev = current
         /\ op'.i = op.i /\ op'.new = op.new
<1>1. (IF op.flag THEN "record" ELSE "up") \in Shared
  BY DEF Shared
<1>2. QED
  BY <1>1 DEF TypeInv, Run, SameRun

\* The next phase, or the switch after the last.
LEMMA NextPhaseFields ==
  ASSUME TypeInv
  PROVE  /\ NextPhase \in Run
         /\ NextPhase.pc = (IF op.i = NumPhases THEN "switch" ELSE "up")
         /\ NextPhase.i = op.i + 1
         /\ NextPhase.kind = op.kind /\ NextPhase.outcome = op.outcome
         /\ NextPhase.before = op.before /\ NextPhase.pkg = op.pkg
         /\ NextPhase.flag = op.flag /\ NextPhase.st = op.st
         /\ NextPhase.tgt = op.tgt /\ NextPhase.prev = op.prev /\ NextPhase.new = op.new
<1>1. (IF op.i = NumPhases THEN "switch" ELSE "up") \in Shared
  BY DEF Shared
<1>2. op \in Run /\ op.i + 1 \in Nat \ {0}
  BY DEF TypeInv, Run
<1>3. QED
  BY <1>1, <1>2 DEF NextPhase, Run

\* A phase is recorded in the state file when it is ready.
LEMMA PhaseReadyFields ==
  ASSUME TypeInv, PhaseReady
  PROVE  /\ op' \in Run /\ SameRun
         /\ op'.pc = (IF op.i = NumPhases THEN "switch" ELSE "up") /\ op'.i = op.i + 1
         /\ op'.tgt = op.tgt /\ op'.prev = op.prev /\ op'.new = op.new
         /\ op'.st = file' /\ file' \in StateFile
         /\ file'.id = op.st.id /\ file'.pkg = op.st.pkg /\ file'.loaded = op.st.loaded
<1>1. op' = [NextPhase EXCEPT !.st.phases = @ \cup {op.i}] /\ file' = op'.st
  BY DEF PhaseReady, Save
<1>2. op'.st = [op.st EXCEPT !.phases = @ \cup {op.i}] /\ op.st \in StateFile /\ op.i \in Nat
  BY <1>1, NextPhaseFields DEF TypeInv, Run
<1>3. /\ op'.st \in StateFile
      /\ op'.st.id = op.st.id /\ op'.st.pkg = op.st.pkg /\ op'.st.loaded = op.st.loaded
  BY <1>2 DEF StateFile
<1>4. /\ op' \in Run
      /\ op'.pc = NextPhase.pc /\ op'.i = NextPhase.i /\ op'.kind = NextPhase.kind
      /\ op'.outcome = NextPhase.outcome /\ op'.before = NextPhase.before
      /\ op'.pkg = NextPhase.pkg /\ op'.flag = NextPhase.flag
      /\ op'.tgt = NextPhase.tgt /\ op'.prev = NextPhase.prev /\ op'.new = NextPhase.new
  BY <1>1, <1>3, NextPhaseFields DEF Run
<1>5. QED
  BY <1>1, <1>3, <1>4, NextPhaseFields DEF SameRun

\* Everything is down: the previous release comes up again, if there was one.
LEMMA RestoreDownFields ==
  ASSUME TypeInv, RestoreDown
  PROVE  /\ op' \in Run /\ SameRun
         /\ op'.pc = (IF op.prev = None THEN "fail" ELSE "restore") /\ op'.i = 1
         /\ op'.st = op.st /\ op'.tgt = op.tgt /\ op'.prev = op.prev /\ op'.new = op.new
<1>1. PICK x \in InstallOnly :
        /\ x = (IF op.prev = None THEN "fail" ELSE "restore")
        /\ op' = [op EXCEPT !.pc = x, !.i = 1]
  BY DEF InstallOnly, RestoreDown
<1>2. op \in Run /\ 1 \in Nat \ {0}
  BY DEF TypeInv
<1>3. op' \in Run
  BY <1>1, <1>2 DEF Run
<1>4. QED
  BY <1>1, <1>2, <1>3 DEF Run, SameRun

\* A phase of the previous release comes up, or the recovery fails.
LEMMA RestorePhaseFields ==
  ASSUME TypeInv, RestorePhase
  PROVE  /\ op' \in Run /\ SameRun /\ file' \in StateFile
         /\ op'.st = op.st /\ op'.tgt = op.tgt /\ op'.new = op.new
         /\ op'.pc \in {"restore", "fail"}
         /\ \/ /\ file'.id = 0 /\ file'.loaded = FALSE /\ file' # NoState
               /\ op'.prev = op.prev
            \/ file' = file /\ op'.prev = None /\ op'.pc = "fail"
<1>1. ASSUME file' = [NoState EXCEPT !.phases = 1..op.i]
      PROVE  file' \in StateFile /\ file'.id = 0 /\ file'.loaded = FALSE /\ file' # NoState
  <2>1. 1..op.i \in SUBSET Nat /\ 1 \in 1..op.i
    BY DEF TypeInv, Run
  <2>2. file' \in StateFile
    BY <1>1, <2>1, EmptyStates DEF StateFile
  <2>3. file'.id = 0 /\ file'.loaded = FALSE /\ file'.phases = 1..op.i /\ NoState.phases = {}
    BY <1>1 DEF NoState
  <2>4. QED
    BY <2>1, <2>2, <2>3
<1>2. (IF op.i = NumPhases THEN "fail" ELSE "restore") \in {"restore", "fail"}
  OBVIOUS
<1>3. ASSUME NEW x \in {"restore", "fail"}, op' = [op EXCEPT !.i = @ + 1, !.pc = x]
      PROVE  /\ op' \in Run /\ SameRun /\ op'.st = op.st /\ op'.tgt = op.tgt
             /\ op'.new = op.new /\ op'.pc = x /\ op'.prev = op.prev
  <2>1. op \in Run /\ op.i + 1 \in Nat \ {0} /\ x \in InstallOnly
    BY <1>3 DEF TypeInv, Run, InstallOnly
  <2>2. QED
    BY <1>3, <2>1 DEF Run, SameRun
<1>4. ASSUME op' = [op EXCEPT !.pc = "fail", !.prev = None]
      PROVE  /\ op' \in Run /\ SameRun /\ op'.st = op.st /\ op'.tgt = op.tgt
             /\ op'.new = op.new /\ op'.pc = "fail" /\ op'.prev = None
  BY <1>4 DEF TypeInv, Run, InstallOnly, SameRun, Release
<1>5. file \in StateFile
  BY DEF TypeInv
<1>6. QED
  BY <1>1, <1>2, <1>3, <1>4, <1>5 DEF RestorePhase, Save

\* What a run records of itself at its end.
LEMMA FinalState ==
  ASSUME TypeInv, NEW s \in Status, NEW a \in Release, NEW b \in Release,
         file' = [op.st EXCEPT !.status = s, !.active = a, !.staged = b]
  PROVE  /\ file' \in StateFile /\ file'.id = op.st.id
         /\ file'.pkg = op.st.pkg /\ file'.loaded = op.st.loaded
BY DEF TypeInv, Run, StateFile

\* The file that Commit writes.
LEMMA CommitFile ==
  ASSUME TypeInv, Commit
  PROVE  /\ file' \in StateFile /\ file'.id = op.st.id
         /\ file'.pkg = op.st.pkg /\ file'.loaded = op.st.loaded
<1>1. op.st \in StateFile /\ op.prev \in Release /\ op.tgt \in Release /\ None \in Release
  BY DEF TypeInv, Run, Release
<1>2. CASE file' = [op.st EXCEPT !.status = "uninstalled"]
  BY <1>1, <1>2 DEF StateFile, Status
<1>3. QED
  BY <1>1, <1>2, FinalState DEF Commit, Save, Status

\* The file that InstallFailed writes.
LEMMA FailedFile ==
  ASSUME TypeInv, InstallFailed
  PROVE  /\ file' \in StateFile /\ file'.id = op.st.id
         /\ file'.pkg = op.st.pkg /\ file'.loaded = op.st.loaded
BY FinalState DEF InstallFailed, Save, Status, TypeInv, Run

-----------------------------------------------------------------------------
(* One lemma per part of the invariant, one step per action.               *)

\* No step of a command breaks the types.
LEMMA TypeStep == TypeInv /\ StepsInv /\ [Next]_vars => TypeInv'
<1>0. CASE UNCHANGED vars
  BY <1>0 DEF vars, Phase, NumPhases, TypeInv, StepsInv, InstallOnly,
     UninstallOnly, Shared
<1> SUFFICES ASSUME TypeInv, StepsInv, Next PROVE TypeInv'
  BY <1>0
<1>1. Phase' = Phase
  BY PhasesFixed
<1>2. /\ op.tgt \in Release /\ op.prev \in Release /\ op.pkg \in Release
      /\ None \in Release /\ op.st.id \in Nat
  BY DEF TypeInv, Run, StateFile, Release
<1> USE <1>1 DEF TypeInv, StepsInv, InstallOnly, UninstallOnly, Shared
<1>a. CASE PrepareSecrets
  BY <1>a DEF PrepareSecrets
<1>b. ASSUME NEW what \in Prerequisite, Provide(what) PROVE TypeInv'
  BY <1>b DEF Provide
<1>c. ASSUME NEW p \in Package, NEW flag \in BOOLEAN, Begin("install", p, flag)
      PROVE  TypeInv'
  <2>1. spent' \in [ops : Nat, crashes : Nat, ids : Nat]
    BY <1>c DEF Begin
  <2>2. QED
    BY <1>c, <2>1, BeginFields DEF Begin, Kind, Release
<1>d. ASSUME NEW kind \in Kind \ {"none", "install"}, NEW flag \in BOOLEAN,
             Begin(kind, None, flag)
      PROVE  TypeInv'
  <2>1. spent' \in [ops : Nat, crashes : Nat, ids : Nat]
    BY <1>d DEF Begin
  <2>2. QED
    BY <1>d, <2>1, BeginFields DEF Begin, Kind, Release
<1>e. CASE InstallEnter
  BY <1>e, InstallEnterFields, EndedFields DEF InstallEnter
<1>f. CASE LoadImage
  <2>1. op.pkg \in Package
    BY <1>f DEF LoadImage
  <2>2. ImagesOf[op.pkg] \subseteq Image
    BY <2>1 DEF Image
  <2>3. images' \subseteq Image
    BY <1>f, <2>1, <2>2, LoadImageFields
  <2>4. QED
    BY <1>f, <2>1, <2>3, LoadImageFields DEF LoadImage
<1>g. CASE LoadFails
  BY <1>g, LoadFailsFields DEF LoadFails, RemoveImages
<1>h. CASE EnsureOwnedData
  <2>1. data' \in [dir : BOOLEAN, id : Nat]
    <3>1. CASE data' = [dir |-> TRUE, id |-> 0]
      BY <3>1
    <3>2. CASE data' = [data EXCEPT !.id = op.st.id]
      BY <3>2, <1>2
    <3>3. QED
      BY <1>h, <3>1, <3>2 DEF EnsureOwnedData
  <2>2. op' \in Run
    BY <1>h, GotoFields, OwnedFields DEF EnsureOwnedData
  <2>3. QED
    BY <1>h, <2>1, <2>2 DEF EnsureOwnedData
<1>i. CASE EnsureRelease
  BY <1>i, GotoFields, ReleaseFields DEF EnsureRelease, SamePackage
<1>j. CASE StartPhase
  BY <1>j, <1>2, GotoFields, NextPhaseFields DEF StartPhase
<1>k. CASE PhaseReady
  BY <1>k, PhaseReadyFields DEF PhaseReady
<1>l. CASE SwitchCurrent
  BY <1>l, <1>2, GotoFields DEF SwitchCurrent
<1>m. CASE RecordPrevious
  BY <1>m, <1>2, GotoFields DEF RecordPrevious
<1>n. CASE Commit
  BY <1>n, EndedFields, CommitFile DEF Commit
<1>o. CASE ActivateEnter
  BY <1>o, EndedFields, ActivateEnterFields DEF ActivateEnter
<1>p. CASE RollbackEnter
  BY <1>p, EndedFields, TakeStateFields DEF RollbackEnter, ActiveInstall,
     StateOfThisHost, Refuse
<1>q. CASE UninstallEnter
  BY <1>q, EndedFields, UninstallFields DEF UninstallEnter, ActiveInstall,
     StateOfThisHost, Refuse
<1>r. CASE Uninstall
  <2>1. running' \in [Phase -> Release]
    BY <1>r, <1>2 DEF Uninstall, Services
  <2>2. op' \in Run
    BY <1>r, GotoFields DEF Uninstall
  <2>3. data' \in [dir : BOOLEAN, id : Nat]
    <3>1. data' = data \/ data' = [dir |-> FALSE, id |-> 0]
      BY <1>r DEF Uninstall
    <3>2. CASE data' = data
      BY <3>2
    <3>3. CASE data' = [dir |-> FALSE, id |-> 0]
      BY <3>3
    <3>4. QED
      BY <3>1, <3>2, <3>3
  <2>4. current' \in Release
    BY <1>r, <1>2 DEF Uninstall
  <2>5. QED
    BY <1>r, <2>1, <2>2, <2>3, <2>4 DEF Uninstall
<1>s. CASE Backup
  BY <1>s, EndedFields DEF Backup
<1>t. CASE StepFails
  BY <1>t, GotoFields, EndedFields DEF StepFails
<1>u. CASE Undo
  BY <1>u, <1>2, GotoFields, EndedFields DEF Undo
<1>v. CASE RestoreDown
  BY <1>v, <1>2, RestoreDownFields DEF RestoreDown, Services
<1>w. CASE RestorePhase
  BY <1>w, <1>2, RestorePhaseFields DEF RestorePhase
<1>x. CASE InstallFailed
  BY <1>x, EndedFields, FailedFile DEF InstallFailed
<1>y. CASE Crash
  BY <1>y, EndedFields DEF Crash
<1>z. CASE RemoveLock
  BY <1>z DEF RemoveLock
<1> HIDE DEF TypeInv, StepsInv, InstallOnly, UninstallOnly, Shared
<1>3. QED
  BY <1>a, <1>b, <1>c, <1>d, <1>e, <1>f, <1>g, <1>h, <1>i, <1>j, <1>k, <1>l, <1>m,
     <1>n, <1>o, <1>p, <1>q, <1>r, <1>s, <1>t, <1>u, <1>v, <1>w, <1>x, <1>y, <1>z
     DEF Next, Kind

\* Every command keeps to its own steps.
LEMMA StepsStep == TypeInv /\ StepsInv /\ [Next]_vars => StepsInv'
<1>0. CASE UNCHANGED vars
  BY <1>0 DEF vars, Phase, NumPhases, TypeInv, StepsInv, Working, SameRun,
     InstallOnly, UninstallOnly, Shared
<1> SUFFICES ASSUME TypeInv, StepsInv, Next PROVE StepsInv'
  BY <1>0
<1>1. Phase' = Phase
  BY PhasesFixed
<1> USE DEF TypeInv, StepsInv, Working, SameRun, InstallOnly, UninstallOnly, Shared
<1>a. CASE PrepareSecrets
  BY <1>a DEF PrepareSecrets
<1>b. ASSUME NEW what \in Prerequisite, Provide(what) PROVE StepsInv'
  BY <1>b DEF Provide
<1>c. ASSUME NEW p \in Package, NEW flag \in BOOLEAN, Begin("install", p, flag)
      PROVE  StepsInv'
  <2>1. op'.pc = "enter" /\ op'.pkg = p
    BY <1>c, BeginFields DEF Kind, Release
  <2>2. QED
    BY <2>1
<1>d. ASSUME NEW kind \in Kind \ {"none", "install"}, NEW flag \in BOOLEAN,
             Begin(kind, None, flag)
      PROVE  StepsInv'
  BY ZenonT(60), <1>d, BeginFields DEF Begin, Kind, Release
<1>e. CASE InstallEnter
  BY <1>e, InstallEnterFields, EndedFields DEF InstallEnter
<1>f. CASE LoadImage
  BY ZenonT(60), <1>f, LoadImageFields DEF LoadImage
<1>g. CASE LoadFails
  BY <1>g, LoadFailsFields DEF LoadFails, RemoveImages
<1>h. CASE EnsureOwnedData
  BY <1>h, GotoFields, OwnedFields DEF EnsureOwnedData
<1>i. CASE EnsureRelease
  BY <1>i, GotoFields, ReleaseFields DEF EnsureRelease, SamePackage
<1>j. CASE StartPhase
  BY <1>j, GotoFields, NextPhaseFields DEF StartPhase
<1>k. CASE PhaseReady
  <2>1. op'.pc \in {"switch", "up"} /\ op.pc = "ready"
    BY <1>k, PhaseReadyFields DEF PhaseReady
  <2>2. QED
    BY <1>k, <2>1, PhaseReadyFields DEF PhaseReady
<1>l. CASE SwitchCurrent
  BY <1>l, GotoFields DEF SwitchCurrent
<1>m. CASE RecordPrevious
  BY <1>m, GotoFields DEF RecordPrevious
<1>n. CASE Commit
  BY <1>n, EndedFields, CommitFile DEF Commit
<1>o. CASE ActivateEnter
  BY <1>o, EndedFields, ActivateEnterFields DEF ActivateEnter
<1>p. CASE RollbackEnter
  BY <1>p, EndedFields, TakeStateFields DEF RollbackEnter, ActiveInstall,
     StateOfThisHost, Refuse
<1>q. CASE UninstallEnter
  BY <1>q, EndedFields, UninstallFields DEF UninstallEnter, ActiveInstall,
     StateOfThisHost, Refuse
<1>r. CASE Uninstall
  BY <1>r, GotoFields DEF Uninstall, Services
<1>s. CASE Backup
  BY <1>s, EndedFields DEF Backup
<1>t. CASE StepFails
  BY <1>t, GotoFields, EndedFields DEF StepFails
<1>u. CASE Undo
  BY <1>u, GotoFields, EndedFields DEF Undo
<1>v. CASE RestoreDown
  BY <1>v, RestoreDownFields DEF RestoreDown, Services
<1>w. CASE RestorePhase
  BY <1>w, RestorePhaseFields DEF RestorePhase
<1>x. CASE InstallFailed
  BY <1>x, EndedFields, FailedFile DEF InstallFailed
<1>y. CASE Crash
  BY <1>y, EndedFields DEF Crash
<1>z. CASE RemoveLock
  BY <1>z DEF RemoveLock
<1> HIDE DEF TypeInv, StepsInv, Working, SameRun, InstallOnly, UninstallOnly, Shared
<1>3. QED
  BY <1>a, <1>b, <1>c, <1>d, <1>e, <1>f, <1>g, <1>h, <1>i, <1>j, <1>k, <1>l, <1>m,
     <1>n, <1>o, <1>p, <1>q, <1>r, <1>s, <1>t, <1>u, <1>v, <1>w, <1>x, <1>y, <1>z
     DEF Next, Kind

\* No step puts two install ids on the disk.
LEMMA IdStep == TypeInv /\ StepsInv /\ IdInv /\ [Next]_vars => IdInv'
<1>0. CASE UNCHANGED vars
  BY <1>0 DEF vars, Phase, NumPhases, TypeInv, StepsInv, IdInv, DataOwned, Working,
     SameRun, InstallOnly, UninstallOnly, Shared
<1> SUFFICES ASSUME TypeInv, StepsInv, IdInv, Next PROVE IdInv'
  BY <1>0
<1>1. Phase' = Phase
  BY PhasesFixed
<1>2. NoState.id = 0 /\ NoState.loaded = FALSE
  BY DEF NoState
<1> USE DEF TypeInv, StepsInv, IdInv, DataOwned, Working, SameRun, InstallOnly,
        UninstallOnly, Shared
<1>a. CASE PrepareSecrets
  BY <1>a DEF PrepareSecrets
<1>b. ASSUME NEW what \in Prerequisite, Provide(what) PROVE IdInv'
  BY <1>b DEF Provide
<1>c. ASSUME NEW p \in Package, NEW flag \in BOOLEAN, Begin("install", p, flag)
      PROVE  IdInv'
  BY <1>c, BeginFields DEF Begin, Kind, Release
<1>d. ASSUME NEW kind \in Kind \ {"none", "install"}, NEW flag \in BOOLEAN,
             Begin(kind, None, flag)
      PROVE  IdInv'
  BY <1>d, BeginFields DEF Begin, Kind, Release
<1>e. CASE InstallEnter
  BY <1>e, <1>2, InstallEnterFields, EndedFields DEF InstallEnter
<1>f. CASE LoadImage
  <2>1. op.pc = "images" /\ op.pkg \in Package /\ UNCHANGED data
    BY <1>f DEF LoadImage
  <2>2. CASE op'.pc = "images"
    BY <2>1, <2>2, <1>f, LoadImageFields
  <2>3. CASE op'.pc = "data"
    BY <1>2, <2>1, <2>3, <1>f, LoadImageFields
  <2>4. QED
    BY <2>1, <2>2, <2>3, <1>f, LoadImageFields
<1>g. CASE LoadFails
  BY <1>g, LoadFailsFields DEF LoadFails, RemoveImages
<1>h. CASE EnsureOwnedData
  <2>1. CASE op.pc = "data" /\ data.dir
    BY <1>h, <2>1, GotoFields, OwnedFields DEF EnsureOwnedData
  <2>2. CASE op.pc = "data" /\ ~data.dir
    BY <1>h, <2>2, GotoFields DEF EnsureOwnedData
  <2>3. CASE op.pc = "marker"
    <3>1. data'.id = op.st.id /\ file' = file /\ op'.st = op.st /\ op'.pc = "release"
      BY <1>h, <2>3, OwnedFields DEF EnsureOwnedData
    <3>2. QED
      BY <1>2, <2>3, <3>1
  <2>4. QED
    BY <1>h, <2>1, <2>2, <2>3 DEF EnsureOwnedData
<1>i. CASE EnsureRelease
  BY <1>i, GotoFields, ReleaseFields DEF EnsureRelease, SamePackage
<1>j. CASE StartPhase
  BY <1>j, GotoFields, NextPhaseFields DEF StartPhase
<1>k. CASE PhaseReady
  BY <1>k, <1>2, PhaseReadyFields DEF PhaseReady
<1>l. CASE SwitchCurrent
  BY <1>l, GotoFields DEF SwitchCurrent
<1>m. CASE RecordPrevious
  BY <1>m, GotoFields DEF RecordPrevious
<1>n. CASE Commit
  BY <1>n, <1>2, CommitFile, EndedFields DEF Commit
<1>o. CASE ActivateEnter
  BY <1>o, EndedFields, ActivateEnterFields DEF ActivateEnter
<1>p. CASE RollbackEnter
  BY <1>p, EndedFields, TakeStateFields DEF RollbackEnter, ActiveInstall,
     StateOfThisHost, Refuse
<1>q. CASE UninstallEnter
  BY <1>q, EndedFields, UninstallFields DEF UninstallEnter, ActiveInstall,
     StateOfThisHost, Refuse
<1>r. CASE Uninstall
  BY <1>r, GotoFields DEF Uninstall, Services
<1>s. CASE Backup
  BY <1>s, EndedFields DEF Backup
<1>t. CASE StepFails
  BY <1>t, GotoFields, EndedFields DEF StepFails
<1>u. CASE Undo
  BY <1>u, GotoFields, EndedFields DEF Undo
<1>v. CASE RestoreDown
  BY <1>v, RestoreDownFields DEF RestoreDown, Services
<1>w. CASE RestorePhase
  BY <1>w, RestorePhaseFields DEF RestorePhase
<1>x. CASE InstallFailed
  BY <1>x, <1>2, FailedFile, EndedFields DEF InstallFailed
<1>y. CASE Crash
  BY <1>y, EndedFields DEF Crash
<1>z. CASE RemoveLock
  BY <1>z DEF RemoveLock
<1> HIDE DEF TypeInv, StepsInv, IdInv, DataOwned, Working, SameRun, InstallOnly,
        UninstallOnly, Shared
<1>3. QED
  BY <1>a, <1>b, <1>c, <1>d, <1>e, <1>f, <1>g, <1>h, <1>i, <1>j, <1>k, <1>l, <1>m,
     <1>n, <1>o, <1>p, <1>q, <1>r, <1>s, <1>t, <1>u, <1>v, <1>w, <1>x, <1>y, <1>z
     DEF Next, Kind

\* A failed installation finds its way back to the release it began with.
LEMMA PointerStep == TypeInv /\ StepsInv /\ PointerInv /\ [Next]_vars => PointerInv'
<1>0. CASE UNCHANGED vars
  BY <1>0 DEF vars, Phase, NumPhases, TypeInv, StepsInv, PointerInv,
     FailedInstallKeepsCurrent, Working, SameRun, InstallOnly, UninstallOnly, Shared
<1> SUFFICES ASSUME TypeInv, StepsInv, PointerInv, Next PROVE PointerInv'
  BY <1>0
<1>1. Phase' = Phase
  BY PhasesFixed
<1> USE DEF TypeInv, StepsInv, PointerInv, FailedInstallKeepsCurrent, Working,
        SameRun, InstallOnly, UninstallOnly, Shared
<1>a. CASE PrepareSecrets
  BY <1>a DEF PrepareSecrets
<1>b. ASSUME NEW what \in Prerequisite, Provide(what) PROVE PointerInv'
  BY <1>b DEF Provide
<1>c. ASSUME NEW p \in Package, NEW flag \in BOOLEAN, Begin("install", p, flag)
      PROVE  PointerInv'
  BY <1>c, BeginFields DEF Begin, Kind, Release
<1>d. ASSUME NEW kind \in Kind \ {"none", "install"}, NEW flag \in BOOLEAN,
             Begin(kind, None, flag)
      PROVE  PointerInv'
  BY <1>d, BeginFields DEF Begin, Kind, Release
<1>e. CASE InstallEnter
  BY <1>e, InstallEnterFields, EndedFields DEF InstallEnter
<1>f. CASE LoadImage
  BY <1>f, LoadImageFields DEF LoadImage
<1>g. CASE LoadFails
  BY <1>g, LoadFailsFields DEF LoadFails, RemoveImages
<1>h. CASE EnsureOwnedData
  BY <1>h, GotoFields, OwnedFields DEF EnsureOwnedData
<1>i. CASE EnsureRelease
  BY <1>i, GotoFields, ReleaseFields DEF EnsureRelease, SamePackage
<1>j. CASE StartPhase
  BY <1>j, GotoFields, NextPhaseFields DEF StartPhase
<1>k. CASE PhaseReady
  BY <1>k, PhaseReadyFields DEF PhaseReady
<1>l. CASE SwitchCurrent
  BY <1>l, GotoFields DEF SwitchCurrent
<1>m. CASE RecordPrevious
  BY <1>m, GotoFields DEF RecordPrevious
<1>n. CASE Commit
  BY <1>n, EndedFields, CommitFile DEF Commit
<1>o. CASE ActivateEnter
  BY <1>o, EndedFields, ActivateEnterFields DEF ActivateEnter
<1>p. CASE RollbackEnter
  BY <1>p, EndedFields, TakeStateFields DEF RollbackEnter, ActiveInstall,
     StateOfThisHost, Refuse
<1>q. CASE UninstallEnter
  BY <1>q, EndedFields, UninstallFields DEF UninstallEnter, ActiveInstall,
     StateOfThisHost, Refuse
<1>r. CASE Uninstall
  BY <1>r, GotoFields DEF Uninstall, Services
<1>s. CASE Backup
  BY <1>s, EndedFields DEF Backup
<1>t. CASE StepFails
  BY <1>t, GotoFields, EndedFields DEF StepFails
<1>u. CASE Undo
  BY <1>u, GotoFields, EndedFields DEF Undo
<1>v. CASE RestoreDown
  BY <1>v, RestoreDownFields DEF RestoreDown, Services
<1>w. CASE RestorePhase
  BY <1>w, RestorePhaseFields DEF RestorePhase
<1>x. CASE InstallFailed
  BY <1>x, EndedFields, FailedFile DEF InstallFailed
<1>y. CASE Crash
  BY <1>y, EndedFields DEF Crash
<1>z. CASE RemoveLock
  BY <1>z DEF RemoveLock
<1> HIDE DEF TypeInv, StepsInv, PointerInv, FailedInstallKeepsCurrent, Working,
        SameRun, InstallOnly, UninstallOnly, Shared
<1>3. QED
  BY <1>a, <1>b, <1>c, <1>d, <1>e, <1>f, <1>g, <1>h, <1>i, <1>j, <1>k, <1>l, <1>m,
     <1>n, <1>o, <1>p, <1>q, <1>r, <1>s, <1>t, <1>u, <1>v, <1>w, <1>x, <1>y, <1>z
     DEF Next, Kind

\* The pointers only ever name releases that are there.
LEMMA ReleaseStep == TypeInv /\ StepsInv /\ ReleaseInv /\ [Next]_vars => ReleaseInv'
<1>0. CASE UNCHANGED vars
  BY <1>0 DEF vars, Phase, NumPhases, TypeInv, StepsInv, ReleaseInv, SameRun,
     InstallOnly, UninstallOnly, Shared
<1> SUFFICES ASSUME TypeInv, StepsInv, ReleaseInv, Next PROVE ReleaseInv'
  BY <1>0
<1>1. Phase' = Phase
  BY PhasesFixed
<1> USE DEF TypeInv, StepsInv, ReleaseInv, SameRun, InstallOnly, UninstallOnly,
        Shared
<1>a. CASE PrepareSecrets
  BY <1>a DEF PrepareSecrets
<1>b. ASSUME NEW what \in Prerequisite, Provide(what) PROVE ReleaseInv'
  BY <1>b DEF Provide
<1>c. ASSUME NEW p \in Package, NEW flag \in BOOLEAN, Begin("install", p, flag)
      PROVE  ReleaseInv'
  BY <1>c, BeginFields DEF Begin, Kind, Release
<1>d. ASSUME NEW kind \in Kind \ {"none", "install"}, NEW flag \in BOOLEAN,
             Begin(kind, None, flag)
      PROVE  ReleaseInv'
  BY <1>d, BeginFields DEF Begin, Kind, Release
<1>e. CASE InstallEnter
  BY <1>e, InstallEnterFields, EndedFields DEF InstallEnter
<1>f. CASE LoadImage
  BY <1>f, LoadImageFields DEF LoadImage
<1>g. CASE LoadFails
  BY <1>g, LoadFailsFields DEF LoadFails, RemoveImages
<1>h. CASE EnsureOwnedData
  BY <1>h, GotoFields, OwnedFields DEF EnsureOwnedData
<1>i. CASE EnsureRelease
  BY <1>i, GotoFields, ReleaseFields DEF EnsureRelease, SamePackage
<1>j. CASE StartPhase
  BY <1>j, GotoFields, NextPhaseFields DEF StartPhase
<1>k. CASE PhaseReady
  BY <1>k, PhaseReadyFields DEF PhaseReady
<1>l. CASE SwitchCurrent
  BY <1>l, GotoFields DEF SwitchCurrent
<1>m. CASE RecordPrevious
  BY <1>m, GotoFields DEF RecordPrevious
<1>n. CASE Commit
  BY <1>n, EndedFields, CommitFile DEF Commit
<1>o. CASE ActivateEnter
  BY <1>o, EndedFields, ActivateEnterFields DEF ActivateEnter
<1>p. CASE RollbackEnter
  BY <1>p, EndedFields, TakeStateFields DEF RollbackEnter, ActiveInstall,
     StateOfThisHost, Refuse
<1>q. CASE UninstallEnter
  BY <1>q, EndedFields, UninstallFields DEF UninstallEnter, ActiveInstall,
     StateOfThisHost, Refuse
<1>r. CASE Uninstall
  BY <1>r, GotoFields DEF Uninstall, Services
<1>s. CASE Backup
  BY <1>s, EndedFields DEF Backup
<1>t. CASE StepFails
  BY <1>t, GotoFields, EndedFields DEF StepFails
<1>u. CASE Undo
  BY <1>u, GotoFields, EndedFields DEF Undo
<1>v. CASE RestoreDown
  BY <1>v, RestoreDownFields DEF RestoreDown, Services
<1>w. CASE RestorePhase
  BY <1>w, RestorePhaseFields DEF RestorePhase
<1>x. CASE InstallFailed
  BY <1>x, EndedFields, FailedFile DEF InstallFailed
<1>y. CASE Crash
  BY <1>y, EndedFields DEF Crash
<1>z. CASE RemoveLock
  BY <1>z DEF RemoveLock
<1> HIDE DEF TypeInv, StepsInv, ReleaseInv, SameRun, InstallOnly, UninstallOnly,
        Shared
<1>3. QED
  BY <1>a, <1>b, <1>c, <1>d, <1>e, <1>f, <1>g, <1>h, <1>i, <1>j, <1>k, <1>l, <1>m,
     <1>n, <1>o, <1>p, <1>q, <1>r, <1>s, <1>t, <1>u, <1>v, <1>w, <1>x, <1>y, <1>z
     DEF Next, Kind

\* No step removes an image that a release needs.
LEMMA LoadedStep == TypeInv /\ StepsInv /\ ReleaseInv /\ LoadedInv /\ [Next]_vars => LoadedInv'
<1>0. CASE UNCHANGED vars
  BY <1>0 DEF vars, Phase, NumPhases, TypeInv, StepsInv, ReleaseInv, LoadedInv,
     Working, SameRun, InstallOnly, UninstallOnly, Shared
<1> SUFFICES ASSUME TypeInv, StepsInv, ReleaseInv, LoadedInv, Next PROVE LoadedInv'
  BY <1>0
<1>1. Phase' = Phase
  BY PhasesFixed
<1>2. NoState.id = 0 /\ NoState.loaded = FALSE
  BY DEF NoState
<1> USE DEF TypeInv, StepsInv, ReleaseInv, LoadedInv, Working, SameRun,
        InstallOnly, UninstallOnly, Shared
<1>a. CASE PrepareSecrets
  BY <1>a DEF PrepareSecrets
<1>b. ASSUME NEW what \in Prerequisite, Provide(what) PROVE LoadedInv'
  BY <1>b DEF Provide
<1>c. ASSUME NEW p \in Package, NEW flag \in BOOLEAN, Begin("install", p, flag)
      PROVE  LoadedInv'
  BY <1>c, BeginFields DEF Begin, Kind, Release
<1>d. ASSUME NEW kind \in Kind \ {"none", "install"}, NEW flag \in BOOLEAN,
             Begin(kind, None, flag)
      PROVE  LoadedInv'
  BY ZenonT(60), <1>d, BeginFields DEF Begin, Kind, Release
<1>e. CASE InstallEnter
  BY <1>e, InstallEnterFields, EndedFields DEF InstallEnter
<1>f. CASE LoadImage
  <2>1. op.pc = "images" /\ op.pkg \in Package /\ UNCHANGED releases
    BY <1>f DEF LoadImage
  <2>2. CASE op'.pc = "images"
    <3>1. PICK m \in ImagesOf[op.pkg] \ images :
            /\ images' = images \cup {m} /\ op'.new = op.new \cup {m}
            /\ op'.st = op.st /\ file' = file /\ ~op.st.loaded
      BY <2>1, <2>2, <1>f, LoadImageFields
    <3>2. \A r \in releases : m \notin ImagesOf[r]
      OBVIOUS
    <3>3. QED
      BY <2>1, <2>2, <3>1, <3>2
  <2>3. CASE op'.pc = "data"
    <3>1. /\ op.st.loaded \/ ImagesOf[op.pkg] \subseteq images
          /\ op'.new = {} /\ op'.st = file' /\ images' = images /\ file'.pkg = op.st.pkg
      BY <2>1, <2>3, <1>f, LoadImageFields
    <3>2. op.st.pkg = op.pkg /\ op'.pkg = op.pkg
      BY <2>1, <1>f, LoadImageFields
    <3>3. QED
      BY <2>1, <2>3, <3>1, <3>2
  <2>4. QED
    BY <2>1, <2>2, <2>3, <1>f, LoadImageFields
<1>g. CASE LoadFails
  BY <1>g, LoadFailsFields DEF LoadFails, RemoveImages
<1>h. CASE EnsureOwnedData
  BY <1>h, GotoFields, OwnedFields DEF EnsureOwnedData
<1>i. CASE EnsureRelease
  BY <1>i, GotoFields, ReleaseFields DEF EnsureRelease, SamePackage
<1>j. CASE StartPhase
  BY <1>j, GotoFields, NextPhaseFields DEF StartPhase
<1>k. CASE PhaseReady
  <2>1. op'.pc \in {"switch", "up"} /\ op.pc = "ready"
    BY <1>k, PhaseReadyFields DEF PhaseReady
  <2>2. QED
    BY <1>k, <2>1, PhaseReadyFields DEF PhaseReady
<1>l. CASE SwitchCurrent
  BY <1>l, GotoFields DEF SwitchCurrent
<1>m. CASE RecordPrevious
  BY <1>m, GotoFields DEF RecordPrevious
<1>n. CASE Commit
  BY <1>n, EndedFields, CommitFile DEF Commit
<1>o. CASE ActivateEnter
  BY <1>o, EndedFields, ActivateEnterFields DEF ActivateEnter
<1>p. CASE RollbackEnter
  BY <1>p, EndedFields, TakeStateFields DEF RollbackEnter, ActiveInstall,
     StateOfThisHost, Refuse
<1>q. CASE UninstallEnter
  BY <1>q, EndedFields, UninstallFields DEF UninstallEnter, ActiveInstall,
     StateOfThisHost, Refuse
<1>r. CASE Uninstall
  BY <1>r, GotoFields DEF Uninstall, Services
<1>s. CASE Backup
  BY <1>s, EndedFields DEF Backup
<1>t. CASE StepFails
  BY <1>t, GotoFields, EndedFields DEF StepFails
<1>u. CASE Undo
  BY <1>u, GotoFields, EndedFields DEF Undo
<1>v. CASE RestoreDown
  BY <1>v, RestoreDownFields DEF RestoreDown, Services
<1>w. CASE RestorePhase
  BY <1>w, RestorePhaseFields DEF RestorePhase
<1>x. CASE InstallFailed
  BY <1>x, EndedFields, FailedFile DEF InstallFailed
<1>y. CASE Crash
  BY <1>y, EndedFields DEF Crash
<1>z. CASE RemoveLock
  BY <1>z DEF RemoveLock
<1> HIDE DEF TypeInv, StepsInv, ReleaseInv, LoadedInv, Working, SameRun,
        InstallOnly, UninstallOnly, Shared
<1>3. QED
  BY <1>a, <1>b, <1>c, <1>d, <1>e, <1>f, <1>g, <1>h, <1>i, <1>j, <1>k, <1>l, <1>m,
     <1>n, <1>o, <1>p, <1>q, <1>r, <1>s, <1>t, <1>u, <1>v, <1>w, <1>x, <1>y, <1>z
     DEF Next, Kind

\* The phases a run has been through keep running.
LEMMA ServeStep == TypeInv /\ StepsInv /\ ReleaseInv /\ ServeInv /\ [Next]_vars => ServeInv'
<1>0. CASE UNCHANGED vars
  BY <1>0 DEF vars, Phase, NumPhases, TypeInv, StepsInv, ReleaseInv, ServeInv,
     StartedServes, Starts, SameRun, InstallOnly, UninstallOnly, Shared
<1> SUFFICES ASSUME TypeInv, StepsInv, ReleaseInv, ServeInv, Next PROVE ServeInv'
  BY <1>0
<1>1. Phase' = Phase
  BY PhasesFixed
<1>2. op.i \in Nat \ {0} /\ running \in [Phase -> Release]
  BY DEF TypeInv, Run
<1> USE <1>1 DEF TypeInv, StepsInv, ReleaseInv, ServeInv, StartedServes, Starts,
        SameRun, InstallOnly, UninstallOnly, Shared
<1>a. CASE PrepareSecrets
  BY <1>a DEF PrepareSecrets
<1>b. ASSUME NEW what \in Prerequisite, Provide(what) PROVE ServeInv'
  BY <1>b DEF Provide
<1>c. ASSUME NEW p \in Package, NEW flag \in BOOLEAN, Begin("install", p, flag)
      PROVE  ServeInv'
  BY <1>c, BeginFields DEF Begin, Kind, Release
<1>d. ASSUME NEW kind \in Kind \ {"none", "install"}, NEW flag \in BOOLEAN,
             Begin(kind, None, flag)
      PROVE  ServeInv'
  BY ZenonT(60), <1>d, BeginFields DEF Begin, Kind, Release
<1>e. CASE InstallEnter
  BY <1>e, InstallEnterFields, EndedFields DEF InstallEnter
<1>f. CASE LoadImage
  BY <1>f, LoadImageFields DEF LoadImage
<1>g. CASE LoadFails
  BY <1>g, LoadFailsFields DEF LoadFails, RemoveImages
<1>h. CASE EnsureOwnedData
  BY <1>h, GotoFields, OwnedFields DEF EnsureOwnedData
<1>i. CASE EnsureRelease
  <2>1. op.i = 1 /\ op'.i = 1 /\ op'.pc \in {"up", "record", "undo"}
    BY <1>i, GotoFields, ReleaseFields DEF EnsureRelease
  <2>2. op'.pc = "record" => op.flag /\ op'.flag /\ op'.kind = "install"
    BY <1>i, GotoFields, ReleaseFields DEF EnsureRelease
  <2>3. \A j \in Phase : ~(j < op'.i)
    BY <2>1, PhasesAreNat
  <2>4. QED
    BY <2>1, <2>2, <2>3
<1>j. CASE StartPhase
  <2>1. CASE op' = NextPhase /\ UNCHANGED running
    <3>1. op.pc = "up" /\ running[op.i] # None
      <4>1. CASE Skippable(op.i) /\ "ready" \in ReadinessProbe(op.i)
        BY <1>j, <4>1 DEF StartPhase, Skippable, ReadinessProbe, HttpReady, DnsQuery
      <4>2. CASE Goto("ready")
        BY <2>1, <4>2, <1>j, GotoFields, NextPhaseFields DEF StartPhase
      <4>3. QED
        BY <1>j, <4>1, <4>2 DEF StartPhase
    <3>2. \A j \in Phase : j < op.i + 1 => running[j] # None
      BY <3>1, <1>2, PhasesAreNat
    <3>3. /\ op'.i = op.i + 1
          /\ op'.pc = "up" \/ (op'.pc = "switch" /\ op.i = NumPhases)
      BY <2>1, NextPhaseFields
    <3>4. op'.pc = "switch" => \A j \in Phase : j < op.i + 1
      BY <1>2, <3>3 DEF Phase
    <3>5. QED
      BY <2>1, <3>2, <3>3, <3>4
  <2>2. CASE running' = [running EXCEPT ![op.i] = op.tgt] /\ Goto("ready")
    <3>1. op.tgt # None
      BY <1>j, PackageIsNotNone DEF StartPhase
    <3>2. \A j \in Phase : running[j] # None \/ j = op.i => running'[j] # None
      BY <2>2, <3>1
    <3>3. op'.pc = "ready" /\ op'.i = op.i
      BY <2>2, GotoFields
    <3>4. QED
      BY <1>j, <3>2, <3>3 DEF StartPhase
  <2>3. QED
    BY <1>j, <2>1, <2>2 DEF StartPhase
<1>k. CASE PhaseReady
  <2>1. /\ op.pc = "ready" /\ op'.i = op.i + 1 /\ running' = running
        /\ op'.pc = "up" \/ (op'.pc = "switch" /\ op.i = NumPhases)
    BY <1>k, PhaseReadyFields DEF PhaseReady
  <2>2. \A j \in Phase : j < op.i + 1 => running[j] # None
    BY <2>1, <1>2, PhasesAreNat
  <2>3. op'.pc = "switch" => \A j \in Phase : j < op.i + 1
    BY <1>2, <2>1 DEF Phase
  <2>4. QED
    BY <2>1, <2>2, <2>3
<1>l. CASE SwitchCurrent
  BY <1>l, GotoFields DEF SwitchCurrent
<1>m. CASE RecordPrevious
  BY <1>m, GotoFields DEF RecordPrevious
<1>n. CASE Commit
  BY <1>n, EndedFields, CommitFile DEF Commit
<1>o. CASE ActivateEnter
  <2>1. CASE op' = Ended("failed")
    BY <1>o, <2>1, EndedFields DEF ActivateEnter
  <2>2. CASE op'.pc = "up" /\ op'.i = op.i
    <3>1. \A j \in Phase : ~(j < op'.i)
      BY <1>o, <2>2, PhasesAreNat DEF ActivateEnter
    <3>2. QED
      BY <2>2, <3>1
  <2>3. QED
    BY <1>o, <2>1, <2>2, ActivateEnterFields
<1>p. CASE RollbackEnter
  <2>1. CASE op' = Ended("failed")
    BY <1>p, <2>1, EndedFields DEF RollbackEnter
  <2>2. CASE op'.pc = "up" /\ op'.i = op.i
    <3>1. \A j \in Phase : ~(j < op'.i)
      BY <1>p, <2>2, PhasesAreNat DEF RollbackEnter
    <3>2. QED
      BY <2>2, <3>1
  <2>3. QED
    BY <1>p, <2>1, <2>2, TakeStateFields DEF RollbackEnter, Refuse
<1>q. CASE UninstallEnter
  BY <1>q, EndedFields, UninstallFields DEF UninstallEnter, ActiveInstall,
     StateOfThisHost, Refuse
<1>r. CASE Uninstall
  BY <1>r, GotoFields DEF Uninstall, Services
<1>s. CASE Backup
  BY <1>s, EndedFields DEF Backup
<1>t. CASE StepFails
  BY <1>t, GotoFields, EndedFields DEF StepFails
<1>u. CASE Undo
  BY <1>u, GotoFields, EndedFields DEF Undo
<1>v. CASE RestoreDown
  BY <1>v, RestoreDownFields DEF RestoreDown, Services
<1>w. CASE RestorePhase
  BY <1>w, RestorePhaseFields DEF RestorePhase
<1>x. CASE InstallFailed
  BY <1>x, EndedFields, FailedFile DEF InstallFailed
<1>y. CASE Crash
  BY <1>y, EndedFields DEF Crash
<1>z. CASE RemoveLock
  BY <1>z DEF RemoveLock
<1> HIDE DEF TypeInv, StepsInv, ReleaseInv, ServeInv, StartedServes, Starts,
        SameRun, InstallOnly, UninstallOnly, Shared
<1>3. QED
  BY <1>a, <1>b, <1>c, <1>d, <1>e, <1>f, <1>g, <1>h, <1>i, <1>j, <1>k, <1>l, <1>m,
     <1>n, <1>o, <1>p, <1>q, <1>r, <1>s, <1>t, <1>u, <1>v, <1>w, <1>x, <1>y, <1>z
     DEF Next, Kind

-----------------------------------------------------------------------------
(* The theorems.                                                           *)

\* A machine on which nothing has been installed satisfies the invariant.
LEMMA LifecycleInit == Init => LifecycleInv
<1> SUFFICES ASSUME Init PROVE LifecycleInv
  OBVIOUS
<1>1. /\ op = NoOp /\ op.pc = "idle" /\ op.kind = "none" /\ op.outcome = "none"
      /\ op.prev = None /\ op.new = {} /\ op.i = 1
  BY DEF Init, NoOp
<1>2. file = NoState /\ file.id = 0 /\ file.loaded = FALSE /\ data.id = 0
  BY DEF Init, NoState
<1>3. TypeInv
  <2>1. data \in [dir : BOOLEAN, id : Nat] /\ spent \in [ops : Nat, crashes : Nat,
     ids : Nat]
    BY DEF Init
  <2>2. None \in Release /\ running \in [Phase -> Release]
    BY DEF Init, Services, Release
  <2>3. QED
    BY <2>1, <2>2, EmptyStates DEF Init, TypeInv
<1>4. StepsInv /\ IdInv /\ DataOwned
  BY <1>1, <1>2 DEF StepsInv, IdInv, DataOwned, InstallOnly, UninstallOnly, Working
<1>5. PointerInv
  BY <1>1 DEF PointerInv, FailedInstallKeepsCurrent, Working
<1>6. ReleaseInv /\ LoadedInv
  BY <1>1, <1>2 DEF ReleaseInv, LoadedInv, Working, Init
<1>7. ServeInv
  BY <1>1 DEF ServeInv, StartedServes, Starts
<1>8. QED
  BY <1>3, <1>4, <1>5, <1>6, <1>7 DEF LifecycleInv

\* Every step of every command, and a crash between any two, keeps the invariant.
LEMMA LifecycleStep == LifecycleInv /\ [Next]_vars => LifecycleInv'
BY TypeStep, StepsStep, IdStep, PointerStep, ReleaseStep, LoadedStep, ServeStep
   DEF LifecycleInv

\* The inductive invariant holds in every state that the tool can leave a host in.
THEOREM LifecycleInvariant == Spec => []LifecycleInv
<1>1. Init => LifecycleInv
  BY LifecycleInit
<1>2. LifecycleInv /\ [Next]_vars => LifecycleInv'
  BY LifecycleStep
<1>3. QED
  BY <1>1, <1>2, PTL DEF Spec

\* The id of the state file is the one that marks the data directory, wherever
\* install, rollback or uninstall was killed (lifecycle.py:1047, 933).
THEOREM DataAlwaysOwned == Spec => []DataOwned
<1>1. LifecycleInv => DataOwned
  BY DEF LifecycleInv, IdInv
<1>2. QED
  BY <1>1, LifecycleInvariant, PTL

\* An installation that fails at any step, the recovery included, leaves the
\* current pointer where it found it (lifecycle.py:1097-1109).
THEOREM FailedInstallAlwaysKeepsCurrent == Spec => []FailedInstallKeepsCurrent
<1>1. LifecycleInv => FailedInstallKeepsCurrent
  BY DEF LifecycleInv, PointerInv
<1>2. QED
  BY <1>1, LifecycleInvariant, PTL

\* install, activate or rollback that succeeds leaves every service running, for
\* any list of phases and whatever phases the state file records as ready
\* (lifecycle.py:835).
THEOREM StartedAlwaysServes == Spec => []StartedServes
<1>1. LifecycleInv => StartedServes
  BY DEF LifecycleInv, ServeInv
<1>2. QED
  BY <1>1, LifecycleInvariant, PTL

\* The images of the current release stay loaded, whatever images later packages
\* share with it and wherever their load fails (load_images.py:142-162).
THEOREM ImagesAlwaysKept == Spec => []ImagesKept
<1>1. LifecycleInv => ImagesKept
  BY DEF LifecycleInv, ReleaseInv, LoadedInv, ImagesKept
<1>2. QED
  BY <1>1, LifecycleInvariant, PTL
==============================================================================
