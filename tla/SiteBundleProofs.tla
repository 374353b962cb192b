--------------------------- MODULE SiteBundleProofs ---------------------------
(***************************************************************************)
(* Proofs about the renderers of field material (FieldDelivery), for any   *)
(* inventories, artifacts and acceptance files, and about the delivery     *)
(* that is built from their releases (SiteBundle), for any manifests,      *)
(* archives, evidence files, kits and keys, and any bounds.                *)
(***************************************************************************)
EXTENDS SiteBundle, SequenceTheorems, TLAPS

-----------------------------------------------------------------------------
(* Field material: the inductive invariant, part by part.                  *)

\* The first n files of a bundle.
Written(n) == {BundleParts[i] : i \in 1 .. n}

\* A validated inventory that has the unit.
Renders(s, u) ==
    /\ s \in DOMAIN Sites
    /\ UnitsDistinct(Sites[s].units) /\ HostsFree(Sites[s].units) /\ SecretsApart(Sites[s].units)
    /\ \E i \in DOMAIN Sites[s].units : Sites[s].units[i].id = u

\* All files are of one inventory.
OfInventory(files, s) == \A p \in DOMAIN files : files[p].inv = s

\* A list of checksums was written last: it names all files of a bundle, and
\* what is left of them is of the inventory that it is of.
BundleInv ==
    \A u \in Units : LET d == dir[u] IN
        /\ "dirs" \notin DOMAIN d.files => DOMAIN d.files = {}
        /\ "sums" \in DOMAIN d.files =>
              /\ DOMAIN d.sums = Written(10) \ {"dirs", "sums"}
              /\ OfInventory(d.files, d.files["sums"].inv)
              /\ Renders(d.files["sums"].inv, u)

\* A Trace acceptance that does not stop a render.
TraceOf(n, t) == t = NoTrace \/ (Traces[t].passed /\ Traces[t].commit = Norns[n].commit)

\* What is in the directory of a release was written by one render.
OfRelease(files, n, t) ==
    \A p \in DOMAIN files :
        /\ files[p].inv = n
        /\ p \in Packages \cup {"manifest"} => files[p].trace = t
        /\ p \in Packages => files[p].from \notin Tainted

ReleaseInv ==
    /\ "dirs" \notin DOMAIN dir[Release].files => DOMAIN dir[Release].files = {}
    /\ \E n, t : TraceOf(n, t) /\ OfRelease(dir[Release].files, n, t)

JobFields == {"place", "inv", "checked", "todo", "force", "images", "trace", "step", "pos"}

\* The renderer of a site has validated the inventory, and what it has written
\* to the directory of a unit is all there is.
SiteJobInv ==
    job.step # "idle" /\ job.place # Release =>
        /\ job.place \in Units /\ Renders(job.inv, job.place)
        /\ job.todo \in Seq(Units) /\ \A i \in DOMAIN job.todo : Renders(job.inv, job.todo[i])
        /\ job.step = "write" =>
              /\ DOMAIN dir[job.place].files = Written(job.pos)
              /\ OfInventory(dir[job.place].files, job.inv)

ReleaseJobInv ==
    job.step # "idle" /\ job.place = Release =>
        /\ job.todo = <<>>
        /\ TraceOf(job.inv, job.trace)
        /\ job.step = "write" =>
              /\ job.pos > 0 => "dirs" \in DOMAIN dir[Release].files
              /\ OfRelease(dir[Release].files, job.inv, job.trace)

JobInv ==
    /\ job = [f \in JobFields |-> job[f]]
    /\ job.step \in {"idle", "enter", "remove", "write"}
    /\ job.pos \in 0 .. 10
    /\ job.step # "write" => job.pos = 0
    /\ DOMAIN dir = Places

DeliveryInv == BundleInv /\ ReleaseInv /\ JobInv /\ SiteJobInv /\ ReleaseJobInv

-----------------------------------------------------------------------------
(* What the operators of the model do.                                     *)

\* The files of a bundle and of a release: the directories come first, the list
\* of checksums last.
LEMMA PartsOrder ==
  /\ Len(BundleParts) = 10 /\ Len(ReleaseParts) = 10
  /\ BundleParts[1] = "dirs" /\ BundleParts[10] = "sums"
  /\ \A i \in 1 .. 9 : BundleParts[i] # "sums"
  /\ ReleaseParts[1] = "dirs"
  /\ DOMAIN BundleParts = 1 .. 10
BY DEF BundleParts, ReleaseParts

\* The next file is added to the ones written before.
LEMMA WrittenNext ==
  ASSUME NEW n \in 0 .. 9
  PROVE  /\ Written(n + 1) = Written(n) \cup {BundleParts[n + 1]}
         /\ "sums" \notin Written(n)
         /\ Written(0) = {}
         /\ "dirs" \in Written(n + 1)
         /\ BundleParts[n + 1] = "sums" => n = 9
<1>1. Written(n + 1) = Written(n) \cup {BundleParts[n + 1]}
  <2>1. 1 .. (n + 1) = (1 .. n) \cup {n + 1}
    OBVIOUS
  <2>2. QED BY <2>1 DEF Written
<1>2. "sums" \notin Written(n) /\ Written(0) = {} /\ "dirs" \in Written(n + 1)
  BY PartsOrder DEF Written
<1>3. BundleParts[n + 1] = "sums" => n = 9
  BY PartsOrder
<1>4. QED BY <1>1, <1>2, <1>3

\* Every file a renderer writes is of its inventory; a package and the manifest
\* speak of its Trace acceptance, and a package is of the tree as it is.
LEMMA Contents ==
  ASSUME NEW part, NEW j
  PROVE  /\ ContentOf(part, j).inv = j.inv
         /\ part \in Packages \cup {"manifest"} => ContentOf(part, j).trace = j.trace
         /\ part \in Packages => ContentOf(part, j).from = head
<1>1. CASE part \in Packages
  BY <1>1 DEF ContentOf, PackageFile, File, Packages
<1>2. CASE part = "manifest"
  BY <1>2 DEF ContentOf, ManifestFile, File, Packages
<1>3. CASE part \notin Packages /\ part # "manifest"
  BY <1>3 DEF ContentOf, CopiedFile, HostFile, DocumentFile, EnvironmentFile, File
<1>4. QED BY <1>1, <1>2, <1>3

\* The units of a site inventory are places of bundles.
LEMMA SiteUnits ==
  ASSUME NEW s \in DOMAIN Sites, NEW i \in DOMAIN Sites[s].units
  PROVE  Sites[s].units[i].id \in Units
BY DEF Units

\* A renderer that is at work on a unit or on the release.
LEMMA JobPlace ==
  ASSUME DeliveryInv, job.step # "idle"
  PROVE  job.place \in Places
BY DEF DeliveryInv, SiteJobInv, Places

-----------------------------------------------------------------------------
(* The invariant holds initially, and every step keeps it.                 *)

\* Nothing was rendered yet.
LEMMA DeliveryInit == Init => DeliveryInv
<1> SUFFICES ASSUME Init PROVE DeliveryInv
  OBVIOUS
<1>1. \A p \in Places : DOMAIN dir[p].files = {}
  BY DEF Init, EmptyDir
<1>2. Release \in Places /\ Units \subseteq Places
  BY DEF Places
<1>3. job.step = "idle" /\ job.pos = 0 /\ job = [f \in JobFields |-> job[f]]
  BY DEF Init, Idle, JobFields
<1>4. TraceOf(0, NoTrace) /\ OfRelease(dir[Release].files, 0, NoTrace)
  BY <1>1, <1>2 DEF TraceOf, OfRelease
<1>5. DOMAIN dir = Places
  BY DEF Init
<1>6. QED
  BY <1>1, <1>2, <1>3, <1>4, <1>5
     DEF DeliveryInv, BundleInv, ReleaseInv, JobInv, SiteJobInv, ReleaseJobInv

\* The start of a site's render: the inventory was validated.
LEMMA RenderSiteStep ==
  ASSUME DeliveryInv, NEW s \in DOMAIN Sites, NEW force \in BOOLEAN, RenderSite(s, force)
  PROVE  DeliveryInv'
<1> DEFINE units == Sites[s].units
           ids == [i \in DOMAIN units |-> units[i].id]
<1>1. UNCHANGED dir /\ units # <<>> /\ units \in Seq(Range(units))
  BY SitesAssumption DEF RenderSite, SiteValid, ShapeValid
<1>2. UnitsDistinct(units) /\ HostsFree(units) /\ SecretsApart(units)
  BY DEF RenderSite, SiteValid
<1>3. \A i \in DOMAIN units : Renders(s, ids[i]) /\ ids[i] \in Units
  BY <1>2, SiteUnits DEF Renders
<1>4. job' = [Idle EXCEPT !.place = ids[1], !.inv = s, !.checked = artifact, !.todo = Tail(ids),
                          !.force = force, !.step = "enter"]
  BY DEF RenderSite
<1> HIDE DEF units
<1>5. ids \in Seq(Units) /\ 1 \in DOMAIN units /\ DOMAIN ids = DOMAIN units
  BY <1>1, <1>3
<1>6. Tail(ids) \in Seq(Units) /\ \A i \in DOMAIN Tail(ids) : Renders(s, Tail(ids)[i])
  BY <1>3, <1>5
<1>7. Renders(s, ids[1]) /\ ids[1] \in Units
  BY <1>3, <1>5
<1> HIDE DEF ids
<1>8. /\ job'.place = ids[1] /\ job'.inv = s /\ job'.todo = Tail(ids) /\ job'.step = "enter"
      /\ job'.pos = 0 /\ job' = [f \in JobFields |-> job'[f]]
  BY <1>4 DEF Idle, JobFields
<1>9. job'.place # Release
  BY <1>7, <1>8, SitesAssumption
<1>10. QED
  BY <1>1, <1>6, <1>7, <1>8, <1>9
     DEF DeliveryInv, BundleInv, ReleaseInv, JobInv, SiteJobInv, ReleaseJobInv

\* The start of a release's render: an acceptance that did not pass, or is of
\* another commit, stops it.
LEMMA RenderReleaseStep ==
  ASSUME DeliveryInv, NEW n \in DOMAIN Norns, NEW force \in BOOLEAN,
         NEW t \in DOMAIN Traces \cup {NoTrace}, NEW images, RenderRelease(n, force, t, images)
  PROVE  DeliveryInv'
<1>1. /\ UNCHANGED dir
      /\ job' = [Idle EXCEPT !.place = Release, !.inv = n, !.force = force, !.trace = t,
                             !.images = images, !.step = "enter"]
  BY DEF RenderRelease
<1>2. TraceOf(n, t)
  BY DEF RenderRelease, TraceReady, TraceOf
<1>3. /\ job'.place = Release /\ job'.inv = n /\ job'.todo = <<>> /\ job'.step = "enter"
      /\ job'.trace = t /\ job'.pos = 0 /\ job' = [f \in JobFields |-> job'[f]]
  BY <1>1 DEF Idle, JobFields
<1>4. QED
  BY <1>1, <1>2, <1>3
     DEF DeliveryInv, BundleInv, ReleaseInv, JobInv, SiteJobInv, ReleaseJobInv

\* A renderer that ended, whatever it leaves behind.
LEMMA EndedStep ==
  ASSUME DeliveryInv, Ended, UNCHANGED dir
  PROVE  DeliveryInv'
<1>1. job'.step = "idle" /\ job'.pos = 0 /\ job' = [f \in JobFields |-> job'[f]]
  BY DEF Ended, Idle, JobFields
<1>2. QED
  BY <1>1 DEF DeliveryInv, BundleInv, ReleaseInv, JobInv, SiteJobInv, ReleaseJobInv

\* A directory is written to only when it is empty.
LEMMA EnterStep ==
  ASSUME DeliveryInv, Enter
  PROVE  DeliveryInv'
<1>1. job.step = "enter" /\ UNCHANGED dir /\ job.pos = 0 /\ job = [f \in JobFields |-> job[f]]
  BY DEF Enter, Working, DeliveryInv, JobInv
<1>2. CASE Ended
  BY <1>1, <1>2, EndedStep
<1>3. CASE "dirs" \notin DOMAIN dir[job.place].files /\ job' = [job EXCEPT !.step = "write"]
  <2>1. /\ job' = [f \in JobFields |-> job'[f]] /\ job'.step = "write"
        /\ job'.place = job.place /\ job'.inv = job.inv /\ job'.todo = job.todo
        /\ job'.trace = job.trace /\ job'.pos = 0
    BY <1>1, <1>3 DEF JobFields
  <2>2. DOMAIN dir[job.place].files = {}
    BY <1>1, <1>3, JobPlace DEF DeliveryInv, BundleInv, ReleaseInv, Places
  <2>3. Written(0) = {}
    BY WrittenNext
  <2>4. BundleInv' /\ ReleaseInv'
    BY <1>1 DEF DeliveryInv, BundleInv, ReleaseInv
  <2>5. JobInv'
    BY <1>1, <2>1 DEF DeliveryInv, JobInv
  <2>6. SiteJobInv'
    BY <1>1, <2>1, <2>2, <2>3 DEF DeliveryInv, SiteJobInv, OfInventory
  <2>7. ReleaseJobInv'
    <3> SUFFICES ASSUME job.place = Release
                 PROVE  /\ job.todo = <<>> /\ TraceOf(job.inv, job.trace)
                        /\ OfRelease(dir[Release].files, job.inv, job.trace)
      BY <1>1, <2>1 DEF ReleaseJobInv
    <3>1. job.todo = <<>> /\ TraceOf(job.inv, job.trace)
      BY <1>1 DEF DeliveryInv, ReleaseJobInv
    <3>2. QED BY <2>2, <3>1 DEF OfRelease
  <2>8. QED BY <2>4, <2>5, <2>6, <2>7 DEF DeliveryInv
<1>4. CASE job' = [job EXCEPT !.step = "remove"]
  <2>1. /\ job' = [f \in JobFields |-> job'[f]] /\ job'.step = "remove"
        /\ job'.place = job.place /\ job'.inv = job.inv /\ job'.todo = job.todo
        /\ job'.trace = job.trace /\ job'.pos = 0
    BY <1>1, <1>4 DEF JobFields
  <2>2. QED
    BY <1>1, <2>1
       DEF DeliveryInv, BundleInv, ReleaseInv, JobInv, SiteJobInv, ReleaseJobInv
<1>5. QED BY <1>2, <1>3, <1>4 DEF Enter

\* What a step of a renderer does to the other directories: nothing.
LEMMA OtherPlaces ==
  ASSUME DeliveryInv, job.step # "idle", NEW d, dir' = [dir EXCEPT ![job.place] = d]
  PROVE  /\ DOMAIN dir' = Places /\ dir'[job.place] = d
         /\ \A p \in Places : p # job.place => dir'[p] = dir[p]
BY JobPlace DEF DeliveryInv, JobInv

\* shutil.rmtree takes the directory last, so the list of checksums never
\* outlives the directory, and what is left is of one render still.
LEMMA RemoveStep ==
  ASSUME DeliveryInv, Remove
  PROVE  DeliveryInv'
<1>1. /\ job.step = "remove" /\ job.pos = 0 /\ job = [f \in JobFields |-> job[f]]
      /\ job.place \in Places /\ Release \notin Units /\ Places = Units \cup {Release}
  BY JobPlace, SitesAssumption DEF Remove, Working, DeliveryInv, JobInv, Places
<1>2. CASE /\ dir' = [dir EXCEPT ![job.place] = EmptyDir]
           /\ job' = [job EXCEPT !.step = "write"]
  <2>1. /\ job' = [f \in JobFields |-> job'[f]] /\ job'.step = "write"
        /\ job'.place = job.place /\ job'.inv = job.inv /\ job'.todo = job.todo
        /\ job'.trace = job.trace /\ job'.pos = 0
    BY <1>1, <1>2 DEF JobFields
  <2>2. /\ DOMAIN dir' = Places /\ dir'[job.place] = EmptyDir
        /\ \A p \in Places : p # job.place => dir'[p] = dir[p]
    BY <1>1, <1>2, OtherPlaces
  <2>3. DOMAIN EmptyDir.files = {} /\ Written(0) = {}
    BY WrittenNext DEF EmptyDir
  <2>4. BundleInv'
    BY <1>1, <2>2, <2>3 DEF DeliveryInv, BundleInv
  <2>5. ReleaseInv'
    <3>1. CASE job.place = Release
      <4>1. TraceOf(0, NoTrace) /\ OfRelease(dir'[Release].files, 0, NoTrace)
        BY <2>2, <2>3, <3>1 DEF TraceOf, OfRelease
      <4>2. QED BY <2>2, <2>3, <3>1, <4>1 DEF ReleaseInv
    <3>2. CASE job.place # Release
      BY <1>1, <2>2, <3>2 DEF DeliveryInv, ReleaseInv
    <3>3. QED BY <3>1, <3>2
  <2>6. JobInv'
    BY <2>1, <2>2 DEF JobInv
  <2>7. SiteJobInv'
    BY <1>1, <2>1, <2>2, <2>3 DEF DeliveryInv, SiteJobInv, OfInventory
  <2>8. ReleaseJobInv'
    BY <1>1, <2>1, <2>2, <2>3 DEF DeliveryInv, ReleaseJobInv, OfRelease
  <2>9. QED BY <2>4, <2>5, <2>6, <2>7, <2>8 DEF DeliveryInv
<1>3. ASSUME NEW p \in DOMAIN dir[job.place].files \ {"dirs"}, UNCHANGED job,
             dir' = [dir EXCEPT ![job.place] =
                [files |-> Restrict(dir[job.place].files, DOMAIN dir[job.place].files \ {p}),
                 sums |-> IF "sums" \in DOMAIN dir[job.place].files \ {p}
                          THEN dir[job.place].sums ELSE <<>>]]
      PROVE DeliveryInv'
  <2> DEFINE d == dir[job.place]
             e == dir'[job.place]
  <2>1. /\ DOMAIN dir' = Places
        /\ \A q \in Places : q # job.place => dir'[q] = dir[q]
        /\ e = [files |-> Restrict(d.files, DOMAIN d.files \ {p}),
                sums |-> IF "sums" \in DOMAIN d.files \ {p} THEN d.sums ELSE <<>>]
    BY <1>1, <1>3, OtherPlaces
  <2>2. /\ DOMAIN e.files = DOMAIN d.files \ {p}
        /\ \A q \in DOMAIN e.files : e.files[q] = d.files[q]
        /\ "sums" \in DOMAIN e.files => e.sums = d.sums
    BY <2>1 DEF Restrict
  <2>3. p # "dirs"
    BY <1>3
  <2> HIDE DEF d, e
  <2>4. BundleInv'
    <3> SUFFICES ASSUME NEW u \in Units
                 PROVE  /\ "dirs" \notin DOMAIN dir'[u].files => DOMAIN dir'[u].files = {}
                        /\ "sums" \in DOMAIN dir'[u].files =>
                             /\ DOMAIN dir'[u].sums = Written(10) \ {"dirs", "sums"}
                             /\ OfInventory(dir'[u].files, dir'[u].files["sums"].inv)
                             /\ Renders(dir'[u].files["sums"].inv, u)
      BY DEF BundleInv
    <3>1. CASE u = job.place
      <4>1. /\ "dirs" \notin DOMAIN d.files => DOMAIN d.files = {}
            /\ "sums" \in DOMAIN d.files =>
                 /\ DOMAIN d.sums = Written(10) \ {"dirs", "sums"}
                 /\ OfInventory(d.files, d.files["sums"].inv)
                 /\ Renders(d.files["sums"].inv, u)
        BY <3>1 DEF DeliveryInv, BundleInv, d
      <4>2. QED BY <2>2, <2>3, <3>1, <4>1 DEF e, OfInventory
    <3>2. CASE u # job.place
      BY <1>1, <2>1, <3>2 DEF DeliveryInv, BundleInv
    <3>3. QED BY <3>1, <3>2
  <2>5. ReleaseInv'
    <3>1. CASE job.place = Release
      <4>1. PICK n, t : TraceOf(n, t) /\ OfRelease(d.files, n, t)
        BY <3>1 DEF DeliveryInv, ReleaseInv, d
      <4>2. OfRelease(e.files, n, t)
        BY <2>2, <4>1 DEF OfRelease
      <4>3. "dirs" \notin DOMAIN e.files => DOMAIN e.files = {}
        BY <2>2, <2>3, <3>1 DEF DeliveryInv, ReleaseInv, d
      <4>4. QED BY <3>1, <4>1, <4>2, <4>3 DEF ReleaseInv, e
    <3>2. CASE job.place # Release
      BY <1>1, <2>1, <3>2 DEF DeliveryInv, ReleaseInv
    <3>3. QED BY <3>1, <3>2
  <2>6. JobInv' /\ SiteJobInv' /\ ReleaseJobInv'
    BY <1>1, <1>3, <2>1 DEF DeliveryInv, JobInv, SiteJobInv, ReleaseJobInv
  <2>7. QED BY <2>4, <2>5, <2>6 DEF DeliveryInv
<1>4. QED BY <1>2, <1>3 DEF Remove

\* The next unit is entered with nothing written of it.
LEMMA RenderedStep ==
  ASSUME DeliveryInv, Rendered
  PROVE  DeliveryInv'
<1>1. job.step = "write" /\ job = [f \in JobFields |-> job[f]] /\ UNCHANGED dir
  BY DEF Rendered, Working, DeliveryInv, JobInv
<1>2. CASE job' = Idle
  BY <1>1, <1>2, EndedStep DEF Ended
<1>3. CASE job.todo # <<>> /\ job' = [job EXCEPT !.place = job.todo[1], !.todo = Tail(@),
                                               !.step = "enter", !.pos = 0]
  <2>1. /\ job' = [f \in JobFields |-> job'[f]] /\ job'.step = "enter"
        /\ job'.place = job.todo[1] /\ job'.inv = job.inv /\ job'.todo = Tail(job.todo)
        /\ job'.pos = 0
    BY <1>1, <1>3 DEF JobFields
  <2>2. /\ job.todo \in Seq(Units) /\ \A i \in DOMAIN job.todo : Renders(job.inv, job.todo[i])
    BY <1>1, <1>3 DEF DeliveryInv, SiteJobInv, ReleaseJobInv
  <2>3. /\ job.todo[1] \in Units /\ Renders(job.inv, job.todo[1])
        /\ Tail(job.todo) \in Seq(Units)
        /\ \A i \in DOMAIN Tail(job.todo) : Renders(job.inv, Tail(job.todo)[i])
    BY <1>3, <2>2
  <2>4. job'.place # Release
    BY <2>1, <2>3, SitesAssumption
  <2>5. BundleInv' /\ ReleaseInv'
    BY <1>1 DEF DeliveryInv, BundleInv, ReleaseInv
  <2>6. JobInv'
    BY <1>1, <2>1 DEF DeliveryInv, JobInv
  <2>7. SiteJobInv'
    BY <2>1, <2>3 DEF SiteJobInv
  <2>8. ReleaseJobInv'
    BY <2>4 DEF ReleaseJobInv
  <2>9. QED BY <2>5, <2>6, <2>7, <2>8 DEF DeliveryInv
<1>4. QED BY <1>2, <1>3 DEF Rendered

\* One more file of a bundle; the list of checksums is the last.
LEMMA WriteBundleStep ==
  ASSUME DeliveryInv, Write, job.place # Release, ~Ended
  PROVE  DeliveryInv'
<1> DEFINE part == BundleParts[job.pos + 1]
           d == dir[job.place]
           e == dir'[job.place]
<1>1. /\ job.step = "write" /\ job = [f \in JobFields |-> job[f]]
      /\ job.place \in Units /\ Release \notin Units /\ Places = Units \cup {Release}
      /\ DOMAIN dir = Places
  BY SitesAssumption DEF Write, Working, DeliveryInv, JobInv, SiteJobInv, Places
<1>2. job.pos \in 0 .. 9
  <2>1. job.pos < Len(Parts(job.place))
    BY DEF Write
  <2>2. Len(Parts(job.place)) = 10
    BY PartsOrder DEF Parts
  <2>3. job.pos \in 0 .. 10
    BY DEF DeliveryInv, JobInv
  <2>4. QED BY <2>1, <2>2, <2>3
<1>3. ~Left(part)
  BY <1>2 DEF Left, BundleParts
<1>4. /\ job' = [job EXCEPT !.pos = @ + 1]
      /\ LET files == [p \in DOMAIN d.files \cup {part} |->
                         IF p = part THEN ContentOf(part, job) ELSE d.files[p]]
             sums == IF part = "sums" THEN Checksums(files, Summed(job.place, files)) ELSE d.sums
         IN  dir' = [dir EXCEPT ![job.place] = [files |-> files, sums |-> sums]]
  BY <1>3 DEF Write, Parts
<1>5. /\ DOMAIN dir' = Places
      /\ \A q \in Places : q # job.place => dir'[q] = dir[q]
      /\ DOMAIN e.files = DOMAIN d.files \cup {part}
      /\ e.files[part] = ContentOf(part, job)
      /\ \A p \in DOMAIN d.files : p # part => e.files[p] = d.files[p]
      /\ part = "sums" => DOMAIN e.sums = DOMAIN e.files \ {"dirs", "sums"}
  BY <1>1, <1>4 DEF Checksums, Summed, Restrict
<1>6. /\ job' = [f \in JobFields |-> job'[f]] /\ job'.step = "write"
      /\ job'.place = job.place /\ job'.inv = job.inv /\ job'.todo = job.todo
      /\ job'.pos = job.pos + 1
  BY <1>1, <1>4 DEF JobFields
<1>7. /\ Written(job.pos + 1) = Written(job.pos) \cup {part}
      /\ "sums" \notin Written(job.pos)
      /\ "dirs" \in Written(job.pos + 1)
      /\ part = "sums" => job.pos = 9
  BY <1>2, WrittenNext
<1>8. /\ DOMAIN d.files = Written(job.pos) /\ OfInventory(d.files, job.inv)
      /\ Renders(job.inv, job.place)
  BY <1>1 DEF DeliveryInv, SiteJobInv
<1>9. ContentOf(part, job).inv = job.inv
  BY Contents
<1> HIDE DEF part, d, e
<1>10. DOMAIN e.files = Written(job.pos + 1) /\ OfInventory(e.files, job.inv)
  BY <1>5, <1>7, <1>8, <1>9 DEF OfInventory
<1>11. BundleInv'
  <2> SUFFICES ASSUME NEW u \in Units
               PROVE  /\ "dirs" \notin DOMAIN dir'[u].files => DOMAIN dir'[u].files = {}
                      /\ "sums" \in DOMAIN dir'[u].files =>
                           /\ DOMAIN dir'[u].sums = Written(10) \ {"dirs", "sums"}
                           /\ OfInventory(dir'[u].files, dir'[u].files["sums"].inv)
                           /\ Renders(dir'[u].files["sums"].inv, u)
    BY DEF BundleInv
  <2>1. CASE u = job.place
    <3>1. ASSUME "sums" \in DOMAIN e.files
          PROVE  /\ DOMAIN e.sums = Written(10) \ {"dirs", "sums"}
                 /\ e.files["sums"].inv = job.inv
      <4>1. part = "sums"
        BY <1>5, <1>7, <1>8, <3>1
      <4>2. job.pos + 1 = 10
        BY <1>7, <4>1
      <4>3. QED BY <1>5, <1>9, <1>10, <4>1, <4>2
    <3>2. QED BY <1>7, <1>8, <1>10, <2>1, <3>1 DEF e
  <2>2. CASE u # job.place
    BY <1>1, <1>5, <2>2 DEF DeliveryInv, BundleInv
  <2>3. QED BY <2>1, <2>2
<1>12. ReleaseInv'
  BY <1>1, <1>5 DEF DeliveryInv, ReleaseInv
<1>13. JobInv'
  BY <1>2, <1>5, <1>6 DEF JobInv
<1>14. SiteJobInv'
  BY <1>1, <1>6, <1>10 DEF DeliveryInv, SiteJobInv, e
<1>15. ReleaseJobInv'
  BY <1>1, <1>6 DEF ReleaseJobInv
<1>16. QED BY <1>11, <1>12, <1>13, <1>14, <1>15 DEF DeliveryInv

\* One more file of a release; a package of a tainted tree stops the render.
LEMMA WriteReleaseStep ==
  ASSUME DeliveryInv, Write, job.place = Release, ~Ended
  PROVE  DeliveryInv'
<1> DEFINE part == ReleaseParts[job.pos + 1]
           d == dir[Release]
           e == dir'[Release]
<1>1. /\ job.step = "write" /\ job = [f \in JobFields |-> job[f]]
      /\ Release \notin Units /\ Places = Units \cup {Release} /\ DOMAIN dir = Places
  BY SitesAssumption DEF Write, Working, DeliveryInv, JobInv, Places
<1>2. job.pos \in 0 .. 9
  <2>1. job.pos < Len(Parts(job.place))
    BY DEF Write
  <2>2. Len(Parts(job.place)) = 10
    BY PartsOrder DEF Parts
  <2>3. job.pos \in 0 .. 10
    BY DEF DeliveryInv, JobInv
  <2>4. QED BY <2>1, <2>2, <2>3
<1>3. ~Refused(part) /\ job' = [job EXCEPT !.pos = @ + 1]
  BY DEF Write, Parts
<1>4. /\ job' = [f \in JobFields |-> job'[f]] /\ job'.step = "write"
      /\ job'.place = Release /\ job'.inv = job.inv /\ job'.todo = job.todo
      /\ job'.trace = job.trace /\ job'.pos = job.pos + 1
  BY <1>1, <1>3 DEF JobFields
<1>5. /\ job.todo = <<>> /\ TraceOf(job.inv, job.trace)
      /\ job.pos > 0 => "dirs" \in DOMAIN d.files
      /\ OfRelease(d.files, job.inv, job.trace)
  BY <1>1 DEF DeliveryInv, ReleaseJobInv
<1>6. job.pos = 0 => part = "dirs"
  BY PartsOrder
<1>7. /\ DOMAIN dir' = Places
      /\ \A q \in Units : dir'[q] = dir[q]
      /\ "dirs" \in DOMAIN e.files
      /\ OfRelease(e.files, job.inv, job.trace)
  <2>1. CASE Left(part) /\ dir' = dir
    BY <1>1, <1>2, <1>5, <1>6, <2>1 DEF Left
  <2>2. CASE LET files == [p \in DOMAIN d.files \cup {part} |->
                             IF p = part THEN ContentOf(part, job) ELSE d.files[p]]
                 sums == IF part = "sums" THEN Checksums(files, Summed(job.place, files)) ELSE d.sums
             IN  dir' = [dir EXCEPT ![job.place] = [files |-> files, sums |-> sums]]
    <3>1. /\ DOMAIN dir' = Places /\ \A q \in Units : dir'[q] = dir[q]
          /\ DOMAIN e.files = DOMAIN d.files \cup {part}
          /\ e.files[part] = ContentOf(part, job)
          /\ \A p \in DOMAIN d.files : p # part => e.files[p] = d.files[p]
      BY <1>1, <2>2
    <3>2. /\ ContentOf(part, job).inv = job.inv
          /\ part \in Packages \cup {"manifest"} => ContentOf(part, job).trace = job.trace
          /\ part \in Packages => ContentOf(part, job).from \notin Tainted
      BY <1>3, Contents DEF Refused
    <3> HIDE DEF part, d, e
    <3>3. "dirs" \in DOMAIN e.files
      BY <1>2, <1>5, <1>6, <3>1
    <3>4. OfRelease(e.files, job.inv, job.trace)
      BY <1>5, <3>1, <3>2 DEF OfRelease
    <3>5. QED BY <3>1, <3>3, <3>4
  <2>3. QED BY <2>1, <2>2 DEF Write, Parts
<1> HIDE DEF part, d, e
<1>8. BundleInv'
  BY <1>7 DEF DeliveryInv, BundleInv
<1>9. ReleaseInv'
  BY <1>5, <1>7 DEF ReleaseInv, e
<1>10. JobInv'
  BY <1>2, <1>4, <1>7 DEF JobInv
<1>11. SiteJobInv' /\ ReleaseJobInv'
  BY <1>4, <1>5, <1>7 DEF SiteJobInv, ReleaseJobInv, e
<1>12. QED BY <1>8, <1>9, <1>10, <1>11 DEF DeliveryInv

\* Every step of a renderer, of the operator and of the repository.
LEMMA DeliveryStep == DeliveryInv /\ [Next]_vars => DeliveryInv'
<1> SUFFICES ASSUME DeliveryInv, [Next]_vars PROVE DeliveryInv'
  OBVIOUS
<1>1. ASSUME UNCHANGED <<dir, job>> PROVE DeliveryInv'
  BY <1>1 DEF DeliveryInv, BundleInv, ReleaseInv, JobInv, SiteJobInv, ReleaseJobInv
<1>2. CASE Command
  BY <1>2, RenderSiteStep, RenderReleaseStep DEF Command
<1>3. CASE Enter \/ Remove \/ Rendered
  BY <1>3, EnterStep, RemoveStep, RenderedStep
<1>4. CASE Write
  <2>1. CASE ~Ended
    BY <1>4, <2>1, WriteBundleStep, WriteReleaseStep
  <2>2. CASE Ended
    <3>1. UNCHANGED dir
      <4>1. job' # [job EXCEPT !.pos = @ + 1]
        <5>1. job.step = "write" /\ job = [f \in JobFields |-> job[f]]
          BY <1>4 DEF Write, Working, DeliveryInv, JobInv
        <5>2. [job EXCEPT !.pos = @ + 1].step = "write"
          BY <5>1 DEF JobFields
        <5>3. job'.step = "idle"
          BY <2>2 DEF Ended, Idle
        <5>4. QED BY <5>2, <5>3
      <4>2. QED BY <1>4, <4>1 DEF Write
    <3>2. QED BY <2>2, <3>1, EndedStep
  <2>3. QED BY <2>1, <2>2
<1>5. CASE Killed
  BY <1>5, EndedStep DEF Killed
<1>6. ASSUME NEW a \in DOMAIN Artifacts, EditArtifacts(a) PROVE DeliveryInv'
  BY <1>1, <1>6 DEF EditArtifacts
<1>7. ASSUME NEW c \in Commit, Checkout(c) PROVE DeliveryInv'
  BY <1>1, <1>7 DEF Checkout
<1>8. CASE UNCHANGED vars
  BY <1>1, <1>8 DEF vars
<1>9. QED BY <1>2, <1>3, <1>4, <1>5, <1>6, <1>7, <1>8 DEF Next

\* What the renderers leave on the disk is the work of one render or a part of it,
\* wherever they are stopped and whatever they are started with again.
THEOREM DeliveryInvariant == Spec => []DeliveryInv
BY DeliveryInit, DeliveryStep, PTL DEF Spec

-----------------------------------------------------------------------------
(* The properties.                                                         *)

\* A bundle that verifies is complete and of the inventory its list is of.
LEMMA VerifiedBundle ==
  ASSUME DeliveryInv, NEW u \in Units, VerifyBundle(u)
  PROVE  /\ DOMAIN dir[u].files = {BundleParts[i] : i \in DOMAIN BundleParts}
         /\ \A p \in DOMAIN dir[u].files : dir[u].files[p].inv = dir[u].files["env"].inv
         /\ Renders(dir[u].files["env"].inv, u)
<1> DEFINE d == dir[u]
<1>1. /\ "sums" \in DOMAIN d.files /\ DOMAIN d.sums = DOMAIN d.files \ {"dirs", "sums"}
  BY SitesAssumption DEF VerifyBundle, Summed
<1>2. /\ "dirs" \in DOMAIN d.files
      /\ DOMAIN d.sums = Written(10) \ {"dirs", "sums"}
      /\ OfInventory(d.files, d.files["sums"].inv)
      /\ Renders(d.files["sums"].inv, u)
  BY <1>1 DEF DeliveryInv, BundleInv
<1>3. /\ Written(10) = {BundleParts[i] : i \in DOMAIN BundleParts}
      /\ "dirs" \in Written(10) /\ "sums" \in Written(10) /\ "env" \in Written(10)
  <2>1. BundleParts[7] = "env" /\ 7 \in 1 .. 10 /\ 1 \in 1 .. 10 /\ 10 \in 1 .. 10
    BY DEF BundleParts
  <2>2. QED BY <2>1, PartsOrder DEF Written
<1> HIDE DEF d
<1>4. DOMAIN d.files = Written(10)
  BY <1>1, <1>2, <1>3
<1>5. QED BY <1>2, <1>3, <1>4 DEF OfInventory, d

\* Two units that can be started together.
Separate(a, b) ==
    /\ a.host = b.host => Listeners(a) \cap Listeners(b) = {} /\ a.socket # b.socket
    /\ \A m \in DOMAIN a.secrets, n \in DOMAIN b.secrets :
          a.secrets[m] = b.secrets[n] => <<m, n>> = <<"agent_peer_token", "agent_peer_token">>

\* Two bundles that verify and are of one inventory were compared with each other
\* when it was validated.
LEMMA DisjointBundles == DeliveryInv => BundlesDisjoint
<1>1. ASSUME DeliveryInv PROVE BundlesDisjoint
  <2> SUFFICES ASSUME NEW u \in Units, NEW v \in Units, u # v, VerifyBundle(u), VerifyBundle(v),
                      dir[v].files["env"].inv = dir[u].files["env"].inv
               PROVE  Separate(UnitOf(dir[u].files["env"].inv, u), UnitOf(dir[u].files["env"].inv, v))
    BY DEF BundlesDisjoint, Separate
  <2> DEFINE s == dir[u].files["env"].inv
             units == Sites[s].units
             At(x) == CHOOSE i \in DOMAIN units : units[i].id = x
             i == At(u)
             j == At(v)
  <2>1. Renders(s, u) /\ Renders(s, v)
    BY <1>1, VerifiedBundle
  <2>2. UnitOf(s, u) = units[i] /\ UnitOf(s, v) = units[j]
    BY DEF UnitOf
  <2>3. /\ HostsFree(units) /\ SecretsApart(units)
        /\ \E x \in DOMAIN units : units[x].id = u
        /\ \E x \in DOMAIN units : units[x].id = v
    BY <2>1 DEF Renders
  <2> HIDE DEF units
  <2>4. /\ i \in DOMAIN units /\ units[i].id = u
        /\ j \in DOMAIN units /\ units[j].id = v
    <3>1. At(u) \in DOMAIN units /\ units[At(u)].id = u
      BY <2>3, Zenon
    <3>2. At(v) \in DOMAIN units /\ units[At(v)].id = v
      BY <2>3, Zenon
    <3>3. QED BY <3>1, <3>2
  <2> HIDE DEF i, j, At
  <2>5. i # j
    BY <2>4
  <2>6. units[i].host = units[j].host =>
          Listeners(units[i]) \cap Listeners(units[j]) = {} /\ units[i].socket # units[j].socket
    BY <2>3, <2>4, <2>5 DEF HostsFree
  <2>7. ASSUME NEW m \in DOMAIN units[i].secrets, NEW n \in DOMAIN units[j].secrets,
               units[i].secrets[m] = units[j].secrets[n]
        PROVE  <<m, n>> = <<"agent_peer_token", "agent_peer_token">>
    BY <2>3, <2>4, <2>5, <2>7 DEF SecretsApart
  <2>8. QED BY <2>2, <2>6, <2>7 DEF Separate
<1>2. QED BY <1>1

\* What a release that verifies says is what the render it is of was given.
LEMMA JustifiedRelease == DeliveryInv => ReadyJustified
<1>1. ASSUME DeliveryInv, VerifyRelease PROVE ReadyJustified
  <2>1. PICK n, t : TraceOf(n, t) /\ OfRelease(dir[Release].files, n, t)
    BY <1>1 DEF DeliveryInv, ReleaseInv
  <2>2. "manifest" \in DOMAIN dir[Release].files /\ Packages \subseteq DOMAIN dir[Release].files
    BY <1>1 DEF VerifyRelease
  <2>3. QED BY <2>1, <2>2 DEF ReadyJustified, OfRelease, TraceOf
<1>2. QED BY <1>1 DEF ReadyJustified

\* The three properties follow from the invariant.
LEMMA DeliveryProperties == DeliveryInv => VerifiedWhole /\ BundlesDisjoint /\ ReadyJustified
<1>1. DeliveryInv => VerifiedWhole
  BY VerifiedBundle DEF VerifiedWhole, Renders
<1>2. QED BY <1>1, DisjointBundles, JustifiedRelease

\* A bundle that verify_bundle accepts is whole, whatever renders were stopped
\* before it.
THEOREM VerifiedAlwaysWhole == Spec => []VerifiedWhole
BY DeliveryProperties, DeliveryInvariant, PTL

\* Two bundles of one inventory that verify_bundle accepts never get in each
\* other's way.
THEOREM BundlesAlwaysDisjoint == Spec => []BundlesDisjoint
BY DeliveryProperties, DeliveryInvariant, PTL

\* A release that verify_release accepts says that it is ready only with a Trace
\* acceptance of its own commit that passed.
THEOREM ReadyAlwaysJustified == Spec => []ReadyJustified
BY DeliveryProperties, DeliveryInvariant, PTL

-----------------------------------------------------------------------------
(* The site delivery: the inductive invariant, part by part.               *)

\* What validate_inputs found out about a manifest m with the inputs i, of what
\* never changes.
Validated(m, i) ==
    /\ m.commit = Norns[m.release.inv].commit
    /\ \A k \in ImageKeys : ValidArchive(Archives[Inputs[i].archives[k]], Wanted(m, k))
    /\ \A id \in DOMAIN m.requirements : Passed(m.requirements[id]) =>
          m.requirements[id].evidence # <<>> /\ m.requirements[id].evidence[1].commit = m.commit

\* A package was made of a kit with the right structure, and its lock is of the
\* archives as they were validated.
PackageMade(p, i) ==
    /\ p.lock = Restrict(Inputs[i].archives, RoleImages(p.role))
    /\ p.kit \in Commit /\ RoleStructure(p.kit, p.role)

PackagesMade(s, i) == s \in Seq(Range(s)) /\ \A n \in DOMAIN s : PackageMade(s[n], i)

\* Files the builder assembled of a validated manifest.
Core == {"evidence", "packages", "handoff", "acceptance"}
Made(f, i) ==
    LET e == f["evidence"]  m == Manifests[e.man] IN
    /\ Validated(m, i)
    /\ PackagesMade(f["packages"], i)
    /\ f["handoff"].release = m.release
    /\ \A id \in DOMAIN e.checks : Passed(e.checks[id]) =>
          id \in DOMAIN m.requirements /\ e.checks[id] = CheckOf(m.requirements[id])

BuildFields == {"step", "man", "checked", "key", "kit", "packages", "made"}

\* The builder at work.
BuilderInv ==
    /\ build = [f \in BuildFields |-> build[f]]
    /\ build.made = [f \in {"files", "sums"} |-> build.made[f]]
    /\ head \in Commit
    /\ build.step # "idle" =>
          Validated(Manifests[build.man], build.checked) /\ PackagesMade(build.packages, build.checked)
    /\ build.step = "seal" =>
          /\ Core \subseteq DOMAIN build.made.files /\ Made(build.made.files, build.checked)
          /\ DOMAIN build.made.files \cap Unlisted = {}
    /\ build.step = "replace" => Made(build.made.sums, build.checked)

\* A list of checksums in the place of the delivery is of files the builder made.
PlacedInv == "sums" \in DOMAIN delivery.files => \E i : Made(delivery.sums, i)

SiteInv == BuilderInv /\ PlacedInv

-----------------------------------------------------------------------------
(* The builder.                                                            *)

\* What was made is what the evidence, the packages and the handoff say.
LEMMA MadeSame ==
  ASSUME NEW f, NEW g, NEW i, Made(f, i),
         g["evidence"] = f["evidence"], g["packages"] = f["packages"], g["handoff"] = f["handoff"]
  PROVE  Made(g, i)
BY DEF Made

\* No delivery and no builder; a release may have been rendered.
LEMMA SiteInvInit == SiteInit => SiteInv
<1> SUFFICES ASSUME SiteInit PROVE SiteInv
  OBVIOUS
<1>1. head \in Commit /\ delivery = EmptyDir /\ build = NoBuild
  BY DEF SiteInit, Init
<1>2. build.step = "idle" /\ build = [f \in BuildFields |-> build[f]]
  BY <1>1 DEF NoBuild, BuildFields
<1>3. build.made = [f \in {"files", "sums"} |-> build.made[f]]
  BY <1>1 DEF NoBuild, EmptyDir
<1>4. "sums" \notin DOMAIN delivery.files
  BY <1>1 DEF EmptyDir
<1>5. QED BY <1>1, <1>2, <1>3, <1>4 DEF SiteInv, BuilderInv, PlacedInv

\* Steps that leave the builder and the delivery alone.
LEMMA SiteFrame ==
  ASSUME SiteInv, UNCHANGED <<build, delivery>>, head' \in Commit
  PROVE  SiteInv'
BY DEF SiteInv, BuilderInv, PlacedInv

\* The builder ends or is stopped.
LEMMA GivenUpStep ==
  ASSUME SiteInv, GivenUp, UNCHANGED head, PlacedInv'
  PROVE  SiteInv'
<1>1. build'.step = "idle" /\ build' = [f \in BuildFields |-> build'[f]]
  BY DEF GivenUp, NoBuild, BuildFields
<1>2. build'.made = [f \in {"files", "sums"} |-> build'.made[f]]
  BY DEF GivenUp, NoBuild, EmptyDir
<1>3. QED BY <1>1, <1>2 DEF SiteInv, BuilderInv

\* The steps of the renderers and of the repository keep HEAD a commit.
LEMMA NextHead ==
  ASSUME head \in Commit, Next
  PROVE  head' \in Commit
<1>1. CASE Command
  <2>1. ASSUME NEW s \in DOMAIN Sites, NEW force \in BOOLEAN, RenderSite(s, force) PROVE head' = head
    BY <2>1 DEF RenderSite
  <2>2. ASSUME NEW n \in DOMAIN Norns, NEW force \in BOOLEAN, NEW t \in DOMAIN Traces \cup {NoTrace},
               NEW images \in {"none", "all", "missing"}, RenderRelease(n, force, t, images)
        PROVE  head' = head
    BY <2>2 DEF RenderRelease
  <2>3. QED BY <1>1, <2>1, <2>2 DEF Command
<1>2. CASE Enter \/ Remove \/ Write \/ Rendered \/ Killed
  BY <1>2 DEF Enter, Remove, Write, Rendered, Killed
<1>3. ASSUME NEW a \in DOMAIN Artifacts, EditArtifacts(a) PROVE head' = head
  BY <1>3 DEF EditArtifacts
<1>4. ASSUME NEW c \in Commit, Checkout(c) PROVE head' \in Commit
  BY <1>4 DEF Checkout
<1>5. QED BY <1>1, <1>2, <1>3, <1>4 DEF Next

\* validate_inputs establishes what the packages are measured against.
LEMMA BuildDeliveryStep ==
  ASSUME SiteInv, NEW m \in DOMAIN Manifests, NEW force \in BOOLEAN, NEW key \in Key \cup {NoKey},
         BuildDelivery(m, force, key)
  PROVE  SiteInv'
<1>1. InputsValid(Manifests[m]) /\ UNCHANGED <<head, delivery>>
  BY DEF BuildDelivery
<1>2. Validated(Manifests[m], input)
  <2>1. Manifests[m].commit = Norns[Manifests[m].release.inv].commit
    BY <1>1 DEF InputsValid, ReleaseBound
  <2>2. \A k \in ImageKeys : ValidArchive(Archives[Inputs[input].archives[k]], Wanted(Manifests[m], k))
    BY <1>1 DEF InputsValid, ImagesBound
  <2>3. ASSUME NEW id \in DOMAIN Manifests[m].requirements, Passed(Manifests[m].requirements[id])
        PROVE  /\ Manifests[m].requirements[id].evidence # <<>>
               /\ Manifests[m].requirements[id].evidence[1].commit = Manifests[m].commit
    <3> DEFINE r == Manifests[m].requirements[id]
    <3>1. RequirementValid(Manifests[m], r)
      BY <1>1 DEF InputsValid
    <3>2. Len(r.evidence) = 1 /\ (r.evidence # <<>> => EvidenceBound(Manifests[m], r.evidence[1]))
      BY <2>3, <3>1 DEF RequirementValid
    <3> HIDE DEF r
    <3>3. r.evidence # <<>>
      <4> DEFINE none == <<>>
      <4>1. Len(none) = 0
        OBVIOUS
      <4> HIDE DEF none
      <4>2. Len(r.evidence) = 1 /\ 1 # 0
        BY <3>2
      <4>3. r.evidence # none
        BY <4>1, <4>2, Zenon
      <4>4. QED BY <4>3 DEF none
    <3>4. QED BY <3>2, <3>3 DEF EvidenceBound, r
  <2>4. QED BY <2>1, <2>2, <2>3 DEF Validated
<1>3. build' = [NoBuild EXCEPT !.step = "hosts", !.man = m, !.checked = input, !.key = key, !.kit = head]
  BY DEF BuildDelivery
<1>4. /\ build' = [f \in BuildFields |-> build'[f]]
      /\ build'.step = "hosts" /\ build'.man = m /\ build'.checked = input
      /\ build'.packages = <<>> /\ build'.made = EmptyDir
  BY <1>3 DEF NoBuild, BuildFields
<1>5. PackagesMade(<<>>, input)
  BY DEF PackagesMade, Range
<1>6. EmptyDir = [f \in {"files", "sums"} |-> EmptyDir[f]]
  BY DEF EmptyDir
<1>7. QED
  BY <1>1, <1>2, <1>4, <1>5, <1>6 DEF SiteInv, BuilderInv, PlacedInv

\* One more package: the kit has the structure of the role, and the lock is of the
\* archives that were validated, whatever was copied.
LEMMA PackageHostStep ==
  ASSUME SiteInv, PackageHost
  PROVE  SiteInv'
<1> DEFINE host == Manifests[build.man].hosts[Len(build.packages) + 1]
           p == HostPackage(host)
           q == Append(build.packages, p)
<1>1. /\ build.step = "hosts" /\ UNCHANGED <<head, delivery>> /\ head \in Commit
      /\ build = [f \in BuildFields |-> build[f]]
      /\ Validated(Manifests[build.man], build.checked) /\ PackagesMade(build.packages, build.checked)
      /\ build.made = [f \in {"files", "sums"} |-> build.made[f]]
  BY DEF PackageHost, Building, SiteInv, BuilderInv
<1>2. PlacedInv'
  BY <1>1 DEF SiteInv, PlacedInv
<1>3. CASE GivenUp
  BY <1>1, <1>2, <1>3, GivenUpStep
<1>4. CASE /\ RoleStructure(head, host.role)
           /\ build' = [build EXCEPT !.packages = q,
                                     !.step = IF Len(build.packages) = 5 THEN "assemble" ELSE @]
  <2> HIDE DEF host
  <2>1. PackageMade(p, build.checked)
    <3>1. /\ p.role = host.role /\ p.kit = head
          /\ p.lock = Restrict(Inputs[build.checked].archives, RoleImages(host.role))
      BY DEF HostPackage
    <3> HIDE DEF p
    <3>2. QED BY <1>1, <1>4, <3>1 DEF PackageMade
  <2> HIDE DEF p
  <2>2. PackagesMade(q, build.checked)
    <3> DEFINE s == build.packages
               S == Range(s) \cup {p}
    <3>1. s \in Seq(S) /\ p \in S
      BY <1>1 DEF PackagesMade
    <3> HIDE DEF S, s
    <3>2. /\ q \in Seq(S) /\ Len(q) = Len(s) + 1 /\ DOMAIN q = 1 .. Len(q)
          /\ \A n \in 1 .. Len(s) : q[n] = s[n]
          /\ q[Len(s) + 1] = p /\ Len(s) \in Nat /\ DOMAIN s = 1 .. Len(s)
      BY <3>1, AppendProperties DEF s
    <3> HIDE DEF q
    <3>3. \A n \in DOMAIN q : (n \in DOMAIN s /\ q[n] = s[n]) \/ q[n] = p
      BY <3>2
    <3>4. \A n \in DOMAIN q : PackageMade(q[n], build.checked)
      BY <1>1, <2>1, <3>3 DEF PackagesMade, s
    <3>5. q \in Seq(Range(q))
      BY <3>2 DEF Range
    <3>6. QED BY <3>4, <3>5 DEF PackagesMade
  <2> HIDE DEF q
  <2>3. /\ build' = [f \in BuildFields |-> build'[f]]
        /\ build'.step \in {"hosts", "assemble"} /\ build'.man = build.man
        /\ build'.checked = build.checked /\ build'.packages = q /\ build'.made = build.made
    BY <1>1, <1>4 DEF BuildFields
  <2>4. BuilderInv'
    BY <1>1, <2>2, <2>3 DEF BuilderInv
  <2>5. QED BY <1>2, <2>4 DEF SiteInv
<1>5. QED BY <1>3, <1>4 DEF PackageHost, Manifest

\* The evidence says of a requirement what the manifest says, and of the
\* builder's own blockers that they block.
LEMMA AssembleStep ==
  ASSUME SiteInv, NEW pdf \in Manuals, Assemble(pdf)
  PROVE  SiteInv'
<1> DEFINE m == Manifests[build.man]
           evidence == Evidence(build, m, pdf, build.packages)
           parts == {"marker", "packages", "handoff", "acceptance", "evidence"}
                      \cup (IF pdf = "broken" THEN {} ELSE {"manuals"})
                      \cup (IF build.key = NoKey THEN {} ELSE {"key"})
           content(p) == CASE p = "marker" -> TRUE
                           [] p = "packages" -> build.packages
                           [] p = "handoff" -> Handoff(m)
                           [] p = "acceptance" -> [files |-> CopiedEvidence(m), copy |-> evidence]
                           [] p = "manuals" -> pdf = "ready"
                           [] p = "key" -> build.key
                           [] OTHER -> evidence
           f == [p \in parts |-> content(p)]
<1>1. /\ build.step = "assemble" /\ UNCHANGED <<head, delivery>> /\ head \in Commit
      /\ build = [x \in BuildFields |-> build[x]]
      /\ Validated(m, build.checked) /\ PackagesMade(build.packages, build.checked)
      /\ build.made = [x \in {"files", "sums"} |-> build.made[x]]
  BY DEF Assemble, Building, SiteInv, BuilderInv
<1>2. build' = [build EXCEPT !.step = "seal", !.made.files = f]
  BY DEF Assemble, Manifest
<1>3. /\ f["packages"] = build.packages /\ f["handoff"] = Handoff(m) /\ f["evidence"] = evidence
      /\ DOMAIN f = parts
  OBVIOUS
<1>4. Core \subseteq parts /\ parts \cap Unlisted = {}
  BY DEF Core, Unlisted
<1>5. evidence.man = build.man /\ Handoff(m).release = m.release
  BY DEF Evidence, Handoff
<1>6. ASSUME NEW id \in DOMAIN evidence.checks, Passed(evidence.checks[id])
      PROVE  id \in DOMAIN m.requirements /\ evidence.checks[id] = CheckOf(m.requirements[id])
  <2> DEFINE blockers == BlockersOf(build.key, pdf)
             checks == [x \in DOMAIN m.requirements \cup blockers |->
                          IF x \in blockers THEN [status |-> "blocked", blockedBy |-> {}, evidence |-> <<>>]
                          ELSE CheckOf(m.requirements[x])]
  <2>1. evidence.checks = checks
    BY DEF Evidence
  <2>2. id \in DOMAIN m.requirements \cup blockers /\ Passed(checks[id])
    BY <1>6, <2>1
  <2> HIDE DEF blockers
  <2>3. id \notin blockers
    BY <2>2 DEF Passed
  <2>4. QED BY <2>1, <2>2, <2>3
<1> HIDE DEF f, content, parts, evidence, m
<1>7. Made(f, build.checked)
  BY <1>1, <1>3, <1>5, <1>6 DEF Made, m
<1>8. /\ build' = [x \in BuildFields |-> build'[x]]
      /\ build'.step = "seal" /\ build'.man = build.man
      /\ build'.checked = build.checked /\ build'.packages = build.packages
      /\ build'.made = [build.made EXCEPT !.files = f]
  BY <1>1, <1>2 DEF BuildFields
<1>9. build'.made.files = f /\ build'.made = [x \in {"files", "sums"} |-> build'.made[x]]
  BY <1>1, <1>8
<1>10. BuilderInv'
  BY <1>1, <1>3, <1>4, <1>7, <1>8, <1>9 DEF BuilderInv, m
<1>11. PlacedInv'
  BY <1>1 DEF SiteInv, PlacedInv
<1>12. QED BY <1>10, <1>11 DEF SiteInv

\* The list of checksums is of the files as they were assembled.
LEMMA SealStep ==
  ASSUME SiteInv, Seal
  PROVE  SiteInv'
<1>1. /\ build.step = "seal" /\ UNCHANGED <<head, delivery>> /\ head \in Commit
      /\ build = [x \in BuildFields |-> build[x]]
      /\ Validated(Manifests[build.man], build.checked) /\ PackagesMade(build.packages, build.checked)
      /\ Core \subseteq DOMAIN build.made.files /\ Made(build.made.files, build.checked)
  BY DEF Seal, Building, SiteInv, BuilderInv
<1>2. PlacedInv'
  BY <1>1 DEF SiteInv, PlacedInv
<1>3. CASE GivenUp
  BY <1>1, <1>2, <1>3, GivenUpStep
<1>4. CASE build' = [build EXCEPT !.step = "replace", !.made = Sealed(build.made, build.key)]
  <2> DEFINE made == Sealed(build.made, build.key)
  <2>1. made.sums = Restrict(build.made.files, DOMAIN build.made.files)
    BY DEF Sealed, Checksums
  <2>2. made = [x \in {"files", "sums"} |-> made[x]]
    BY DEF Sealed
  <2> HIDE DEF made
  <2>3. \A x \in Core : made.sums[x] = build.made.files[x]
    BY <1>1, <2>1 DEF Restrict
  <2>4. Made(made.sums, build.checked)
    BY <1>1, <2>3, MadeSame DEF Core
  <2>5. /\ build' = [x \in BuildFields |-> build'[x]]
        /\ build'.step = "replace" /\ build'.man = build.man
        /\ build'.checked = build.checked /\ build'.packages = build.packages
        /\ build'.made = made
    BY <1>1, <1>4 DEF BuildFields, made
  <2>6. BuilderInv'
    BY <1>1, <2>2, <2>4, <2>5 DEF BuilderInv
  <2>7. QED BY <1>2, <2>6 DEF SiteInv
<1>5. QED BY <1>3, <1>4 DEF Seal

\* What is removed takes its list of checksums with it, or leaves it as it is.
LEMMA ReplaceStep ==
  ASSUME SiteInv, Replace
  PROVE  SiteInv'
<1>1. build.step = "replace" /\ UNCHANGED head /\ Made(build.made.sums, build.checked)
  BY DEF Replace, Building, SiteInv, BuilderInv
<1>2. CASE delivery' = build.made /\ GivenUp
  <2>1. PlacedInv'
    BY <1>1, <1>2 DEF PlacedInv
  <2>2. QED BY <1>1, <1>2, <2>1, GivenUpStep
<1>3. ASSUME NEW p \in DOMAIN delivery.files, UNCHANGED build,
             delivery' = [files |-> Restrict(delivery.files, DOMAIN delivery.files \ {p}),
                          sums |-> IF "sums" \in DOMAIN delivery.files \ {p} THEN delivery.sums ELSE <<>>]
      PROVE  SiteInv'
  <2>1. /\ DOMAIN delivery'.files \subseteq DOMAIN delivery.files
        /\ "sums" \in DOMAIN delivery'.files => delivery'.sums = delivery.sums
    BY <1>3 DEF Restrict
  <2>2. PlacedInv'
    BY <2>1 DEF SiteInv, PlacedInv
  <2>3. BuilderInv'
    BY <1>1, <1>3 DEF SiteInv, BuilderInv
  <2>4. QED BY <2>2, <2>3 DEF SiteInv
<1>4. QED BY <1>2, <1>3 DEF Replace

\* Every step of the builder, the renderers and the operator.
LEMMA SiteInvStep == SiteInv /\ [SiteNext]_<<vars, siteVars>> => SiteInv'
<1> SUFFICES ASSUME SiteInv, [SiteNext]_<<vars, siteVars>> PROVE SiteInv'
  OBVIOUS
<1>1. head \in Commit
  BY DEF SiteInv, BuilderInv
<1>2. CASE Next /\ UNCHANGED siteVars
  BY <1>1, <1>2, NextHead, SiteFrame DEF siteVars
<1>3. ASSUME NEW c \in Commit, Checkout(c), UNCHANGED siteVars PROVE SiteInv'
  BY <1>3, SiteFrame DEF Checkout, siteVars
<1>4. ASSUME NEW m \in DOMAIN Manifests, NEW force \in BOOLEAN, NEW key \in Key \cup {NoKey},
             BuildDelivery(m, force, key)
      PROVE  SiteInv'
  BY <1>4, BuildDeliveryStep
<1>5. CASE PackageHost \/ Seal \/ Replace
  BY <1>5, PackageHostStep, SealStep, ReplaceStep
<1>6. ASSUME NEW pdf \in Manuals, Assemble(pdf) PROVE SiteInv'
  BY <1>6, AssembleStep
<1>7. CASE KillBuild
  <2>1. PlacedInv'
    BY <1>7 DEF KillBuild, SiteInv, PlacedInv
  <2>2. QED BY <1>7, <2>1, GivenUpStep DEF KillBuild
<1>8. ASSUME NEW i \in DOMAIN Inputs, EditInputs(i) PROVE SiteInv'
  BY <1>1, <1>8, SiteFrame DEF EditInputs
<1>9. CASE UNCHANGED <<vars, siteVars>>
  BY <1>1, <1>9, SiteFrame DEF vars, siteVars
<1>10. QED
  BY <1>2, <1>3, <1>4, <1>5, <1>6, <1>7, <1>8, <1>9 DEF SiteNext

\* Whatever is found in the place of the delivery with a list of checksums was
\* made of inputs that were validated.
THEOREM SiteInvariant == SiteSpec => []SiteInv
BY SiteInvInit, SiteInvStep, PTL DEF SiteSpec

\* A delivery that verifies, if only by its structure, holds what was validated.
THEOREM AlwaysDeliveredAsValidated == SiteSpec => []DeliveredAsValidated
<1>1. ASSUME SiteInv, VerifyDelivery(delivery, NoKey, TRUE, TRUE) PROVE DeliveredAsValidated
  <2> DEFINE f == delivery.files
             e == f["evidence"]
             m == Manifests[e.man]
             s == f["packages"]
  <2>1. /\ Required \subseteq DOMAIN f
        /\ DOMAIN delivery.sums = DOMAIN f \ Unlisted
        /\ \A p \in DOMAIN delivery.sums : f[p] = delivery.sums[p]
        /\ ChecksValid(delivery) /\ PackagesValid(delivery)
    BY <1>1 DEF VerifyDelivery, TreeComplete, ChecksumsMatch
  <2>2. PICK i : Made(delivery.sums, i)
    BY <1>1, <2>1 DEF SiteInv, PlacedInv, Required
  <2>3. Made(f, i)
    <3>1. /\ f["evidence"] = delivery.sums["evidence"] /\ f["packages"] = delivery.sums["packages"]
          /\ f["handoff"] = delivery.sums["handoff"]
      BY <2>1 DEF Required, Unlisted
    <3>2. QED BY <2>2, <3>1, MadeSame
  <2>4. /\ Validated(m, i) /\ PackagesMade(s, i) /\ f["handoff"].release = m.release
        /\ \A id \in DOMAIN e.checks : Passed(e.checks[id]) =>
              id \in DOMAIN m.requirements /\ e.checks[id] = CheckOf(m.requirements[id])
    BY <2>3 DEF Made
  <2>5. Len(s) = 6 /\ \A n \in 1 .. 6 : PackageValid(s[n])
    BY <2>1 DEF PackagesValid
  <2>6. \A id \in DOMAIN e.checks : e.checks[id].evidence # <<>> =>
           f["acceptance"].files[e.checks[id].evidence[1].sha] = e.checks[id].evidence[1].sha
    <3>1. \A id \in DOMAIN e.checks : e.checks[id].evidence # <<>> =>
            /\ e.checks[id].evidence[1].bundled
            /\ e.checks[id].evidence[1].sha \in DOMAIN f["acceptance"].files
            /\ f["acceptance"].files[e.checks[id].evidence[1].sha] = e.checks[id].evidence[1].sha
      BY <2>1, Zenon DEF ChecksValid
    <3> HIDE DEF e, f
    <3>2. QED BY <3>1
  <2> HIDE DEF m, s, e, f
  <2>7. DOMAIN s = 1 .. 6
    BY <2>4, <2>5 DEF PackagesMade
  <2>8. ASSUME NEW p \in Range(s)
        PROVE  /\ p.images = Restrict(Inputs[i].archives, RoleImages(p.role))
               /\ p.role \in Kits[p.kit] <=> p.role = "r1"
    <3>1. PICK n \in DOMAIN s : p = s[n]
      BY <2>8 DEF Range
    <3>2. PackageMade(p, i) /\ PackageValid(p)
      BY <2>4, <2>5, <2>7, <3>1 DEF PackagesMade
    <3>3. /\ p.images = p.lock /\ p.lock = Restrict(Inputs[i].archives, RoleImages(p.role))
          /\ Kits[p.kit] \subseteq {"r1", "r2", "r3"} /\ RoleStructure(p.kit, p.role)
      BY <3>2, BundleParameters DEF PackageMade, PackageValid
    <3>4. QED BY <3>3 DEF RoleStructure
  <2>9. ASSUME NEW k \in ImageKeys, NEW p \in Range(s), k \in DOMAIN p.images
        PROVE  ValidArchive(Archives[p.images[k]], Wanted(m, k))
    <3>1. p.images[k] = Inputs[i].archives[k]
      BY <2>8, <2>9 DEF Restrict
    <3>2. QED BY <2>4, <3>1 DEF Validated
  <2>10. ASSUME NEW id \in DOMAIN e.checks, Passed(e.checks[id])
         PROVE  LET r == m.requirements[id].evidence[1] IN
                r.commit = m.commit /\ f["acceptance"].files[r.sha] = r.sha
    <3> DEFINE q == m.requirements[id]
    <3>1. e.checks[id] = CheckOf(q) /\ id \in DOMAIN m.requirements
      BY <2>4, <2>10
    <3>2. Passed(q)
      BY <2>10, <3>1 DEF Passed, CheckOf
    <3>3. q.evidence # <<>> /\ q.evidence[1].commit = m.commit
      BY <2>4, <3>1, <3>2 DEF Validated
    <3>4. e.checks[id].evidence = <<[sha |-> q.evidence[1].sha, bundled |-> Passed(q)]>>
      BY <3>1, <3>3 DEF CheckOf
    <3> HIDE DEF q
    <3>5. e.checks[id].evidence # <<>> /\ e.checks[id].evidence[1].sha = q.evidence[1].sha
      BY <3>4
    <3>6. f["acceptance"].files[e.checks[id].evidence[1].sha] = e.checks[id].evidence[1].sha
      BY <2>6, <3>5
    <3>7. QED BY <3>3, <3>5, <3>6 DEF q
  <2>11. m.commit = Norns[f["handoff"].release.inv].commit
    BY <2>4 DEF Validated
  <2>12. QED BY <2>8, <2>9, <2>10, <2>11 DEF DeliveredAsValidated, m, s, e, f
<1>2. SiteInv => DeliveredAsValidated
  BY <1>1 DEF DeliveredAsValidated
<1>3. QED BY <1>2, SiteInvariant, PTL

-----------------------------------------------------------------------------
(* The renderers beside the builder.                                       *)

\* The renderers' invariant holds initially, also when a release is there that
\* was rendered completely.
LEMMA SiteDeliveryInit == SiteInit => DeliveryInv
<1> SUFFICES ASSUME SiteInit, ~Init PROVE DeliveryInv
  BY DeliveryInit
<1>1. PICK m \in DOMAIN Manifests :
        dir = [p \in Places |-> IF p = Release THEN RenderedRelease(Manifests[m].release.inv, NoTrace)
                                ELSE EmptyDir]
  BY DEF SiteInit
<1>2. job = Idle
  BY DEF SiteInit
<1> DEFINE n == Manifests[m].release.inv
           d == RenderedRelease(n, NoTrace)
<1>3. /\ DOMAIN dir = Places /\ dir[Release] = d
      /\ \A u \in Units : dir[u] = EmptyDir
  BY <1>1, SitesAssumption DEF Places
<1>4. Norns[n].commit \notin Tainted
  BY BundleParameters
<1>5. /\ "dirs" \in DOMAIN d.files
      /\ \A p \in DOMAIN d.files :
            /\ d.files[p].inv = n /\ d.files[p].trace = NoTrace
            /\ p \in Packages => d.files[p].from = Norns[n].commit
  <2> DEFINE j == [Idle EXCEPT !.place = Release, !.inv = n, !.trace = NoTrace]
             from(p) == IF p \in Packages THEN Norns[n].commit ELSE "none"
             said(p) == IF p \in Packages \cup {"manifest"} THEN NoTrace ELSE NoTrace
             names == Range(ReleaseParts) \ {"images"}
             files == [p \in names |-> File(j, from(p), said(p))]
  <2>1. d.files = files
    BY DEF RenderedRelease
  <2>2. "dirs" \in names
    BY PartsOrder DEF Range, ReleaseParts
  <2>3. j.inv = n
    BY DEF Idle
  <2> HIDE DEF j, names
  <2>4. QED BY <2>1, <2>2, <2>3 DEF File
<1> HIDE DEF d, n
<1>6. TraceOf(n, NoTrace) /\ OfRelease(d.files, n, NoTrace)
  BY <1>4, <1>5 DEF TraceOf, OfRelease
<1>7. job.step = "idle" /\ job.pos = 0 /\ job = [x \in JobFields |-> job[x]]
  BY <1>2 DEF Idle, JobFields
<1>8. DOMAIN EmptyDir.files = {}
  BY DEF EmptyDir
<1>9. QED
  BY <1>3, <1>5, <1>6, <1>7, <1>8
     DEF DeliveryInv, BundleInv, ReleaseInv, JobInv, SiteJobInv, ReleaseJobInv

\* The builder and the operator leave what was rendered alone.
LEMMA SiteDeliveryStep == DeliveryInv /\ [SiteNext]_<<vars, siteVars>> => DeliveryInv'
<1> SUFFICES ASSUME DeliveryInv, [SiteNext]_<<vars, siteVars>> PROVE DeliveryInv'
  OBVIOUS
<1>1. CASE Next
  BY <1>1, DeliveryStep
<1>2. ASSUME UNCHANGED <<dir, job>> PROVE DeliveryInv'
  BY <1>2 DEF DeliveryInv, BundleInv, ReleaseInv, JobInv, SiteJobInv, ReleaseJobInv
<1>3. ASSUME NEW c \in Commit, Checkout(c) PROVE DeliveryInv'
  BY <1>2, <1>3 DEF Checkout
<1>4. ASSUME NEW m \in DOMAIN Manifests, NEW force \in BOOLEAN, NEW key \in Key \cup {NoKey},
             BuildDelivery(m, force, key)
      PROVE  DeliveryInv'
  BY <1>2, <1>4 DEF BuildDelivery
<1>5. CASE PackageHost \/ Seal \/ Replace \/ KillBuild
  BY <1>2, <1>5 DEF PackageHost, Seal, Replace, KillBuild
<1>6. ASSUME NEW pdf \in Manuals, Assemble(pdf) PROVE DeliveryInv'
  BY <1>2, <1>6 DEF Assemble
<1>7. ASSUME NEW i \in DOMAIN Inputs, EditInputs(i) PROVE DeliveryInv'
  BY <1>2, <1>7 DEF EditInputs
<1>8. CASE UNCHANGED <<vars, siteVars>>
  BY <1>2, <1>8 DEF vars
<1>9. QED
  BY <1>1, <1>3, <1>4, <1>5, <1>6, <1>7, <1>8 DEF SiteNext

\* What holds of bundles and releases holds also while deliveries are built of
\* the releases.
THEOREM RenderedBesideDelivery ==
  SiteSpec => [](VerifiedWhole /\ BundlesDisjoint /\ ReadyJustified)
<1>1. SiteSpec => []DeliveryInv
  BY SiteDeliveryInit, SiteDeliveryStep, PTL DEF SiteSpec
<1>2. QED
  BY <1>1, DeliveryProperties, PTL

=============================================================================
