----------------------------- MODULE SiteBundle ------------------------------
(***************************************************************************)
(* The site delivery that build_domain_center_site_bundle.py makes of a    *)
(* rendered release: one installable package for each of the six hosts,    *)
(* with the images its role needs, the acceptance evidence of the site,    *)
(* checksums and a signature.  The builder binds the site manifest to the  *)
(* release's manifest, validates the OCI archives and the evidence, builds *)
(* everything in a temporary directory, verifies that directory, and only  *)
(* then puts it in the place of the delivery that was there.               *)
(*                                                                         *)
(* The archives, the evidence files and the product kit are read again     *)
(* when they are copied, long after they were validated, and may have      *)
(* changed.  validate_inputs is one step: a change while an archive is     *)
(* being validated is not modelled.  The tools are run one at a time: they *)
(* share no file but the release's manifest, which the builder reads once, *)
(* at its start.                                                           *)
(***************************************************************************)
EXTENDS FieldDelivery, Integers

CONSTANTS
    Manifests,   \* site manifests by name
    Archives,    \* contents of OCI archives by name
    Inputs,      \* what the archives and evidence files may hold: [archives, evidence]
    Original,    \* what they hold when the manifests are written
    Kits,        \* by commit, the roles whose template runs a Wrapper
    Mandatory,   \* REQUIRED_EXTERNAL_ACCEPTANCE_IDS
    Key,         \* signing keys
    NoKey        \* none is given

\* Only resolvers have the image with the Wrapper.  A release is there to be
\* delivered: its packages passed _scan_package.
ASSUME BundleParameters ==
    /\ DOMAIN Kits = Commit /\ \A c \in Commit : Kits[c] \subseteq {"r1", "r2", "r3"}
    /\ NoKey \notin Key
    /\ \A m \in DOMAIN Manifests : Norns[Manifests[m].release.inv].commit \notin Tainted

VARIABLES
    delivery,  \* the directory of the delivery: its files and the list of checksums
    build,     \* the builder that runs
    input      \* the archives and evidence files as they are now

siteVars == <<delivery, build, input>>

Roles == {"management", "norn-a", "norn-b", "r1", "r2", "r3"}
RoleImages(role) ==
    CASE role = "management" -> {"management", "norn"}
      [] role \in {"norn-a", "norn-b"} -> {"norn", "nginx"}
      [] OTHER -> {"rust", "knot"}

Supplied(s) == Restrict(s, {i \in DOMAIN s : s[i] # 0})

-----------------------------------------------------------------------------
(* OCI archives                                                            *)

SafeRelative(path) == path # <<>> /\ Range(path) \cap {"/", ".", ".."} = {}

\* _validate_layer_link: followed from its directory, or from the root, a link
\* never climbs above the root of the image.  The root of an absolute target
\* counts as a step.
LinkInside(member) ==
    LET t == member.target
        depth[i \in 0 .. Len(t)] ==
            IF i = 0 THEN IF t[1] = "/" THEN 0 ELSE Len(member.path) - 1
            ELSE CASE t[i] = "." -> depth[i - 1]
                   [] t[i] = ".." -> depth[i - 1] - 1
                   [] OTHER -> depth[i - 1] + 1
    IN  t # <<>> /\ \A i \in DOMAIN t : depth[i] >= 0

\* _validate_layer_tar: the members have safe and different names, are files,
\* directories or links, and none has a fault: a sensitive name, a size beyond
\* the bound, or a secret in its text.
LayerValid(layer) ==
    /\ layer.readable
    /\ IsInjective(Field(layer.members, "path"))
    /\ \A i \in DOMAIN layer.members : LET m == layer.members[i] IN
          /\ SafeRelative(m.path)
          /\ m.kind \in {"file", "directory", "link"}
          /\ m.kind = "link" => LinkInside(m)
          /\ m.faults = {}

Referenced(a) == {a.manifests[1].digest, a.config.digest} \cup Range(Field(a.layers, "digest"))

\* validate_oci_archive: one manifest, of the digest, reference, platform and commit
\* that are wanted, whose blobs are all there, match their digests and are all
\* there is; blobs[d] is the digest of what is stored under d.
ValidArchive(a, want) ==
    /\ Len(a.manifests) = 1
    /\ a.manifests[1].digest = want.digest
    /\ a.manifests[1].ref \in want.refs
    /\ want.commit \subseteq {a.manifests[1].commit}
    /\ a.manifests[1].platform = want.platform /\ a.config.platform = want.platform
    /\ ~a.config.secret
    /\ a.layers # <<>> /\ Len(a.config.diffs) = Len(a.layers)
    /\ \A i \in DOMAIN a.layers : LayerValid(a.layers[i]) /\ a.layers[i].diff = a.config.diffs[i]
    /\ DOMAIN a.blobs = Referenced(a) /\ \A d \in DOMAIN a.blobs : a.blobs[d] = d
    /\ a.others = {}

\* _import_reference: the tag under which an image of a digest is imported, with
\* the first 16 digits of the digest, taken to tell the digests apart.
ImportReference(repository, digest) == <<repository, digest>>

\* What the release says of an image, and the site manifest adds to it.
Wanted(m, k) ==
    LET digest == Norns[m.release.inv].images[k] IN
    [digest |-> digest, platform |-> m.platform, commit |-> m.images[k].commit,
     refs |-> {ImportReference(m.images[k].repository, digest)} \cup m.images[k].annotation]

-----------------------------------------------------------------------------
(* validate_inputs                                                         *)

\* The manifest is the one the release has now, of the same commit.
ReleaseBound(m) ==
    /\ "manifest" \in DOMAIN dir[Release].files
    /\ m.release = dir[Release].files["manifest"]
    /\ m.commit = Norns[m.release.inv].commit

ImagesBound(m) ==
    /\ DOMAIN m.images = ImageKeys /\ DOMAIN Norns[m.release.inv].images = ImageKeys
    /\ \A k \in ImageKeys :
          /\ m.images[k].repository # "loopback"
          /\ ValidArchive(Archives[Inputs[input].archives[k]], Wanted(m, k))

\* Six hosts, one of each role; names are different, and so are the machines and
\* addresses that are given.
HostsBound(hosts) ==
    /\ Len(hosts) = 6 /\ Range(Field(hosts, "role")) = Roles
    /\ IsInjective(Field(hosts, "name"))
    /\ IsInjective(Supplied(Field(hosts, "machine")))
    /\ IsInjective(Supplied(Field(hosts, "address")))

\* Evidence is a file with this digest, of the manifest's commit and hosts.
EvidenceBound(m, e) ==
    /\ e.file \in DOMAIN Inputs[input].evidence /\ Inputs[input].evidence[e.file] = e.sha
    /\ e.commit = m.commit
    /\ e.host \in Range(Field(m.hosts, "name")) \cup {"site"}
    /\ e.role \in Roles \cup {"site"}

Status == {"passed", "blocked", "not_run", "failed"}
Passed(check) == check.status = "passed"

\* A requirement that was not met says why; one that was met has evidence, one
\* that failed may have, and no other has.
RequirementValid(m, r) ==
    /\ r.status \in Status /\ r.wording = r.status
    /\ Passed(r) \/ r.reason \/ r.blockedBy # {}
    /\ Passed(r) => Len(r.evidence) = 1
    /\ r.evidence # <<>> => r.status \in {"passed", "failed"} /\ EvidenceBound(m, r.evidence[1])

\* Whatever blocks a requirement is one that is not met, or an approval, and
\* nothing blocks itself: every set of requirements has one that no other of
\* the set blocks.
BlockersSound(reqs) ==
    /\ \A id \in DOMAIN reqs : \A b \in reqs[id].blockedBy \ {"external_approval"} :
          b \in DOMAIN reqs /\ (b \in DOMAIN reqs => ~Passed(reqs[b]))
    /\ \A S \in SUBSET DOMAIN reqs \ {{}} : \E id \in S : reqs[id].blockedBy \cap S = {}

InputsValid(m) ==
    /\ NoSecretFields(m)
    /\ ReleaseBound(m)
    /\ m.platform = "linux"
    /\ ImagesBound(m)
    /\ HostsBound(m.hosts)
    /\ Mandatory \subseteq DOMAIN m.requirements
    /\ \A id \in DOMAIN m.requirements : RequirementValid(m, m.requirements[id])
    /\ BlockersSound(m.requirements)

-----------------------------------------------------------------------------
(* What a delivery consists of                                             *)

\* _validate_role_structure: R1 runs the Wrapper, R2 and R3 do not.
RoleStructure(commit, role) ==
    /\ role = "r1" => role \in Kits[commit]
    /\ role \in {"r2", "r3"} => role \notin Kits[commit]

\* _copy_template and _scan_output: no credentials and no reference to an image
\* that would have to be fetched.
TemplateClean(commit) == commit \notin Tainted

\* A host's package: the template and programs of the kit as it is now, the
\* archives as they are now, and the lock with their checksums as validated.
HostPackage(host) ==
    [host |-> host.name, role |-> host.role, kit |-> head,
     images |-> Restrict(Inputs[input].archives, RoleImages(host.role)),
     lock |-> Restrict(Inputs[build.checked].archives, RoleImages(host.role))]

\* The digests a bill of materials names.
BillOfMaterials(m) == {Norns[m.release.inv].images[k] : k \in ImageKeys}

\* _write_release_handoff: the release this delivery is of, with its images, and
\* beside it the bills of materials.
Handoff(m) ==
    [release |-> m.release, commit |-> m.commit, images |-> {Wanted(m, k).digest : k \in ImageKeys},
     bills |-> BillOfMaterials(m)]

\* _copy_external_evidence: the evidence of what passed is copied under its digest;
\* that of what failed keeps its path outside the delivery.
CopiedEvidence(m) ==
    LET met == {id \in DOMAIN m.requirements : Passed(m.requirements[id])} IN
    [sha \in {m.requirements[id].evidence[1].sha : id \in met} |->
        Inputs[input].evidence[(CHOOSE e \in {m.requirements[id].evidence[1] : id \in met} : e.sha = sha).file]]

CheckOf(r) ==
    [status |-> r.status, blockedBy |-> r.blockedBy,
     evidence |-> IF r.evidence = <<>> THEN <<>>
                  ELSE <<[sha |-> r.evidence[1].sha, bundled |-> Passed(r)]>>]

\* Without a key or without manuals the delivery is blocked.
BlockersOf(key, pdf) ==
    (IF key = NoKey THEN {"bundle_signing"} ELSE {}) \cup (IF pdf = "ready" THEN {} ELSE {"pdf_manual"})

Evidence(b, m, pdf, packages) ==
    LET blockers == BlockersOf(b.key, pdf)
        checks == [id \in DOMAIN m.requirements \cup blockers |->
                      IF id \in blockers THEN [status |-> "blocked", blockedBy |-> {}, evidence |-> <<>>]
                      ELSE CheckOf(m.requirements[id])]
    IN  [man |-> b.man, release |-> m.release, commit |-> m.commit, hosts |-> packages,
         signed |-> b.key # NoKey, pdf |-> pdf = "ready", blockers |-> blockers, checks |-> checks,
         ready |-> blockers = {} /\ \A id \in DOMAIN checks : Passed(checks[id])]

\* _sign_checksums: the signature of a key on a list of checksums.
Signature(key, sums) == [by |-> key, of |-> sums]

-----------------------------------------------------------------------------
(* verify_delivery                                                         *)

Required == {"marker", "packages", "handoff", "manuals", "acceptance", "evidence", "sums"}
Unlisted == {"sums", "signature"}

TreeComplete(d) == Required \subseteq DOMAIN d.files

\* _verify_checksum_file: the files found are the ones listed, and match.
ChecksumsMatch(d) ==
    /\ DOMAIN d.sums = DOMAIN d.files \ Unlisted
    /\ \A p \in DOMAIN d.sums : d.files[p] = d.sums[p]

\* _verify_signature: the key in the delivery proves nothing by itself; only one
\* that was pinned outside is trusted.
Trust(d, pin) ==
    IF {"key", "signature"} \cap DOMAIN d.files = {} THEN IF pin = NoKey THEN "unsigned" ELSE "invalid"
    ELSE IF ~ ({"key", "signature"} \subseteq DOMAIN d.files) THEN "invalid"
    ELSE IF pin \notin {NoKey, d.files["key"]} THEN "invalid"
    ELSE IF d.files["signature"] # Signature(d.files["key"], d.sums) THEN "invalid"
    ELSE IF pin = NoKey THEN "untrusted" ELSE "trusted"

\* The evidence, the handoff and the bills of materials are of one release, and
\* the evidence tells the truth about manuals and signature.
CrossBound(d, signed) ==
    LET e == d.files["evidence"]  h == d.files["handoff"] IN
    /\ e.release = h.release /\ e.commit = h.commit
    /\ h.bills = h.images
    /\ e.pdf = d.files["manuals"]
    /\ e.signed = signed
    /\ d.files["acceptance"].copy = e

\* Every mandatory check is there; what passed has evidence, and any evidence is
\* a file of the delivery with its digest.
ChecksValid(d) ==
    LET checks == d.files["evidence"].checks IN
    /\ Mandatory \subseteq DOMAIN checks
    /\ \A id \in DOMAIN checks : LET c == checks[id] IN
          /\ Passed(c) => c.evidence # <<>>
          /\ c.status \in {"blocked", "not_run"} => c.evidence = <<>>
          /\ c.evidence # <<>> =>
                /\ c.evidence[1].bundled
                /\ c.evidence[1].sha \in DOMAIN d.files["acceptance"].files
                /\ d.files["acceptance"].files[c.evidence[1].sha] = c.evidence[1].sha
          /\ c.blockedBy \subseteq DOMAIN checks \cup {"external_approval"}
    /\ d.files["evidence"].ready <=>
          /\ d.files["evidence"].blockers = {}
          /\ \A id \in DOMAIN checks : Passed(checks[id])

\* Mutant of PackageValid: the archives are not compared with the lock.
PackageUnlocked(p) ==
    /\ DOMAIN p.images = RoleImages(p.role) /\ DOMAIN p.lock = DOMAIN p.images
    /\ p.role \in {"r2", "r3"} => p.role \notin Kits[p.kit]

\* A package has the images of its role, each with the checksum of the lock, and
\* those of R2 and R3 have no Wrapper.
PackageValid(p) ==
    /\ DOMAIN p.images = RoleImages(p.role)
    /\ p.images = p.lock
    /\ p.role \in {"r2", "r3"} => p.role \notin Kits[p.kit]

\* Six packages, the ones the evidence names, one of each role.
PackagesValid(d) ==
    /\ d.files["packages"] = d.files["evidence"].hosts
    /\ Len(d.files["packages"]) = 6 /\ Range(Field(d.files["packages"], "role")) = Roles
    /\ \A i \in 1 .. 6 : PackageValid(d.files["packages"][i])

Blocked(d) ==
    LET e == d.files["evidence"] IN e.blockers # {} \/ \E id \in DOMAIN e.checks : ~Passed(e.checks[id])

VerifyDelivery(d, pin, structural, allowBlocked) ==
    /\ TreeComplete(d)
    /\ ChecksumsMatch(d)
    /\ Trust(d, pin) # "invalid"
    /\ structural \/ Trust(d, pin) = "trusted"
    /\ CrossBound(d, Trust(d, pin) # "unsigned")
    /\ ChecksValid(d)
    /\ PackagesValid(d)
    /\ allowBlocked \/ ~Blocked(d)

-----------------------------------------------------------------------------
(* build_delivery                                                          *)

NoBuild == [step |-> "idle", man |-> "none", checked |-> "none", key |-> NoKey, kit |-> "none",
            packages |-> <<>>, made |-> EmptyDir]
Building(step) == build.step = step
GivenUp == build' = NoBuild
Manifest == Manifests[build.man]

\* The inputs are validated, the kit is listed, and a delivery that is there is
\* only replaced by force and when it is marked.
BuildDelivery(m, force, key) ==
    /\ Working("idle") /\ Building("idle") /\ Started
    /\ InputsValid(Manifests[m])
    /\ delivery # EmptyDir => force /\ "marker" \in DOMAIN delivery.files
    /\ build' = [NoBuild EXCEPT !.step = "hosts", !.man = m, !.checked = input, !.key = key, !.kit = head]
    /\ UNCHANGED <<dir, job, artifact, head, delivery, input>>

\* One host after the other.
PackageHost ==
    /\ Building("hosts")
    /\ LET host == Manifest.hosts[Len(build.packages) + 1] IN
       IF RoleStructure(head, host.role) /\ TemplateClean(head)
       THEN build' = [build EXCEPT !.packages = Append(@, HostPackage(host)),
                                   !.step = IF Len(build.packages) = 5 THEN "assemble" ELSE @]
       ELSE GivenUp
    /\ UNCHANGED <<dir, job, artifact, head, spent, delivery, input>>

\* _render_pdfs: no builder, manuals, or a builder that fails, after which the
\* directory of the manuals is gone.
Manuals == {"blocked", "ready", "broken"}

Assemble(pdf) ==
    /\ Building("assemble")
    /\ LET evidence == Evidence(build, Manifest, pdf, build.packages)
           parts == {"marker", "packages", "handoff", "acceptance", "evidence"}
                      \cup (IF pdf = "broken" THEN {} ELSE {"manuals"})
                      \cup (IF build.key = NoKey THEN {} ELSE {"key"})
           content(p) == CASE p = "marker" -> TRUE
                           [] p = "packages" -> build.packages
                           [] p = "handoff" -> Handoff(Manifest)
                           [] p = "acceptance" -> [files |-> CopiedEvidence(Manifest), copy |-> evidence]
                           [] p = "manuals" -> pdf = "ready"
                           [] p = "key" -> build.key
                           [] OTHER -> evidence
       IN  build' = [build EXCEPT !.step = "seal", !.made.files = [p \in parts |-> content(p)]]
    /\ UNCHANGED <<dir, job, artifact, head, spent, delivery, input>>

\* The checksums of everything, and the signature on them.
Sealed(d, key) ==
    LET sums == Checksums(d.files, DOMAIN d.files)
        parts == {"sums"} \cup (IF key = NoKey THEN {} ELSE {"signature"})
    IN  [files |-> [p \in DOMAIN d.files \cup parts |->
                      CASE p = "sums" -> TRUE
                        [] p = "signature" -> Signature(key, sums)
                        [] OTHER -> d.files[p]],
         sums |-> sums]

\* The kit must be what it was at the start, and the result must verify.
Seal ==
    /\ Building("seal")
    /\ LET made == Sealed(build.made, build.key) IN
       IF head = build.kit /\ VerifyDelivery(made, NoKey, TRUE, TRUE)
       THEN build' = [build EXCEPT !.step = "replace", !.made = made]
       ELSE GivenUp
    /\ UNCHANGED <<dir, job, artifact, head, spent, delivery, input>>

\* shutil.rmtree of what is there, entry by entry, and then the new delivery in its
\* place at once.
Replace ==
    /\ Building("replace")
    /\ IF delivery = EmptyDir
       THEN delivery' = build.made /\ GivenUp
       ELSE /\ \E p \in DOMAIN delivery.files : LET left == DOMAIN delivery.files \ {p} IN
                  delivery' = [files |-> Restrict(delivery.files, left),
                               sums |-> IF "sums" \in left THEN delivery.sums ELSE <<>>]
            /\ UNCHANGED build
    /\ UNCHANGED <<dir, job, artifact, head, spent, input>>

KillBuild ==
    /\ ~Building("idle") /\ Fault /\ GivenUp
    /\ UNCHANGED <<dir, job, artifact, head, delivery, input>>

\* The archives or the evidence files are changed.  A change while no builder runs
\* is no different from one as the builder ends.
EditInputs(i) ==
    /\ ~Building("idle") /\ i # input /\ Fault /\ input' = i
    /\ UNCHANGED <<dir, job, artifact, head, delivery, build>>

-----------------------------------------------------------------------------
\* A release that was rendered completely, without images.
RenderedRelease(n, trace) ==
    LET j == [Idle EXCEPT !.place = Release, !.inv = n, !.trace = trace]
        from(p) == IF p \in Packages THEN Norns[n].commit ELSE "none"
        said(p) == IF p \in Packages \cup {"manifest"} THEN trace ELSE NoTrace
        files == [p \in Range(ReleaseParts) \ {"images"} |-> File(j, from(p), said(p))]
    IN  [files |-> files, sums |-> Checksums(files, Summed(Release, files))]

\* Nothing was rendered yet, or the release that some site manifest is of; to a
\* release the artifacts of sites do not matter.
SiteInit ==
    /\ \/ Init
       \/ /\ \E m \in DOMAIN Manifests : LET release == RenderedRelease(Manifests[m].release.inv, NoTrace) IN
                dir = [p \in Places |-> IF p = Release THEN release ELSE EmptyDir]
          /\ job = Idle
          /\ artifact = CHOOSE a \in DOMAIN Artifacts : TRUE
          /\ head \in Commit
          /\ spent = [runs |-> 0, faults |-> 0]
    /\ delivery = EmptyDir
    /\ build = NoBuild
    /\ input = Original

\* The bundles of a site and a release have no file in common, and no step looks at
\* both: it is enough to follow the one or the other (a bound).
Apart ==
    \A u \in Units : dir[u] # EmptyDir \/ job.place = u
                        => dir[Release] = EmptyDir /\ job.place # Release

SiteNext ==
    \/ Building("idle") /\ Next /\ Apart' /\ UNCHANGED siteVars
    \/ ~Building("idle") /\ UNCHANGED siteVars /\ \E c \in Commit : Checkout(c)
    \/ /\ Working("idle") /\ Building("idle")
       /\ \E m \in DOMAIN Manifests, force \in BOOLEAN, key \in Key \cup {NoKey} : BuildDelivery(m, force, key)
    \/ PackageHost
    \/ \E pdf \in Manuals : Assemble(pdf)
    \/ Seal \/ Replace
    \/ KillBuild
    \/ \E i \in DOMAIN Inputs : EditInputs(i)

SiteSpec == SiteInit /\ [][SiteNext]_<<vars, siteVars>>

-----------------------------------------------------------------------------
(* Properties                                                              *)

\* Whatever is found in the place of the delivery and verifies, if only by its
\* structure, holds what was validated, although archives, evidence and kit may
\* have been changed before they were copied and a replacement may have been
\* interrupted: every image of every host is an archive of the digest that the
\* release names, the Wrapper is R1's alone, and whatever is said to have passed
\* has its evidence of the delivered commit in the delivery.
DeliveredAsValidated ==
    VerifyDelivery(delivery, NoKey, TRUE, TRUE) =>
        LET e == delivery.files["evidence"]
            m == Manifests[e.man]
            packages == Range(delivery.files["packages"])
        IN  /\ \A k \in ImageKeys : \A a \in {p.images[k] : p \in {q \in packages : k \in DOMAIN q.images}} :
                  ValidArchive(Archives[a], Wanted(m, k))
            /\ \A p \in packages : p.role \in Kits[p.kit] <=> p.role = "r1"
            /\ \A id \in {x \in DOMAIN e.checks : Passed(e.checks[x])} :
                  LET r == m.requirements[id].evidence[1] IN
                  r.commit = m.commit /\ delivery.files["acceptance"].files[r.sha] = r.sha
            /\ m.commit = Norns[delivery.files["handoff"].release.inv].commit

=============================================================================
