---------------------------- MODULE FieldDelivery ----------------------------
(***************************************************************************)
(* The two renderers of field material.  manage_field_deployment.py        *)
(* renders one private bundle for every unit of a site inventory;          *)
(* manage_norn_field_delivery.py renders one release with the packages and *)
(* the hosts' configuration.  Both validate the inventory, write files one *)
(* by one into a directory, write the list of checksums last, and have a   *)
(* verify command that is run on what is found on the disk later.          *)
(*                                                                         *)
(* A renderer may stop at any step, also while it removes the directory of *)
(* an earlier render, and be started again with another inventory; the     *)
(* files an inventory names and the repository's HEAD may change meanwhile.*)
(* A file's checksum is its content, written as where it came from.        *)
(***************************************************************************)
EXTENDS Naturals, Sequences, FiniteSets, Functions

CONSTANTS
    Sites,       \* site inventories by name
    Artifacts,   \* what the files a site names may hold: identities and evidence
    Norns,       \* inventories of Norn releases by name, all of one version
    Traces,      \* Trace acceptance files by name: [commit, passed]
    NoTrace,     \* no such file is given
    Commit,      \* commits of the repository
    Tainted,     \* commits whose packages hold a private key or a latest image
    MaxRuns,     \* bound: renders started
    MaxFaults    \* bound: stopped renderers, edited files, commits

ASSUME Parameters ==
    /\ Tainted \subseteq Commit
    /\ NoTrace \notin DOMAIN Traces
    /\ MaxRuns \in Nat /\ MaxFaults \in Nat

VARIABLES
    dir,       \* the directories of the units and of the release
    job,       \* the renderer that runs
    artifact,  \* the contents of the files a site names
    head,      \* the repository's HEAD and working tree
    spent      \* used of the bounds

vars == <<dir, job, artifact, head, spent>>

\* What the records of a list say in a field.
Field(s, name) == [i \in DOMAIN s |-> s[i][name]]

-----------------------------------------------------------------------------
(* validate_inventory of a site                                            *)

\* Addresses are numbers: 0 is the loopback, the ones of Undeployable are
\* reserved or for documentation.
Loopback == {0}
Undeployable == {255}
ValidIP(a) == a \in Nat \ (Loopback \cup Undeployable)
Port == 1 .. 65535

\* A text that was filled in, and one that can be a name as well.
Placeholder == "<fill in>"
Unsupported == "no name"
StrictString(text) == text # Placeholder
Identifier(text) == StrictString(text) /\ text # Unsupported

\* Addresses and hashes, written as numbers, are not zero.
NonZeroHex(value) == value # 0

\* What every unit of an inventory or of a template says.
UnitFields == {"id", "host", "link", "role", "project", "server", "key", "wrapper", "dns", "socket",
               "management", "agentBind", "agentPort", "metricsBind", "metrics", "upstreams",
               "secrets", "tls"}

\* _template_shape: there is a unit, every unit has its fields, ports are ports.
ShapeValid(site) ==
    /\ {"chain", "rpcs", "contract", "codeHash", "units"} \subseteq DOMAIN site
    /\ site.units # <<>>
    /\ \A i \in DOMAIN site.units : LET u == site.units[i] IN
          /\ UnitFields \subseteq DOMAIN u
          /\ u.dns \in Port /\ u.agentPort \in Port
          /\ u.upstreams # {}
          /\ Len(u.metrics) = 3 /\ \A m \in DOMAIN u.metrics : u.metrics[m] \in Port

\* A URL is its scheme, host and path.
HttpsURL(url) == url[1] = "https" /\ url[2] # "none"
AgentURL(url) == HttpsURL(url) /\ url[3] = ""

\* Two RPC providers on different hosts, never the main net, and a contract.
RegistryValid(site) ==
    /\ site.chain # 1
    /\ Len(site.rpcs) = 2 /\ HttpsURL(site.rpcs[1]) /\ HttpsURL(site.rpcs[2])
    /\ site.rpcs[1][2] # site.rpcs[2][2]
    /\ NonZeroHex(site.contract) /\ NonZeroHex(site.codeHash)

\* An upstream is a transport, an address and a port; none is the Wrapper's own,
\* and an entry unit has both transports.
ParseUpstream(up) == up[1] \in {"udp", "tcp"} /\ ValidIP(up[2]) /\ up[3] \in Port
UpstreamsValid(u) ==
    /\ \A up \in u.upstreams : ParseUpstream(up) /\ up[2] # u.wrapper
    /\ u.role = "entry" => {up[1] : up \in u.upstreams} = {"udp", "tcp"}

\* What a unit's environment makes its containers listen on.
Listeners(u) ==
    {<<u.wrapper, u.dns, "udp">>, <<u.wrapper, u.dns, "tcp">>, <<u.agentBind, u.agentPort, "tcp">>}
      \cup {<<u.metricsBind, u.metrics[i], "tcp">> : i \in DOMAIN u.metrics}

\* Unit ids, projects, servers, keys and wrapper addresses occur once.
UnitsDistinct(units) ==
    /\ IsInjective(Field(units, "id"))
    /\ IsInjective(Field(units, "project"))
    /\ IsInjective(Field(units, "server"))
    /\ IsInjective(Field(units, "key"))
    /\ IsInjective(Field(units, "wrapper"))

\* Mutant of HostsFree: only the DNS listeners of two units are compared.
HostsFreeDNS(units) ==
    /\ \A i \in DOMAIN units : Cardinality(Listeners(units[i])) = 6
    /\ \A i, j \in DOMAIN units : i # j /\ units[i].host = units[j].host =>
          /\ units[i].socket # units[j].socket
          /\ <<units[i].wrapper, units[i].dns>> # <<units[j].wrapper, units[j].dns>>

\* On one host no socket directory and no listener is used twice, by two units
\* or by one.
HostsFree(units) ==
    /\ \A i \in DOMAIN units : Cardinality(Listeners(units[i])) = 6
    /\ \A i, j \in DOMAIN units : i # j /\ units[i].host = units[j].host =>
          /\ units[i].socket # units[j].socket
          /\ Listeners(units[i]) \cap Listeners(units[j]) = {}

UnitValid(u) ==
    /\ Identifier(u.link) /\ Identifier(u.id) /\ Identifier(u.host)
    /\ u.role \in {"entry", "upstream"}
    /\ ValidIP(u.management) /\ ValidIP(u.wrapper)
    /\ UpstreamsValid(u)
    /\ u.metricsBind \in Loopback \cup {u.management}
    /\ u.agentBind \in Loopback \cup {u.management}

\* Secrets: the bytes of one are used for nothing else, except a peer token,
\* which the units of a link share; no TLS key is used twice.
SecretsApart(units) ==
    \A i, j \in DOMAIN units :
        /\ \A m \in DOMAIN units[i].secrets, n \in DOMAIN units[j].secrets :
              /\ <<i, m>> # <<j, n>>
              /\ units[i].secrets[m] = units[j].secrets[n]
              => i # j /\ m = "agent_peer_token" /\ n = m /\ units[i].link = units[j].link
        /\ \A m \in DOMAIN units[i].tls, n \in DOMAIN units[j].tls :
              units[i].tls[m] = units[j].tls[n] => <<i, m>> = <<j, n>>

\* Two RPC hosts verified this deployment, with every check.
VerificationEvidence(site, a) == a.chain = site.chain /\ Cardinality(a.verifiedBy) = 2

\* Five roles with an address each.
RoleEvidence(a) == Cardinality(a.roles) = 5

\* The plan is of exactly the signed identities, and its five phases are published.
PublicationEvidence(a) == a.plan = a.identities /\ a.published = a.plan /\ a.phases = 5

EvidenceValid(site, a) == VerificationEvidence(site, a) /\ RoleEvidence(a) /\ PublicationEvidence(a)

\* A secret file is there, is no link, is private and long enough.
Unusable == 0
MaterialFile(content) == content # Unusable

PublicKeyOf(private) == <<"public", private>>

\* Every unit has a signed identity with its key id, an Agent's origin and the
\* public key of its private one; all its secrets can be used.
MaterialValid(site, a) ==
    \A i \in DOMAIN site.units : LET u == site.units[i] IN
        /\ u.server \in DOMAIN a.identities
        /\ a.identities[u.server].key = u.key
        /\ AgentURL(a.identities[u.server].url)
        /\ a.identities[u.server].public = PublicKeyOf(u.secrets["agent_private_key"])
        /\ \A m \in DOMAIN u.secrets : MaterialFile(u.secrets[m])
        /\ \A m \in DOMAIN u.tls : MaterialFile(u.tls[m])

\* Every identity of the file bears a signature of one of the issuers.
VerifiedIdentities(a) == a.signed

SiteValid(site, a) ==
    /\ ShapeValid(site)
    /\ RegistryValid(site)
    /\ VerifiedIdentities(a)
    /\ EvidenceValid(site, a)
    /\ UnitsDistinct(site.units)
    /\ HostsFree(site.units)
    /\ \A i \in DOMAIN site.units : UnitValid(site.units[i])
    /\ MaterialValid(site, a)
    /\ SecretsApart(site.units)

-----------------------------------------------------------------------------
(* validate_inventory of a Norn release                                    *)

\* No field of the inventory is named like a secret, at any depth.
NoSecretFields(inv) == "secret" \notin DOMAIN inv

RoutableIP(a) == a \in Nat \ Loopback

\* Every image has a digest, and it is not the template's.
ImageKeys == {"management", "rust", "knot", "norn", "nginx"}

ImagesValid(images) == DOMAIN images = ImageKeys /\ \A k \in ImageKeys : images[k] # 0

NodesValid(nodes) ==
    /\ Len(nodes) = 2 /\ {nodes[i].role : i \in DOMAIN nodes} = {"node-a", "node-b"}
    /\ IsInjective(Field(nodes, "host"))
    /\ IsInjective(Field(nodes, "address"))
    /\ \A i \in DOMAIN nodes : RoutableIP(nodes[i].address)
    /\ IsInjective(Field(nodes, "profile"))

ResolversValid(resolvers) ==
    /\ Cardinality({i \in DOMAIN resolvers : resolvers[i].role = "first-hop"}) = 1
    /\ IsInjective(Field(resolvers, "host"))
    /\ IsInjective(Field(resolvers, "server"))
    /\ IsInjective(Field(resolvers, "profile"))
    /\ \A i \in DOMAIN resolvers :
          /\ resolvers[i].role \in {"first-hop", "upstream"}
          /\ resolvers[i].upstreams =
                IF resolvers[i].role = "first-hop" THEN <<resolvers[i].address>> ELSE <<>>

HostsOf(inv) == {inv.management} \cup {inv.nodes[i].host : i \in DOMAIN inv.nodes}
                  \cup {inv.resolvers[i].host : i \in DOMAIN inv.resolvers}

NornValid(inv) ==
    /\ NoSecretFields(inv)
    /\ ImagesValid(inv.images)
    /\ NodesValid(inv.nodes)
    /\ ResolversValid(inv.resolvers)
    /\ Cardinality(HostsOf(inv)) = 1 + Len(inv.nodes) + Len(inv.resolvers)

\* Mutant of TraceReady: the acceptance file of any commit will do.
TraceReadyAny(trace, commit) == IF trace = NoTrace THEN "no" ELSE "yes"

\* Without a file the release is not ready; a file of another commit, or one
\* that does not say that everything passed, stops the render.
TraceReady(trace, commit) ==
    IF trace = NoTrace THEN "no"
    ELSE IF Traces[trace].commit = commit /\ Traces[trace].passed THEN "yes" ELSE "refused"

-----------------------------------------------------------------------------
(* Directories                                                             *)

Units == UNION {{Sites[s].units[i].id : i \in DOMAIN Sites[s].units} : s \in DOMAIN Sites}
Release == "release"
Places == Units \cup {Release}

\* An inventory lists its units, and no unit's directory is that of the release:
\* the two tools write to different places.
ASSUME SitesAssumption ==
    /\ \A s \in DOMAIN Sites : Sites[s].units \in Seq(Range(Sites[s].units))
    /\ Release \notin Units

\* What render_bundles and render write, in their order.  "dirs" stands for the
\* directories themselves: with it, the directory is there and not empty.
BundleParts == <<"dirs", "marker", "compose", "identities", "evidence", "private",
                 "env", "scripts", "metadata", "sums">>
Packages == {"management", "norn-node", "resolver-link"}
ReleaseParts == <<"dirs", "hosts", "management", "norn-node", "resolver-link", "documents",
                  "images", "manifest", "hostsums", "sums">>
Parts(place) == IF place = Release THEN ReleaseParts ELSE BundleParts

EmptyDir == [files |-> <<>>, sums |-> <<>>]
Idle == [place |-> "none", inv |-> "none", checked |-> "none", todo |-> <<>>, force |-> FALSE,
         images |-> "none", trace |-> NoTrace, step |-> "idle", pos |-> 0]

\* The files the list of checksums names: all of a bundle; of a release not the
\* hosts' files, which have a list of their own.
Summed(place, files) ==
    DOMAIN files \ (IF place = Release THEN {"dirs", "hosts", "sums"} ELSE {"dirs", "sums"})

\* The lists name every file with its digest.
Checksums(files, S) == Restrict(files, S)

\* What a file holds says where it came from: the inventory, the artifacts or
\* the tree it was copied from, and the Trace acceptance it speaks of.
File(j, from, trace) == [inv |-> j.inv, from |-> from, trace |-> trace]

\* Identities, Registry evidence and the metadata that names their digests are
\* of the files as they are now, not as they were when they were validated.
CopiedFile(j) == File(j, artifact, NoTrace)

\* A unit's environment has the Agent's origin of the identity that was validated;
\* a host's configuration is of the inventory alone.
EnvironmentFile(j) == File(j, j.checked, NoTrace)
HostFile(j) == File(j, "none", NoTrace)

\* A package is the working tree's source with the inventory's values, and says
\* whether the release is ready for production.
PackageFile(j) == File(j, head, j.trace)

\* The secrets a host needs, the network matrix and the order of installation.
DocumentFile(j) == File(j, "none", NoTrace)

ManifestFile(j) == File(j, "none", j.trace)

ContentOf(part, j) ==
    CASE part \in {"identities", "evidence", "metadata"} -> CopiedFile(j)
      [] part = "hosts" -> HostFile(j)
      [] part \in Packages -> PackageFile(j)
      [] part = "documents" -> DocumentFile(j)
      [] part = "manifest" -> ManifestFile(j)
      [] part = "env" -> EnvironmentFile(j)
      [] OTHER -> File(j, "none", NoTrace)

\* Mutant of VerifyBundle: a file that is listed may be missing.
VerifyBundlePresent(u) == LET d == dir[u] IN
    /\ {"marker", "sums"} \subseteq DOMAIN d.files
    /\ Summed(u, d.files) \subseteq DOMAIN d.sums
    /\ \A p \in Summed(u, d.files) : d.files[p] = d.sums[p]

\* verify_bundle: the files found are the ones listed, and match.
VerifyBundle(u) == LET d == dir[u] IN
    /\ {"marker", "sums"} \subseteq DOMAIN d.files
    /\ Summed(u, d.files) = DOMAIN d.sums
    /\ \A p \in DOMAIN d.sums : d.files[p] = d.sums[p]
    /\ Sites[d.files["env"].inv].chain # 1

\* verify_release: what is listed is found and matches, and the packages are
\* the manifest's three.
VerifyRelease == LET d == dir[Release] IN
    /\ {"manifest", "sums"} \subseteq DOMAIN d.files
    /\ DOMAIN d.sums \subseteq DOMAIN d.files
    /\ \A p \in DOMAIN d.sums : d.files[p] = d.sums[p]
    /\ Packages \subseteq DOMAIN d.files

-----------------------------------------------------------------------------
(* Rendering                                                               *)

Working(step) == job.step = step
Started == spent.runs < MaxRuns /\ spent' = [spent EXCEPT !.runs = @ + 1]
Fault == spent.faults < MaxFaults /\ spent' = [spent EXCEPT !.faults = @ + 1]
Ended == job' = Idle

\* command_render: validate the inventory, then one unit after the other.
RenderSite(s, force) ==
    /\ Working("idle") /\ Started
    /\ SiteValid(Sites[s], Artifacts[artifact])
    /\ LET ids == [i \in DOMAIN Sites[s].units |-> Sites[s].units[i].id] IN
       job' = [Idle EXCEPT !.place = ids[1], !.inv = s, !.checked = artifact, !.todo = Tail(ids),
                           !.force = force, !.step = "enter"]
    /\ UNCHANGED <<dir, artifact, head>>

\* render: the inventory, HEAD and the Trace acceptance are checked first.
RenderRelease(n, force, trace, images) ==
    /\ Working("idle") /\ Started
    /\ NornValid(Norns[n])
    /\ Norns[n].commit = head
    /\ TraceReady(trace, Norns[n].commit) # "refused"
    /\ job' = [Idle EXCEPT !.place = Release, !.inv = n, !.force = force, !.trace = trace,
                           !.images = images, !.step = "enter"]
    /\ UNCHANGED <<dir, artifact, head>>

\* A directory that is there is replaced with --force only, and that of a unit
\* only when it is marked.
Enter ==
    /\ Working("enter")
    /\ LET files == DOMAIN dir[job.place].files IN
       IF "dirs" \notin files THEN job' = [job EXCEPT !.step = "write"]
       ELSE IF job.force /\ (job.place # Release => "marker" \in files)
            THEN job' = [job EXCEPT !.step = "remove"]
       ELSE Ended
    /\ UNCHANGED <<dir, artifact, head, spent>>

\* shutil.rmtree, in the order the directory lists its entries.
Remove ==
    /\ Working("remove")
    /\ LET d == dir[job.place]
           left == DOMAIN d.files \ {"dirs"}
           keep(S) == [files |-> Restrict(d.files, S), sums |-> IF "sums" \in S THEN d.sums ELSE <<>>]
       IN  IF left = {}
           THEN dir' = [dir EXCEPT ![job.place] = EmptyDir] /\ job' = [job EXCEPT !.step = "write"]
           ELSE /\ \E p \in left : dir' = [dir EXCEPT ![job.place] = keep(DOMAIN d.files \ {p})]
                /\ UNCHANGED job
    /\ UNCHANGED <<artifact, head, spent>>

\* An archive that is missing and a package that does not pass _scan_package
\* stop the render.
Refused(part) == \/ part = "images" /\ job.images = "missing"
                 \/ part \in Packages /\ head \in Tainted

Left(part) == part = "images" /\ job.images = "none"

Write ==
    /\ Working("write")
    /\ job.pos < Len(Parts(job.place))
    /\ LET part == Parts(job.place)[job.pos + 1]
           d == dir[job.place]
           files == [p \in DOMAIN d.files \cup {part} |->
                       IF p = part THEN ContentOf(part, job) ELSE d.files[p]]
           sums == IF part = "sums" THEN Checksums(files, Summed(job.place, files)) ELSE d.sums
       IN  IF Refused(part) THEN Ended /\ UNCHANGED dir
           ELSE /\ job' = [job EXCEPT !.pos = @ + 1]
                /\ dir' = IF Left(part) THEN dir
                          ELSE [dir EXCEPT ![job.place] = [files |-> files, sums |-> sums]]
    /\ UNCHANGED <<artifact, head, spent>>

\* The next unit, or the end.
Rendered ==
    /\ Working("write") /\ job.pos = Len(Parts(job.place))
    /\ job' = IF job.todo = <<>> THEN Idle
              ELSE [job EXCEPT !.place = job.todo[1], !.todo = Tail(@), !.step = "enter", !.pos = 0]
    /\ UNCHANGED <<dir, artifact, head, spent>>

Killed == ~Working("idle") /\ Fault /\ Ended /\ UNCHANGED <<dir, artifact, head>>

EditArtifacts(a) == a # artifact /\ Fault /\ artifact' = a /\ UNCHANGED <<dir, job, head>>

Checkout(c) == c # head /\ Fault /\ head' = c /\ UNCHANGED <<dir, job, artifact>>

-----------------------------------------------------------------------------
Init ==
    /\ dir = [p \in Places |-> EmptyDir]
    /\ job = Idle
    /\ artifact \in DOMAIN Artifacts
    /\ head \in Commit
    /\ spent = [runs |-> 0, faults |-> 0]

Command ==
    \/ \E s \in DOMAIN Sites, force \in BOOLEAN : RenderSite(s, force)
    \/ \E n \in DOMAIN Norns, force \in BOOLEAN, t \in DOMAIN Traces \cup {NoTrace},
         images \in {"none", "all", "missing"} : RenderRelease(n, force, t, images)

Next ==
    \/ Working("idle") /\ Command
    \/ Enter \/ Remove \/ Write \/ Rendered
    \/ Killed
    \/ \E a \in DOMAIN Artifacts : EditArtifacts(a)
    \/ \E c \in Commit : Checkout(c)

Spec == Init /\ [][Next]_vars

-----------------------------------------------------------------------------
(* Properties                                                              *)

\* A bundle that verify_bundle accepts, whatever renders were stopped before, is
\* complete, and its secrets, environment and metadata are of one inventory,
\* one that has this unit.
VerifiedWhole ==
    \A u \in Units : VerifyBundle(u) =>
        LET f == dir[u].files IN
        /\ DOMAIN f = {BundleParts[i] : i \in DOMAIN BundleParts}
        /\ \A p \in DOMAIN f : f[p].inv = f["env"].inv
        /\ \E i \in DOMAIN Sites[f["env"].inv].units : Sites[f["env"].inv].units[i].id = u

UnitOf(s, id) ==
    Sites[s].units[CHOOSE i \in DOMAIN Sites[s].units : Sites[s].units[i].id = id]

\* Two bundles that verify and are of one inventory can be started together: on
\* one host they listen on different addresses and use different sockets, and
\* they share no secret but the peer token of their link.
BundlesDisjoint ==
    \A u, v \in Units : u # v /\ VerifyBundle(u) /\ VerifyBundle(v) =>
        LET s == dir[u].files["env"].inv
            a == UnitOf(s, u)  b == UnitOf(s, v)
        IN  dir[v].files["env"].inv = s =>
              /\ a.host = b.host => Listeners(a) \cap Listeners(b) = {} /\ a.socket # b.socket
              /\ \A m \in DOMAIN a.secrets, n \in DOMAIN b.secrets :
                    a.secrets[m] = b.secrets[n] => <<m, n>> = <<"agent_peer_token", "agent_peer_token">>

\* A release that verifies and says it is ready for production has a Trace
\* acceptance in which everything passed, of the commit its manifest names; its
\* three packages say the same, and none of them holds secret material.
ReadyJustified ==
    VerifyRelease =>
        LET f == dir[Release].files
            t == f["manifest"].trace
        IN  /\ t # NoTrace =>
                 Traces[t].passed /\ Traces[t].commit = Norns[f["manifest"].inv].commit
            /\ \A p \in Packages : f[p].trace = t /\ f[p].from \notin Tainted

=============================================================================
