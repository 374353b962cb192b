--------------------------- MODULE MCFieldDelivery ---------------------------
(* Small inventories: two units of one link on one host, correct and with one  *)
(* mistake each, a Norn release of two nodes and two resolvers, and site       *)
(* manifests of that release with six hosts.                                   *)
EXTENDS SiteBundle

Unit(n, id) ==
    [id |-> id, host |-> "host", link |-> "link", role |-> IF n = 1 THEN "entry" ELSE "upstream",
     project |-> n, server |-> n, key |-> n, wrapper |-> n, dns |-> 53, socket |-> n,
     management |-> 9, agentBind |-> 9, agentPort |-> 7000 + n,
     metricsBind |-> 0, metrics |-> <<9000 + 10 * n, 9001 + 10 * n, 9002 + 10 * n>>,
     upstreams |-> {<<"udp", 8, 53>>, <<"tcp", 8, 53>>},
     secrets |-> [agent_private_key |-> 100 + n, trace_ingest_token |-> 200 + n,
                  agent_wrapper_token |-> 300 + n, agent_peer_token |-> 400],
     tls |-> <<500 + n>>]

RPC(host) == <<"https", host, "">>

Site == [chain |-> 31337, rpcs |-> <<RPC("p1"), RPC("p2")>>, contract |-> 1,
         codeHash |-> 1, units |-> <<Unit(1, "u1"), Unit(2, "u2")>>]

MCSites ==
    [plain |-> Site,
     moved |-> [Site EXCEPT !.units[1].dns = 5353],
     clash |-> [Site EXCEPT !.units[2].metrics = <<9020, 9021, 9012>>],
     token |-> [Site EXCEPT !.units[2].secrets["trace_ingest_token"] = 201],
     loop  |-> [Site EXCEPT !.units[1].upstreams = {<<"udp", 1, 53>>, <<"tcp", 8, 53>>}],
     port  |-> [Site EXCEPT !.units[1].dns = 65536],
     open  |-> [Site EXCEPT !.units[1].tls = <<Unusable>>],
     rpc   |-> [Site EXCEPT !.rpcs = <<RPC("p1"), RPC("p1")>>],
     blank |-> [Site EXCEPT !.units[1].link = Placeholder],
     zero  |-> [Site EXCEPT !.codeHash = 0],
     docs  |-> [Site EXCEPT !.units[2].wrapper = 255]]

Signed == [n \in 1 .. 2 |-> [key |-> n, public |-> PublicKeyOf(100 + n), url |-> <<"https", "agent", "">>]]

Published == [chain |-> 31337, signed |-> TRUE, verifiedBy |-> {1, 2}, roles |-> 1 .. 5, identities |-> Signed,
              plan |-> Signed, published |-> Signed, phases |-> 5]

MCArtifacts ==
    [published |-> Published,
     partial   |-> [Published EXCEPT !.phases = 4]]

Norn(c) ==
    [commit |-> c, management |-> "m", images |-> [k \in ImageKeys |-> 1],
     nodes |-> <<[role |-> "node-a", host |-> "a", address |-> 1, profile |-> 1],
                 [role |-> "node-b", host |-> "b", address |-> 2, profile |-> 2]>>,
     resolvers |-> <<[role |-> "first-hop", host |-> "r1", server |-> 1, profile |-> 1,
                      address |-> 5, upstreams |-> <<5>>],
                     [role |-> "upstream", host |-> "r2", server |-> 2, profile |-> 2,
                      address |-> 6, upstreams |-> <<>>]>>]

MCNorns ==
    [first  |-> Norn("c1"),
     second |-> Norn("c2"),
     shared |-> [Norn("c1") EXCEPT !.resolvers[2].host = "m"]]

MCTraces == [passed1 |-> [commit |-> "c1", passed |-> TRUE],
             failed2 |-> [commit |-> "c2", passed |-> FALSE]]

Member(path, target) ==
    [path |-> path, target |-> target, kind |-> IF target = <<>> THEN "file" ELSE "link", faults |-> {}]

Layer(members) == [digest |-> 12, diff |-> 13, readable |-> TRUE, members |-> members]

Archive(layer) ==
    [manifests |-> <<[digest |-> 1, ref |-> <<"registry", 1>>, commit |-> "c1", platform |-> "linux"]>>,
     config |-> [digest |-> 11, platform |-> "linux", secret |-> FALSE, diffs |-> <<13>>],
     layers |-> <<layer>>, blobs |-> [d \in {1, 11, 12} |-> d], others |-> {}]

MCArchives ==
    [sound   |-> Archive(Layer(<<Member(<<"bin", "run">>, <<>>), Member(<<"bin", "link">>, <<"..", "lib">>),
                                 Member(<<"etc">>, <<"/", "..", "lib">>)>>)),
     escape  |-> Archive(Layer(<<Member(<<"link">>, <<"..", "lib">>)>>)),
     damaged |-> [Archive(Layer(<<>>)) EXCEPT !.blobs = [d \in {1, 11, 12} |-> IF d = 12 THEN 99 ELSE d]]]

Input(archive, evidence) ==
    [archives |-> [k \in ImageKeys |-> IF k = "rust" THEN archive ELSE "sound"],
     evidence |-> [report |-> evidence]]

MCInputs ==
    [good     |-> Input("sound", 7),
     replaced |-> Input("escape", 7),
     broken   |-> Input("damaged", 7),
     edited   |-> Input("sound", 8)]

Host(n, role) == [name |-> role, role |-> role, machine |-> n, address |-> IF n = 1 THEN 21 ELSE 0]

Report == [file |-> "report", sha |-> 7, commit |-> "c1", host |-> "site", role |-> "site"]

Requirement(status, evidence, blockedBy) ==
    [status |-> status, wording |-> status, reason |-> FALSE, evidence |-> evidence, blockedBy |-> blockedBy]

Met == Requirement("passed", <<Report>>, {})

Manifest0(requirements) ==
    [release |-> File([inv |-> "first"], "none", NoTrace), commit |-> "c1", platform |-> "linux",
     images |-> [k \in ImageKeys |-> [repository |-> "registry", annotation |-> {}, commit |-> {}]],
     hosts |-> <<Host(1, "management"), Host(2, "norn-a"), Host(3, "norn-b"), Host(4, "r1"), Host(5, "r2"),
                 Host(6, "r3")>>,
     requirements |-> requirements]

MCManifests ==
    [complete |-> Manifest0([capacity |-> Met, resolver_trace |-> Met]),
     open     |-> Manifest0([capacity |-> Requirement("not_run", <<>>, {"resolver_trace"}),
                             resolver_trace |-> Requirement("blocked", <<>>, {"external_approval"})]),
     failed   |-> Manifest0([capacity |-> Met,
                             resolver_trace |-> Requirement("failed", <<Report>>, {"external_approval"})]),
     cyclic   |-> Manifest0([capacity |-> Requirement("not_run", <<>>, {"resolver_trace"}),
                             resolver_trace |-> Requirement("not_run", <<>>, {"capacity"})]),
     short    |-> Manifest0([capacity |-> Met]),
     twice    |-> [Manifest0([capacity |-> Met, resolver_trace |-> Met]) EXCEPT !.hosts[2].machine = 1]]

MCKits == [c1 |-> {"r1"}, c2 |-> {"r1", "r3"}, c3 |-> {"r1"}]

=============================================================================
