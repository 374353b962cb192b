SPECIFICATION SiteSpec
CONSTANTS
  Sites <- MCSites
  Artifacts <- MCArtifacts
  Norns <- MCNorns
  Traces <- MCTraces
  NoTrace = "none"
  Commit = {"c1", "c2", "c3"}
  Tainted = {"c3"}
  Manifests <- MCManifests
  Archives <- MCArchives
  Inputs <- MCInputs
  Original = "good"
  Kits <- MCKits
  Mandatory = {"capacity", "resolver_trace"}
  Key = {"k1"}
  NoKey = "unsigned"
  MaxRuns = 2
  MaxFaults = 1
INVARIANTS VerifiedWhole  ReadyJustified DeliveredAsValidated
CHECK_DEADLOCK FALSE
