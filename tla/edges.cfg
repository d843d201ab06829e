SPECIFICATION EdgesSpec
CONSTANTS
    g1 = g1
    g2 = g2
    c1 = c1
    c2 = c2
    Processes = {g1, g2}
    Calls = {c1, c2}
    MaxPermits = 1
    Readers = {c1, c2}
    MaxVersions = 3
    Tools = {c1}
    MaxGateStarts = 1
    MaxRefusals = 1
    v1 = v1
    v2 = v2
    v3 = v3
    Named = {c1}
    Manifests = {v1, v2, v3}
    Embedded <- FirstVersions
    DigestOf <- TwoDigests
    Builtin = {}
    Schemaless = {v3}
    Invocations = {c1}
    Absent = Absent
    Broken = Broken
    MaxEdits = 3
    Clients = {c1, c2}
    FrontOf <- OneOfEach
    Credentials = {"k"}
    Keys = {"k"}
    Approvals = {"a1"}
    UnresolvedOf <- HeldByOne
    Domains = {"d1"}
    ManifestDomains = {}
    MaxClientCommands = 2
CHECK_DEADLOCK FALSE
INVARIANTS
    GateSafe
    RegistrySafe
    CallersSafe
PROPERTIES
    EdgesProgress
