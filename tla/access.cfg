SPECIFICATION AccessSpec
CONSTANTS
    r1 = r1
    r2 = r2
    Conns <- SomeConns
    Mapped <- OneMapped
    AllowUnmapped = FALSE
    CaSigned = {"c1", "c2"}
    AllowedCerts = {"c1"}
    ClientKeys = {"k1", "k2"}
    Operators <- OneOperator
    ScopeWishes <- OneWish
    Urls <- OneUrl
    Headers = {"k1", "k2"}
    Callers = {r1, r2}
    Served = {"receipt"}
    KeyCapacity = 1
    MaxAge = 0
    Skew = 0
    LeaseTtl = 1
    ReplayTtl = 2
    ClaimWithin = 1
    ReplayStores = {"memory", "up"}
    MaxLeases = 1
    MaxProofs = 1
    MaxTime = 2
    MaxLives = 2
    Principals = {"p1", "p2"}
    ActionIds = {"read", "send"}
    Extracted = {"read"}
    Sinks = {"s1", "s2"}
    Risk <- Risks
    FsActions = {"read"}
    DeclaredSinks <- FirstSinks
    Presets <- TwoPresets
    Agents = {"p1"}
    AllowlistNames = {"p1"}
    Inputs <- SomeInputs
    BackendFaults = {"status", "malformed", "sinks", "calls"}
    MaxEdits = 3
    Calls = {"c1"}
    Configs <- SomeConfigs
    Requests <- SomeRequests
    MaxReloads = 1
    Ids = {"a", "b"}
    Contents <- SomeContents
    BuiltIn <- FirstBuiltIn
    DirOrder <- UserThenProject
    YamlFiles = {"f", "g"}
    Bodies <- SomeBodies
    MaxRequest = 1
    MaxChanges = 2
    MaxLoads = 2
    Targets <- SomeTargets
    Paths <- SomePaths
    Manual <- SomeManual
    Lower <- LowerOf
    BadFragments = {"_", "localhost", "*"}
    IpOf <- Literals
    Declared <- UpperDeclared
    Answers <- SomeAnswers
    AllowedGlobs <- DocsAllowed
    DeniedGlobs <- EnvDenied
    Sensitive = {".env", ".ssh"}
    Bracketed <- OneClass
    Unclosed = {"a["}
    Root <- RootDir
    Linked <- OneLinked
    HasSecrets = FALSE
    EgressModes = {"direct", "proxied"}
    MaxLabel = 2
    MaxName = 9
    MaxAttempts = 2
    MaxManual = 1
SYMMETRY CallerSymmetry
CHECK_DEADLOCK FALSE
INVARIANTS
    AuthSafe
    RulesSafe
    DatabaseSafe
    DeclarationsSafe
