SPECIFICATION StationSpec
CONSTANTS
    c1 = c1
    c2 = c2
    o1 = o1
    o2 = o2
    g1 = g1
    g2 = g2
    n1 = n1
    n2 = n2
    p1 = p1
    s1 = s1
    toml = toml
    Commands = {c1, c2}
    Names = {n1, n2}
    Default = n1
    Secrets = {s1}
    MaxKeys = 3
    MaxCommands = 3
    StackCommands = {c1, c2}
    Projects = {p1}
    Repo = {}
    Installed = FALSE
    Operators = {o1, o2}
    StackProtections = {"identity"}
    Gates = {g1, g2}
    MaxStackCommands = 2
    Installers = {c1, c2}
    Ides = {toml}
    FormatOf <- OneToml
    Others = {s1}
    SessionConfigs <- SomeSessions
    FlagSets <- SomeFlags
    MaxInstalls = 2
    MaxIdeEdits = 1
    Confs <- SomeConfs
    DefaultConf <- Defaults
    HostFaults = {"ledger", "manifests", "data"}
    EditPlaces = {"workspace", "user"}
    EnvKey = "absent"
    MaxLives = 2
    MaxSigningKeys = 3
    MaxConfEdits = 2
    ItemsOf <- SomeItems
    Actions = {1, 2}
    Presets = {1}
    MaxSetupKeys = 4
    MaxOutside = 1
    ActionIds = {1, 2}
    Entries = {1, 2}
    Drafts <- SomeDrafts
    MaxStrokes = 4
    MaxElsewhere = 1
    Registered <- TwoActions
    Learnable = {1, 2}
    MaxPresses = 3
    MaxLearned = 1
SYMMETRY StationSymmetry
CHECK_DEADLOCK FALSE
INVARIANTS
    CommandsSafe
    ScreensSafe
