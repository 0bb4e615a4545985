SPECIFICATION Spec
CONSTANTS
    SKeys = {"k1"}
    SReqs = {"r1", "r2", "r3"}
    KeyLimit = 1
    BadAnswers = {"invalid", "temporary"}
    FailsToDown = 2
    OwnKeys <- MCOwnKeys
    PoolRestarts = 1
    UReqs = {"q1", "q2"}
    MaxWal = 1
    UsageCrashes = 1
    PKeys = {"k1", "k2"}
    Secrets = {"s1", "s2"}
    IdemKeys = {"i"}
    AReqs = {"r1", "r2"}
    MaxLookups = 1
    ZReqs = {"z1", "z2"}
    ZResources = {"x"}
    ZActions = {"proxy_key.create", "proxy_key.use", "seller_key.update", "route_candidate_exclude_self"}
    AccountOf <- MCAccountOf
    DWorkers = {"w1", "w2"}
    DProjects = {"p1", "p2"}
    DNames = {"a", "b"}
    DProtocols = {"openai", "anthropic"}
    DKeys = {"k"}
    DCalls = 3
    Operators <- MCOperators
    Wizards = {"w"}
    Drafts = {"f"}
    Payloads = {"default", "invalid"}
    MaxActive = 2
    Jobs = {"j1", "j2"}
    RunOf <- MCRunOf
    ImageSets = {"x", "y"}
    Commits = {"c", "d"}
    MaxEdits = 1
    Approvals <- MCApprovals
    EOps = {"t1", "t2"}
    EWorkspaces = {"w", "v"}
    EDeps = {"pg", "redis"}
    RVersions = {"v1", "v2"}
    RSellers = {"s"}
    RRequests = {"r"}
    Terms <- MCTerms
    Multipliers = {8, 12}
INVARIANTS TypeOK KeyLeases UsageCounted RevokedRefused OneKeyAnswered KeyLeadsToProject
    WizardExecutesOnce ApprovedOnce RatesSound
PROPERTIES RevokedStays WithdrawnLeaves UsageDelivered ProtocolRowsStay ChangeAudited LockedLifecycle
CHECK_DEADLOCK FALSE
