\* Addresses selected, edited, built, batched, merged and deployed.
SPECIFICATION Spec
CHECK_DEADLOCK FALSE
CONSTANTS
    v3 = v3
    v4 = v4
    data = data
    engine = engine
    proxy = proxy
    pool = pool
    a0 = a0
    a1 = a1
    b0 = b0
    b1 = b1
    b2 = b2
    b3 = b3
    b4 = b4
    b5 = b5
    b6 = b6
    ConfigOrder <- TwoConfigs
    DataNames <- DataSlots
    LogicNames <- LogicSlots
    BuildOrder <- Order
    Common <- CommonOnes
    Refs <- References
    Needs <- Calls
    Gas <- GasOfEach
    Entries <- Vanity
    Legacy = {b0}
    FirstConfig <- Committed
    Limits = {4}
    Freezing = FALSE
    NoFile = NoFile
    NoCode = NoCode
    MaxCommands = 5
INVARIANT TypeOK
INVARIANT DistinctSlots
INVARIANT BatchesCover
INVARIANT VerifiedMeansWired
PROPERTY EverythingDeploys
