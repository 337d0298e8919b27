\* Allowances, loans and credits, and a builder's share of the fees.
SPECIFICATION Spec
SYMMETRY Symmetry
CHECK_DEADLOCK FALSE
CONSTANTS
    Users = {alice, bob}
    RiskEngine = riskEngine
    Builder = builder
    FeeRecipients = {none, builder}
    NoRecipient = none
    Kinds <- Lending
    WAD = 4
    DECIMALS = 10
    LossCap = 2
    VirtualShares = 1
    Phantom = 100
    Infinite = 99
    NotionalFee = 1
    PremiumFee = 2
    ProtocolSplit = 6
    BuilderSplit = 3
    MaxDeposit = 3
    Rates = {2}
    Amounts = {2}
    Allowances = {2, 99}
    Premia <- Zero
    Bonuses <- Zero
    Fees <- Zero
    First = FALSE
    Substitutes = {0}
    Interventions = {}
    MaxAssets = 3
    MaxShares = 5
    MaxIndex = 6
INVARIANT RoundTripNeverGains
