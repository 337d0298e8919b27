\* A short and a long option, with premium paid and clawed back and interest.
SPECIFICATION Spec
SYMMETRY Symmetry
CHECK_DEADLOCK FALSE
CONSTANTS
    Users = {alice, bob}
    RiskEngine = riskEngine
    Builder = builder
    FeeRecipients = {none}
    NoRecipient = none
    Kinds <- Options
    WAD = 4
    DECIMALS = 10
    LossCap = 2
    VirtualShares = 1
    Phantom = 100
    Infinite = 99
    NotionalFee = 1
    PremiumFee = 2
    ProtocolSplit = 6
    BuilderSplit = 3
    MaxDeposit = 3
    Rates = {2}
    Amounts = {2}
    Allowances = {}
    Premia <- TwoWay
    Bonuses <- Zero
    Fees <- Zero
    First = FALSE
    Substitutes = {0}
    Interventions = {"liquidate"}
    MaxAssets = 3
    MaxShares = 4
    MaxIndex = 6
INVARIANT IndexOrder
PROPERTY CreditsStayBacked
PROPERTY SharePriceHolds
