\* Liquidations and force exercises of short options, while others deposit.
SPECIFICATION Spec
SYMMETRY Symmetry
CHECK_DEADLOCK FALSE
CONSTANTS
    Users = {alice, bob}
    RiskEngine = riskEngine
    Builder = builder
    FeeRecipients = {none}
    NoRecipient = none
    Kinds <- Shorts
    WAD = 4
    DECIMALS = 10
    LossCap = 2
    VirtualShares = 1
    Phantom = 100
    Infinite = 99
    NotionalFee = 1
    PremiumFee = 2
    ProtocolSplit = 6
    BuilderSplit = 3
    MaxDeposit = 3
    Rates = {2}
    Amounts = {2}
    Allowances = {}
    Premia <- Zero
    Bonuses <- Wide
    Fees <- TwoWay
    First = FALSE
    Substitutes = {0, 2}
    Interventions = {"liquidate", "exercise", "settle"}
    MaxAssets = 5
    MaxShares = 7
    MaxIndex = 6
INVARIANT TypeOK
INVARIANT SharesAddUp
INVARIANT DebtCoversPositions
INVARIANT RefundCoversRevoke
INVARIANT AmmCoversShorts
PROPERTY BonusIsWorthAtMost
PROPERTY SharePriceHolds
