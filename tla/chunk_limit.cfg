\* Two sellers and a buyer, with accumulators that reach their limit.
SPECIFICATION Spec
CONSTANTS
    s1 = s1
    s2 = s2
    b1 = b1
    Shorts = {s1, s2}
    Longs = {b1}
    Sizes <- UnequalSellers
    Fees = {8}
    Q64 = 16
    Max128 = 50
    Vegoid = 2
    MaxSpread = 20000
    DECIMALS = 10000
    Dust = 2
    MaxFees = 16
    MaxGross = 90
INVARIANT TypeOK
INVARIANT LiquidityAddsUp
INVARIANT ClaimsWithinTotal
INVARIANT ClosePaidFromSettled
PROPERTY OthersKeepTheirShare
PROPERTY BackingNeverShrinks
PROPERTY AccumulatorsNeverFall
