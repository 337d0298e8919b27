\* Two sellers that settle and stay.
SPECIFICATION Spec
CONSTANTS
    s1 = s1
    s2 = s2
    b1 = b1
    Shorts = {s1, s2}
    Longs = {b1}
    Sizes <- UnequalSellers
    Fees = {8}
    Q64 = 16
    Max128 = 100000
    Vegoid = 2
    MaxSpread = 20000
    DECIMALS = 10000
    Dust = 1
    MaxFees = 100
    MaxGross = 80
PROPERTY SettleLeavesRemainder
