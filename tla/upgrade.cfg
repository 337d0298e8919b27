\* Upgrades, rollbacks and mistakes, at once and through the timelock.
SPECIFICATION Spec
CHECK_DEADLOCK FALSE
CONSTANTS
    blue = blue
    stocks = stocks
    stranger = stranger
    v1 = v1
    v2 = v2
    v3 = v3
    Proxies = {blue, stocks}
    Others = {stranger}
    Impls = {v1, v2, v3}
    Genesis <- AllOnOld
    Plans <- Lists
    Salts = {s1, s2}
    Delays = {1, 2}
    MinDelay = 2
    RpcUrl = TRUE
    NoFile = NoFile
    MaxRuns = 2
INVARIANT TypeOK
INVARIANT ProxiesHaveCode
PROPERTY KeepsPromise
PROPERTY BlindPathWorks
PROPERTY AtomicPathWorks
