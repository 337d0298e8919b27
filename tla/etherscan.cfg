\* Both scripts, run again and again against an explorer that limits them.
SPECIFICATION Spec
CHECK_DEADLOCK FALSE
CONSTANTS
    proxy = proxy
    engine = engine
    factory = factory
    twin = twin
    other = other
    Contracts <- Order
    Selections <- Chosen
    Metadata = {factory}
    Packaged = TRUE
    Known = TRUE
    Twins <- SameCode
    Mismatched = {engine}
    ApiTries = 2
    MaxPolls = 2
INVARIANT TypeOK
INVARIANT ExitZeroMeansVerified
PROPERTY EveryRunEnds
PROPERTY EventuallyVerified
