\* Every way three contracts may fit, alone and sharing creation code.
SPECIFICATION Spec
CHECK_DEADLOCK FALSE
CONSTANTS
    factory = factory
    library = library
    engine = engine
    Contracts <- Order
    MaxRuns = 7
    Sizes <- Fitting
    Currents = {3, 8}
    Selections <- Chosen
    Groups <- Shared
INVARIANT TypeOK
INVARIANT Bracketed
INVARIANT Recommended
PROPERTY Terminates
