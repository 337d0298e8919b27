\* One pool that the admin and two builders lock over and over, with a
\* dispatch in flight.
SPECIFICATION FairSpec
CHECK_DEADLOCK FALSE
CONSTANTS
    Pools = {p}
    Codes = {code}
    NoCode = noCode
    Builders = {ann, ben}
    NoAdmin = noAdmin
    Engine = engine
    UnlockDelay = 2
    LockOn = 3
    NoUnlock = noUnlock
    Idle = idle
    Shocks = {0, 3}
    MaxOpen = 1
    MaxFees = 1
INVARIANT TypeOK
INVARIANT PendingOnlyWhileLocked
PROPERTY AdminLockHolds
PROPERTY UnlockGoesThrough
