SPECIFICATION FairSpec
CONSTANTS
    lock = lock
    file = file
    cargoLock = cargoLock
    uv = uv
    pip = pip
    N = 1
    Entry = {lock, file}
    LockNames = {lock}
    LockOf <- KnownLocks
    Refreshes = {1}
    Target = {uv}
    TargetOf <- AllUv
    PathVerdict <- AllOk
    Gated = {}
    Apply = TRUE
    MinAge = 2
    LockFresh = 3
    MaxNow = 5
    WorkUntil = 2
    ClockBack = FALSE
    OtherCleans = TRUE
    MayFail = FALSE
PROPERTIES EventuallyReclaimed EveryRunEnds
