SPECIFICATION Spec
CONSTANTS
    lock = lock
    file = file
    cargoLock = cargoLock
    uv = uv
    pip = pip
    N = 1
    Entry = {lock, file}
    LockNames = {lock}
    LockOf <- KnownLocks
    Refreshes = {1}
    Target = {uv}
    TargetOf <- AllUv
    PathVerdict <- AllOk
    Gated = {}
    Apply = TRUE
    MinAge = 0
    LockFresh = 2
    MaxNow = 4
    WorkUntil = 4
    ClockBack = TRUE
    OtherCleans = TRUE
    MayFail = TRUE
PROPERTIES FreshLockDeclined
