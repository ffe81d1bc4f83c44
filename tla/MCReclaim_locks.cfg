SPECIFICATION Spec
CONSTANTS
    lock = lock
    file = file
    cargoLock = cargoLock
    uv = uv
    pip = pip
    N = 1
    Entry = {lock, file}
    LockNames = {lock}
    LockOf <- KnownLocks
    Refreshes = {1}
    Target = {uv}
    TargetOf <- AllUv
    PathVerdict <- AllOk
    Gated = {}
    Apply = TRUE
    MinAge = 1
    LockFresh = 3
    MaxNow = 5
    WorkUntil = 5
    ClockBack = TRUE
    OtherCleans = TRUE
    MayFail = TRUE
INVARIANTS TypeOK WipeExplained AgeGate
