SPECIFICATION Spec
CONSTANTS
    lock = lock
    file = file
    cargoLock = cargoLock
    uv = uv
    pip = pip
    N = 3
    Entry = {lock, file}
    LockNames = {lock}
    LockOf <- KnownLocks
    Refreshes = {1}
    Target = {uv, pip}
    TargetOf <- TwoAndOne
    PathVerdict <- AllOk
    Gated = {3}
    Apply = TRUE
    MinAge = 0
    LockFresh = 1
    MaxNow = 1
    WorkUntil = 1
    ClockBack = FALSE
    OtherCleans = TRUE
    MayFail = TRUE
INVARIANTS RemovalsReported TargetReported
PROPERTIES DeletedIsGone ImplementsCleanup
