SPECIFICATION Spec
CONSTANTS
    Name = {1, 2}
    MaxDepth = 3
    MaxCands = 3
    Path <- MCPath
    Before <- MCBefore
    Inside <- MCInside
    Candidate <- MCCandidate
    PathOf <- MCPathOf
    Inputs <- MCInputs
INVARIANTS TypeOK KeptIsOutermost KeptCoversOnce LastDecides FirstTargetWins
PROPERTIES ImplementsOutermost
CHECK_DEADLOCK FALSE
