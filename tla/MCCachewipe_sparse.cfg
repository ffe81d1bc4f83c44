SPECIFICATION Spec
CONSTANTS
    Names <- MCNames
    Stem <- MCStem
    Numbers <- MCNumbers
    Paths <- MCPaths
    LoginHomes <- MCLogin
    Cwd <- Work
    Now <- MCNow
    Scenes <- SparseScenes
    Enabled = {"docker-desktop-disk", "lima-disk"}
    Installed = {"docker"}
INVARIANTS FreesWhatItCredits
CHECK_DEADLOCK FALSE
