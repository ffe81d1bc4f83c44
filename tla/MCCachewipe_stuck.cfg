SPECIFICATION Spec
CONSTANTS
    Names <- MCNames
    Stem <- MCStem
    Numbers <- MCNumbers
    Paths <- MCPaths
    LoginHomes <- MCLogin
    Cwd <- Work
    Now <- MCNow
    Scenes <- StuckScenes
    Enabled = {"playwright"}
    Installed = {"docker"}
INVARIANTS NewestKept
CHECK_DEADLOCK FALSE
