SPECIFICATION Spec
CONSTANTS
    Names <- MCNames
    Stem <- MCStem
    Numbers <- MCNumbers
    Paths <- MCPaths
    LoginHomes <- MCLogin
    Cwd <- Work
    Now <- MCNow
    Scenes <- UndashedScenes
    Enabled = {"playwright"}
    Installed = {"docker"}
INVARIANTS UndashedKept
CHECK_DEADLOCK FALSE
