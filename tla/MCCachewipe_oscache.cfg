SPECIFICATION Spec
CONSTANTS
    Names <- MCNames
    Stem <- MCStem
    Numbers <- MCNumbers
    Paths <- MCPaths
    LoginHomes <- MCLogin
    Cwd <- Work
    Now <- MCNow
    Scenes <- GoogleScenes
    Enabled = {"chrome-cache", "node_modules"}
    Installed = {"docker"}
INVARIANTS OptInOnly
CHECK_DEADLOCK FALSE
