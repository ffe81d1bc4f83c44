SPECIFICATION Spec
CONSTANTS
    Names <- MCNames
    Stem <- MCStem
    Numbers <- MCNumbers
    Paths <- MCPaths
    LoginHomes <- MCLogin
    Cwd <- Root
    Now <- MCNow
    Scenes <- DotScenes
    Enabled = {"node_modules"}
    Installed = {"docker"}
INVARIANTS HomeSurvives
CHECK_DEADLOCK FALSE
