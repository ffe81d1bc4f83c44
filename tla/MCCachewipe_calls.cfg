SPECIFICATION Spec
CONSTANTS
    Names <- MCNames
    Stem <- MCStem
    Numbers <- MCNumbers
    Paths <- MCPaths
    LoginHomes <- MCLogin
    Cwd <- Work
    Now <- MCNow
    Scenes <- CallScenes
    Enabled = {"uv", "npx", "playwright", "node_modules", "next", "cargo-target", "docker", "homebrew",
               "docker-desktop-disk", "lima-disk"}
    Installed = {"docker"}
INVARIANTS TypeOK AllowlistOnly ActsAsAsked RefusedIntact TotalsHonest PromiseKept
           SecondCallClean OptInAdds PrintedAddsUp RecentSurvives NewestKept
           HomeSurvives StaysInside
PROPERTY ImplementsSweep
CHECK_DEADLOCK FALSE
