SPECIFICATION FairSpec
CONSTANTS
    chromium = chromium
    firefox = firefox
    N = 4
    Group = {chromium, firefox}
    GroupOf <- SecondOther
    Keep = 1
    MaxNow = 3
    Quiet = 2
INVARIANTS TypeOK LastInstallExplained KeptBeside
PROPERTIES EventuallyTrimmed
