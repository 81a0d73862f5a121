CONSTANTS
    w1 = w1
    Wallets = {w1}
    StaleAfter = 1
    Skew = 1
    MayFail = TRUE
    MaxNow = 3
    MaxCrashes = 2
SPECIFICATION FairSpec
INVARIANTS TypeOK LogFollowsRow RowStandsUntilLogged
PROPERTIES FirstQualificationKept StaleIsDemoted
