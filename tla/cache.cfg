SPECIFICATION FairSpec
CONSTANTS
    Views <- HookViews
    Mutations <- HookMutations
    Overlooked <- LeftOut
    Calls = {c1, c2}
    MaxSends = 2
    MaxForeign = 1
INVARIANTS NoReloadNeeded
PROPERTY CatchesUp
CHECK_DEADLOCK FALSE
