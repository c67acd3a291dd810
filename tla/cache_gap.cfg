SPECIFICATION Spec
CONSTANTS
    Views <- MoneyViews
    Mutations <- FlockPurchase
    Overlooked <- NoneLeftOut
    Calls = {c1}
    MaxSends = 1
    MaxForeign = 0
INVARIANTS NoReloadNeeded
CHECK_DEADLOCK FALSE
