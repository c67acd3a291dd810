SPECIFICATION ShopSpec
CONSTANTS
    Items = {a, b}
    Restore = "append"
    MaxGestures = 2
    MaxWrites = 0
    NoGesture = NoGesture
INVARIANT UndoneIsKept
CHECK_DEADLOCK FALSE
