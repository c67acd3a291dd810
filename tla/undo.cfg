SPECIFICATION FairSpec
CONSTANTS
    Items = {a, b}
    Restore = "hide"
    MaxGestures = 4
    MaxWrites = 2
    NoGesture = NoGesture
INVARIANTS TypeOK UndoneIsKept LeavingIsHidden CanBeUndone
PROPERTY Settles
CHECK_DEADLOCK FALSE
