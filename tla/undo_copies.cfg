SPECIFICATION Spec
CONSTANTS
    Items = {a, b}
    Restore = "append"
    MaxGestures = 2
    MaxWrites = 1
    NoGesture = NoGesture
INVARIANT ShownOnce
CHECK_DEADLOCK FALSE
