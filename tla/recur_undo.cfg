SPECIFICATION UndoSpec
CONSTANTS
    rent = rent
    Recurrences = {rent}
    Lines = {}
    PeriodOf <- NoDates
    Matches = {}
    Requests = {q1}
    Horizon = 3
    MaxRecords = 3
    Movable = {}
    NoLine = NoLine
    NoRecurrence = NoRecurrence
INVARIANT UndoIsExact
