SPECIFICATION Spec
SYMMETRY Symmetry
CONSTANTS
    rent = rent
    phone = phone
    l1 = l1
    l2 = l2
    Recurrences = {rent, phone}
    Lines = {l1, l2}
    PeriodOf <- Booked
    Matches <- SameAmount
    Requests = {q1, q2}
    Horizon = 3
    MaxRecords = 2
    Movable <- FirstOrLast
    NoLine = NoLine
    NoRecurrence = NoRecurrence
INVARIANTS NoPeriodSkipped OnlyStaleDatesRepeat
