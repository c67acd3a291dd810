CONSTANTS
    l1 = l1
    l2 = l2
    Lines = {l1, l2}
    CashLines = {l2}
    Outflow <- TwoLines
    Expenses = {e1, e2, e3}
    Requests = {r1, r2}
    Operations <- SplitOperations
    Amounts = {0, 1, 2}
    SqlSum <- RowSum
    NoLine = NoLine
    NoExpense = NoExpense
    NoRequest = NoRequest
SPECIFICATION Spec
SYMMETRY Symmetry
INVARIANTS LockedInv MarkerAgrees
PROPERTIES SplitReplaces
