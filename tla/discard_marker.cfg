CONSTANTS
    l1 = l1
    l2 = l2
    Lines = {l1}
    CashLines = {l1}
    Outflow <- OneLine
    Expenses = {e1, e2}
    Requests = {r1}
    Operations = {"put", "link", "create", "pair", "discard"}
    Amounts = {0, 1, 2}
    SqlSum <- RowSum
    NoLine = NoLine
    NoExpense = NoExpense
    NoRequest = NoRequest
SPECIFICATION Spec
SYMMETRY SerialSymmetry
INVARIANT MarkerAgrees
