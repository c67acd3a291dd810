CONSTANTS
    l1 = l1
    l2 = l2
    Lines = {l1}
    CashLines = {}
    Outflow <- OneLine
    Expenses = {e1, e2}
    Requests = {r1, r2}
    Operations = {"create", "link", "unlink", "edit"}
    Amounts = {0, 1, 2}
    SqlSum <- RowSum
    NoLine = NoLine
    NoExpense = NoExpense
    NoRequest = NoRequest
SPECIFICATION Spec
SYMMETRY Symmetry
PROPERTY EditKeepsLink
