CONSTANTS
    bank = bank
    cash = cash
    Receipts = {bank}
    Mirrors = {}
    Inflow <- OneReceipt
    Budgets = {b1, b2}
    Requests = {r1, r2}
    Operations = {"receive", "qualify", "set", "create"}
    Amounts = {0, 1, 2}
    SqlSum <- RowSum
    NoReceipt = NoReceipt
    NoBudget = NoBudget
    NoRequest = NoRequest
SPECIFICATION Spec
SYMMETRY Symmetry
INVARIANT CreditsOnRefunds
