CONSTANTS
    bank = bank
    cash = cash
    Receipts = {bank, cash}
    Mirrors = {cash}
    Inflow <- BankAndCash
    Budgets = {b1, b2}
    Requests = {r1}
    Operations <- AllOperations
    Amounts = {0, 1, 2}
    SqlSum <- RowSum
    NoReceipt = NoReceipt
    NoBudget = NoBudget
    NoRequest = NoRequest
SPECIFICATION Spec
SYMMETRY BudgetSymmetry
INVARIANTS TypeOK CreditsOnRefunds
