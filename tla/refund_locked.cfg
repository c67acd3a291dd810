CONSTANTS
    bank = bank
    cash = cash
    Receipts = {bank, cash}
    Mirrors = {cash}
    Inflow <- BankAndCoin
    Budgets = {b1, b2}
    Requests = {r1, r2}
    Operations <- Unadjusted
    Amounts = {0, 1, 2}
    SqlSum <- RowSum
    NoReceipt = NoReceipt
    NoBudget = NoBudget
    NoRequest = NoRequest
SPECIFICATION Spec
SYMMETRY Symmetry
INVARIANTS CreditsFit RefundInv NoOrphanCredit
