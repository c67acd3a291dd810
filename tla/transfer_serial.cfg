CONSTANTS
    Lines = {t1, t2, t3}
    Accounts = {bank, pot}
    CashAtStart = {pot}
    Requests = {r1}
    Amounts = {1, 2}
    Operations <- AllOperations
    NoLine = NoLine
    NoAccount = NoAccount
SPECIFICATION Spec
SYMMETRY LineSymmetry
INVARIANTS TypeOK LegsPointBack CashWithinWithdrawal
PROPERTIES ImportedIsFact
