CONSTANTS
    Lines = {t1, t2, t3}
    Accounts = {bank, pot}
    CashAtStart = {pot}
    Requests = {r1, r2}
    Amounts = {1, 2}
    Operations <- Linking
    NoLine = NoLine
    NoAccount = NoAccount
SPECIFICATION Spec
SYMMETRY Symmetry
INVARIANTS LegsPointBack LegsAreInternal CashWithinWithdrawal
PROPERTIES NoLegStolen
