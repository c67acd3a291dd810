CONSTANTS
    Lines = {t1, t2}
    Accounts = {bank, pot}
    CashAtStart = {pot}
    Requests = {r1}
    Amounts = {1}
    Operations <- Unqualified
    NoLine = NoLine
    NoAccount = NoAccount
SPECIFICATION Spec
SYMMETRY LineSymmetry
INVARIANT LegsOnTwoAccounts
