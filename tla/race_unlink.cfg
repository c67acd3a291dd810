CONSTANTS
    Lines = {t1, t2, t3}
    Accounts = {bank, pot}
    CashAtStart = {pot}
    Requests = {r1, r2}
    Amounts = {1}
    Operations = {"import", "link", "unlink"}
    NoLine = NoLine
    NoAccount = NoAccount
SPECIFICATION Spec
SYMMETRY Symmetry
INVARIANT LegsPointBack
CHECK_DEADLOCK FALSE
