------------------------------ MODULE MCRefunds -------------------------------
(* Model checking of Refunds: the aggregate SUM and the receipts' amounts. *)
EXTENDS Refunds, TLC
LOCAL INSTANCE Functions

CONSTANTS bank, cash

RowSum(c, S) == SumFunctionOnSet(c, S)

OneReceipt == bank :> 2
OneMirror == cash :> 2
BankAndCash == bank :> 2 @@ cash :> 2
BankAndCoin == bank :> 2 @@ cash :> 1

Unadjusted == AllOperations \ {"adjust"}

BudgetSymmetry == Permutations(Budgets)

Symmetry == BudgetSymmetry \cup Permutations(Requests)
===============================================================================
