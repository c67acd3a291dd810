----------------------------- MODULE MCAllocation -----------------------------
(* Model checking of Allocation: the aggregate SUM and the line amounts.   *)
EXTENDS Allocation, TLC
LOCAL INSTANCE Functions

CONSTANTS l1, l2

RowSum(a, S) == SumFunctionOnSet(a, S)

OneLine == l1 :> 2
TwoLines == l1 :> 2 @@ l2 :> 1

AllOperations == LockedOperations \cup UnlockedOperations

SplitOperations == LockedOperations \ {"pair", "unpair", "discard"}

SerialSymmetry == Permutations(Expenses)

Symmetry == SerialSymmetry \cup Permutations(Requests)
===============================================================================
