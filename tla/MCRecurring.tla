---------------------------- MODULE MCRecurring -----------------------------
(* Two recurrences of the same amount, one of which matches both lines: the *)
(* first line is near the first due date, the second near the next one.     *)
EXTENDS Recurring, TLC

CONSTANTS rent, phone, l1, l2

Booked == l1 :> 1 @@ l2 :> 2
SameAmount == {<<rent, l1>>, <<rent, l2>>, <<phone, l1>>}
\* Users move the rent to the first or the last due date.
FirstOrLast == {<<rent, 1>>, <<rent, 3>>}
Symmetry == Permutations(Requests)
=============================================================================
