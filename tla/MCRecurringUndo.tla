-------------------------- MODULE MCRecurringUndo ---------------------------
(* One recurrence, confirmed by hand only.                                  *)
EXTENDS RecurringUndo

CONSTANT rent

NoDates == [l \in {} |-> 1]
=============================================================================
