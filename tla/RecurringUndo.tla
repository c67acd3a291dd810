---------------------------- MODULE RecurringUndo ----------------------------
(* The undo of a confirmation (RecurringPage.tsx): for eight seconds a toast *)
(* offers to delete the expense it created and to put back the date it       *)
(* started from.  The two requests leave together and are independent.       *)
EXTENDS Recurring

VARIABLES
    toasts,     \* the confirmations that can still be undone
    undoing     \* the requests of the undos that were clicked, by kind

undoVars == <<vars, toasts, undoing>>

UndoInit == Init /\ toasts = {} /\ undoing = {}

\* A confirmation that succeeds shows its toast, with the date its card showed:
\* the list is refetched after every confirmation of this screen.
ConfirmWithToast(q) ==
    /\ CommitConfirm(q)
    /\ toasts' = toasts \cup {o \in records' \ records : o.id = made'}
    /\ UNCHANGED undoing

ToastGone(o) ==
    /\ o \in toasts
    /\ toasts' = toasts \ {o}
    /\ UNCHANGED <<vars, undoing>>

ClickUndo(o) ==
    /\ o \in toasts
    /\ toasts' = toasts \ {o}
    /\ undoing' = undoing \cup {[kind |-> k, of |-> o] : k \in {"delete", "restore"}}
    /\ UNCHANGED vars

DeleteExpense(u) ==
    /\ u \in undoing /\ u.kind = "delete"
    /\ records' = records \ {u.of}
    /\ undoing' = undoing \ {u}
    /\ UNCHANGED <<alive, due, made, request, history, toasts>>

RestoreSchedule(u) ==
    /\ u \in undoing /\ u.kind = "restore"
    /\ due' = IF u.of.rec \in alive THEN [due EXCEPT ![u.of.rec] = u.of.period] ELSE due
    /\ undoing' = undoing \ {u}
    /\ UNCHANGED <<alive, records, made, request, history, toasts>>

\* No handler catches the failure of either.
UndoFails(u) ==
    /\ u \in undoing
    /\ undoing' = undoing \ {u}
    /\ UNCHANGED <<vars, toasts>>

OtherNext ==
    \/ \E q \in Requests :
         \/ SubmitForm(q) \/ SaveEdit(q)
         \/ StartMatch(q) \/ PickPair(q) \/ CommitPair(q) \/ EndMatch(q)
         \/ \E r \in Recurrences : ReadConfirm(q, r) \/ OpenForm(q, r)
    \/ \E r \in Recurrences : Delete(r)

UndoNext ==
    \/ OtherNext /\ UNCHANGED <<toasts, undoing>>
    \/ \E q \in Requests : ConfirmWithToast(q)
    \/ \E o \in toasts : ToastGone(o) \/ ClickUndo(o)
    \/ \E u \in undoing : DeleteExpense(u) \/ RestoreSchedule(u) \/ UndoFails(u)

UndoSpec == UndoInit /\ [][UndoNext]_undoVars

\* Once its undos are over, the schedule has not run ahead of the journal ("an
\* exact undo (delete expense + restore next_due_date)", budget/views.py).
UndoIsExact == undoing = {} => NoPeriodSkipped
=============================================================================
