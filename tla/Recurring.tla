------------------------------ MODULE Recurring ------------------------------
(* Recurring expenses: the occurrences a household confirms by hand          *)
(* (budget/services.py, RecurringPage.tsx), those a statement confirms       *)
(* (match_recurrences in banking/matching.py), the edits and deletions of    *)
(* the schedule.  Requests run side by side and nothing locks a recurrence.  *)
(* A date is the number of its period: the cadence adds one, a user who sets  *)
(* the date picks the date of a period, and a line is near one due date only  *)
(* (its window is shorter than the shortest cadence).                         *)
EXTENDS Naturals, FiniteSets

CONSTANTS
    Recurrences,
    Lines,          \* outgoing statement lines, each booked on a day of its own
    PeriodOf,       \* [line -> the due date it is booked within ten days of]
    Matches,        \* pairs <<recurrence, line>> of equal amount and close label
    Requests,
    Horizon,        \* bound: the last due date a schedule reaches
    MaxRecords,     \* bound: occurrences ever recorded
    Movable,        \* bound: the pairs <<recurrence, period>> users type in the dialog
    NoLine, NoRecurrence

ASSUME RecurringConstants ==
    /\ Horizon \in Nat \ {0} /\ MaxRecords \in Nat
    /\ PeriodOf \in [Lines -> Nat \ {0}]
    /\ Matches \subseteq Recurrences \X Lines
    /\ Movable \subseteq Recurrences \X Nat
    /\ NoLine \notin Lines /\ NoRecurrence \notin Recurrences

VARIABLES
    alive,      \* the recurrences that exist
    due,        \* next_due_date
    records,    \* the expenses recorded as occurrences
    made,       \* how many occurrences were recorded
    request,    \* the requests, and the dialogs, in progress
    overlapped, \* history: somebody worked on a date that was no longer the date
    waived,     \* history: the periods a user moved the date past, by hand
    reopened    \* history: the periods a user moved the date back over

history == <<overlapped, waived, reopened>>
rows == <<alive, due, records, made>>
vars == <<rows, request, history>>

Periods == 1 .. Horizon

Occurrences == [id : 1 .. MaxRecords, rec : Recurrences, period : Periods,
                line : Lines \cup {NoLine}, day : Lines \cup {NoLine}]

Idle == [op |-> "none", rec |-> NoRecurrence, seen |-> [r \in Recurrences |-> 0],
         free |-> {}, line |-> NoLine, date |-> 0]

RequestStates == [op : {"none", "confirm", "form", "edit", "match", "commit"},
                  rec : Recurrences \cup {NoRecurrence},
                  seen : [Recurrences -> 0 .. Horizon],
                  free : SUBSET Lines, line : Lines \cup {NoLine},
                  date : 0 .. Horizon]   \* the date the dialog sends

TypeOK ==
    /\ alive \subseteq Recurrences
    /\ due \in [Recurrences -> Periods]
    /\ records \subseteq Occurrences
    /\ made \in 0 .. MaxRecords
    /\ request \in [Requests -> RequestStates]
    /\ overlapped \in BOOLEAN
    /\ waived \in [Recurrences -> SUBSET Periods]
    /\ reopened \in [Recurrences -> SUBSET Periods]

Init ==
    /\ alive = Recurrences
    /\ due = [r \in Recurrences |-> 1]
    /\ records = {} /\ made = 0
    /\ request = [q \in Requests |-> Idle]
    /\ overlapped = FALSE
    /\ waived = [r \in Recurrences |-> {}]
    /\ reopened = [r \in Recurrences |-> {}]

-----------------------------------------------------------------------------
Become(q, state) == request' = [request EXCEPT ![q] = state]

\* What a request reads of some schedules: 0 for a row that is not there.
Reading(some) == [r \in Recurrences |-> IF r \in alive \cap some THEN due[r] ELSE 0]

\* A write is disturbed when the date it starts from is not the date any more.
Disturbed(q, r) == overlapped' = (overlapped \/ request[q].seen[r] # due[r])

\* Mutant of Advanced: catch_up_due_date in the place of advance_due_date.
AdvancedToLast(date) == IF date + 2 <= Horizon THEN date + 2 ELSE date + 1

\* advance_due_date, in periods.
Advanced(date) == date + 1

\* Mutant of NextDue: the occurrence is recorded and the schedule left.
NextDueKept(r, date) == due

NextDue(r, date) == [due EXCEPT ![r] = Advanced(date)]

\* One transaction: the expense, its back-reference, and the date of the
\* instance in memory plus one cadence.  No look at today's date, at the
\* occurrences there are, or at the date the row holds now.
Confirm(q, r, line, day) ==
    LET date == request[q].seen[r] IN
    /\ made < MaxRecords /\ date < Horizon
    /\ made' = made + 1
    /\ records' = records \cup {[id |-> made + 1, rec |-> r, period |-> date,
                                 line |-> line, day |-> day]}
    /\ due' = NextDue(r, date)
    /\ Disturbed(q, r)
    /\ UNCHANGED <<waived, reopened>>

\* The row is gone: save(update_fields=...) fails and the transaction with it.
Rollback == UNCHANGED <<due, records, made, history>>

-----------------------------------------------------------------------------
(* By hand: POST recurring/{id}/confirm/. *)

ReadConfirm(q, r) ==
    /\ request[q].op = "none" /\ r \in alive
    /\ Become(q, [Idle EXCEPT !.op = "confirm", !.rec = r, !.seen = Reading({r})])
    /\ UNCHANGED <<rows, history>>

\* occurred_at is today, which may be the day a line was booked on.
CommitConfirm(q) ==
    LET r == request[q].rec IN
    /\ request[q].op = "confirm"
    /\ IF r \in alive
       THEN \E day \in {l \in Lines : <<r, l>> \in Matches} \cup {NoLine} : Confirm(q, r, NoLine, day)
       ELSE Rollback
    /\ Become(q, Idle)
    /\ UNCHANGED alive

-----------------------------------------------------------------------------
(* The dialog sends every field back: the next due date too, the one it was    *)
(* opened with or the one typed in its date field.  The server reads the row,  *)
(* takes any date, then saves all of the columns.                              *)

OpenForm(q, r) ==
    /\ request[q].op = "none" /\ r \in alive
    /\ Become(q, [Idle EXCEPT !.op = "form", !.rec = r, !.seen = Reading({r})])
    /\ UNCHANGED <<rows, history>>

Typed(r, shown) == {shown} \cup {p \in Periods : <<r, p>> \in Movable}

SubmitForm(q) ==
    LET r == request[q].rec IN
    /\ request[q].op = "form"
    /\ \/ /\ r \in alive
          /\ \E date \in Typed(r, request[q].seen[r]) :
               Become(q, [request[q] EXCEPT !.op = "edit", !.date = date])
       \/ r \notin alive /\ Become(q, Idle)
    /\ UNCHANGED <<rows, history>>

\* save() without update_fields inserts the row again if it was deleted.
SaveEdit(q) ==
    LET r == request[q].rec
        shown == request[q].seen[r]
        date == request[q].date
    IN
    /\ request[q].op = "edit"
    /\ due' = [due EXCEPT ![r] = date]
    /\ alive' = alive \cup {r}
    /\ Disturbed(q, r)
    /\ waived' = [waived EXCEPT ![r] = @ \cup (shown .. date - 1)]
    /\ reopened' = [reopened EXCEPT ![r] = @ \cup (date .. shown - 1)]
    /\ Become(q, Idle)
    /\ UNCHANGED <<records, made>>

Delete(r) ==
    /\ r \in alive
    /\ alive' = alive \ {r}
    /\ UNCHANGED <<due, records, made, request, history>>

-----------------------------------------------------------------------------
(* By the statement: match_recurrences reads the free lines and the schedules *)
(* once, then confirms pair by pair, each in a transaction of its own.        *)

Free == {l \in Lines : \A o \in records : o.line # l}

StartMatch(q) ==
    /\ request[q].op = "none"
    /\ Become(q, [Idle EXCEPT !.op = "match", !.seen = Reading(Recurrences), !.free = Free])
    /\ UNCHANGED <<rows, history>>

\* The pairs left to the greedy assignment: in the window of the date read.
Pairs(q) == {p \in Matches : /\ request[q].seen[p[1]] = PeriodOf[p[2]]
                             /\ p[2] \in request[q].free}

\* A recurrence is taken once per pass, whether it is confirmed or skipped.
Taken(q, r) == [request[q] EXCEPT !.seen[r] = 0]

\* "already": an occurrence of it on the day the line was booked.
Already(r, line) == \E o \in records : o.rec = r /\ o.day = line

\* assert_allocation_fits refuses a line that is spoken for, which ends the
\* request; it sums without a lock, so a line taken after the sum is not seen.
PickPair(q) ==
    /\ request[q].op = "match"
    /\ \E p \in Pairs(q) :
         \/ Already(p[1], p[2]) /\ Become(q, Taken(q, p[1]))
         \/ ~Already(p[1], p[2]) /\ p[2] \notin Free /\ Become(q, Idle)
         \/ /\ ~Already(p[1], p[2]) /\ p[2] \in Free
            /\ Become(q, [request[q] EXCEPT !.op = "commit", !.rec = p[1], !.line = p[2]])
    /\ UNCHANGED <<rows, history>>

CommitPair(q) ==
    LET r == request[q].rec
        l == request[q].line
    IN
    /\ request[q].op = "commit"
    /\ IF r \in alive
       THEN /\ Confirm(q, r, l, l)
            /\ Become(q, [Idle EXCEPT !.op = "match", !.seen = Taken(q, r).seen,
                                      !.free = request[q].free \ {l}])
       ELSE Rollback /\ Become(q, Idle)
    /\ UNCHANGED alive

EndMatch(q) ==
    /\ request[q].op = "match" /\ Pairs(q) = {}
    /\ Become(q, Idle)
    /\ UNCHANGED <<rows, history>>

-----------------------------------------------------------------------------
Next ==
    \/ \E q \in Requests :
         \/ CommitConfirm(q) \/ SubmitForm(q) \/ SaveEdit(q)
         \/ StartMatch(q) \/ PickPair(q) \/ CommitPair(q) \/ EndMatch(q)
         \/ \E r \in Recurrences : ReadConfirm(q, r) \/ OpenForm(q, r)
    \/ \E r \in Recurrences : Delete(r)

Spec == Init /\ [][Next]_vars

-----------------------------------------------------------------------------
(* Properties. *)

Recorded(r, p) == \E o \in records : o.rec = r /\ o.period = p

\* However requests and dialogs overlap, the schedule never runs ahead of the
\* journal on its own: every due date before the next one has its occurrence, or
\* a user moved the date past it in the dialog.  Nothing owed drops out of the due
\* list and of the projection by a confirmation, a statement or a stale save.
NoPeriodSkipped ==
    \A r \in Recurrences : \A p \in 1 .. due[r] - 1 : Recorded(r, p) \/ p \in waived[r]

SamePeriod(o, p) == o.id # p.id /\ o.rec = p.rec /\ o.period = p.period

\* A due date recorded twice is the work of a stale date, or of a user who moved
\* the date back over it: as long as every write started from the date the row
\* held, hand and statement together record only those due dates twice which the
\* dialog brought back ("keeps a re-import from double-confirming", matching.py).
OnlyStaleDatesRepeat ==
    ~overlapped =>
        \A o, p \in records : SamePeriod(o, p) => o.period \in reopened[o.rec]

\* Not so with two requests: in the instance of recur.cfg a statement and a user
\* confirm the same due date, which nobody brought back.
OnePerPeriod ==
    \A o, p \in records : SamePeriod(o, p) => o.period \in reopened[o.rec]

\* A deleted schedule stays deleted.  In the instance of recur.cfg the save of an
\* edit inserts it again.
DeletedStaysDeleted == [][alive' \subseteq alive]_vars
=============================================================================
