------------------------------ MODULE Allocation ------------------------------
(***************************************************************************)
(* The split of bank statement lines into expenses (apps/banking and       *)
(* apps/interactions).  An expense is a row of its own that points at the  *)
(* line it is an allocation of; there is no allocation table, so "a line   *)
(* cannot be split for more than it holds" is a fact about several rows    *)
(* that no database constraint states.                                     *)
(*                                                                         *)
(* Every HTTP request is a process.  PostgreSQL runs at READ COMMITTED:    *)
(* what a request read before it took a row lock may be stale when it      *)
(* writes.  A request that only takes one statement is one action; the     *)
(* others are cut where another request can get in: after the read of the  *)
(* instance, after the lock and the checks made under it.  The writes of a *)
(* transaction become visible at once, when it commits.                    *)
(***************************************************************************)
EXTENDS Integers, FiniteSets

CONSTANTS
    Lines,       \* outgoing bank lines (BankTransaction, amount < 0)
    CashLines,   \* those on a cash account, which no statement brought in
    Expenses,    \* ids of expense rows (Interaction, type "expense")
    Requests,    \* HTTP requests being served at the same time
    NoLine,      \* bank_transaction IS NULL
    NoExpense,
    NoRequest,   \* nobody holds the row lock
    Amounts,     \* the amounts users type; 0 stands for a blank amount
    Outflow,     \* outflow of each line: what it took from the account
    Operations,  \* the kinds of request this instance serves
    SqlSum(_, _) \* SqlSum(a, S): the SQL aggregate SUM of a[e] over the rows S

\* Requests that change an attachment only with the line's row locked, or
\* that only ever free money on a line.
LockedOperations ==
    {"create", "delete", "put", "link", "auto", "unlink", "pair", "unpair", "discard"}

\* Requests that write an attachment without the line's row lock.
UnlockedOperations == {"patch", "edit", "recur"}

ASSUME ConstantsAssumption ==
    /\ CashLines \subseteq Lines
    /\ NoLine \notin Lines
    /\ NoExpense \notin Expenses
    /\ NoRequest \notin Requests
    /\ Amounts \subseteq Nat
    /\ 0 \in Amounts
    /\ Outflow \in [Lines -> Amounts \ {0}]
    /\ Operations \subseteq LockedOperations \cup UnlockedOperations

\* What the code relies on in SUM(amount): it depends on the summed rows only
\* and adds up over disjoint sets of rows.
ASSUME SqlSumAssumption ==
    \A a \in [Expenses -> Amounts] : \A S \in SUBSET Expenses :
        /\ SqlSum(a, S) \in Nat
        /\ \A e \in Expenses : SqlSum(a, {e}) = a[e]
        /\ \A T \in SUBSET Expenses :
               S \cap T = {} => SqlSum(a, S \cup T) = SqlSum(a, S) + SqlSum(a, T)
        /\ \A b \in [Expenses -> Amounts] :
               (\A e \in S : a[e] = b[e]) => SqlSum(a, S) = SqlSum(b, S)

VARIABLES
    kind,    \* kind[e]: "absent" (no such row), "bank" (made by the split
             \* editor) or "other" (any other producer)
    amount,  \* amount[e]
    line,    \* line[e]: its bank_transaction
    by,      \* by[e]: reconciled_by
    paired,  \* paired[l]: the line is a leg of an internal movement
             \* (transfer_counterpart is set)
    lock,    \* lock[l]: the request whose transaction holds l FOR UPDATE
    pc,      \* pc[r]: how far request r is
    job      \* job[r]: what request r was asked and what it has read

rows == <<kind, amount, line, by>>
vars == <<kind, amount, line, by, paired, lock, pc, job>>

Zero == [e \in Expenses |-> 0]

NoJob == [op |-> "none", line |-> NoLine, exp |-> NoExpense, kind |-> "absent",
          amt |-> 0, by |-> "", split |-> Zero, doomed |-> {}]

Kinds == {"absent", "bank", "other"}
Markers == {"", "manual", "auto"}

Jobs == [op : {"none", "put", "link", "auto", "unlink", "save", "recur"},
         line : Lines \cup {NoLine},
         exp : Expenses \cup {NoExpense},
         kind : Kinds,
         amt : Amounts,
         by : Markers,
         split : [Expenses -> Amounts],
         doomed : SUBSET Expenses]

-----------------------------------------------------------------------------
(* What the services read.                                                 *)

Exists(e) == kind[e] # "absent"

\* transaction.interactions.all()
On(l) == {e \in Expenses : Exists(e) /\ line[e] = l}

\* allocated_total(transaction)
AllocatedTotal(l) == SqlSum(amount, On(l))

\* Mutant: the amount about to be written is forgotten.
AllocationFitsAsIs(l, extra, excluded) ==
    ~paired[l] /\ SqlSum(amount, On(l) \ excluded) <= Outflow[l]

\* assert_allocation_fits(transaction, extra_amount, exclude_interaction_id)
AllocationFits(l, extra, excluded) ==
    /\ ~paired[l]
    /\ SqlSum(amount, On(l) \ excluded) + extra <= Outflow[l]

\* The rows set_allocations owns: kind in OWNED_BY_ALLOCATION_EDITOR.
OwnedOn(l) == {e \in On(l) : kind[e] = "bank"}

\* Mutant: the row is read without FOR UPDATE.
NeverWaits(l) == TRUE

\* SELECT ... FOR UPDATE returns only when nobody else holds the row; so does
\* the KEY SHARE lock that writing a reference to the row takes.
Unlocked(l) == lock[l] = NoRequest

\* Row ids are UUIDs: an id is new if no row has it and no request in flight
\* remembers it.
Fresh == {e \in Expenses :
            /\ ~Exists(e)
            /\ \A r \in Requests : /\ job[r].exp # e
                                   /\ job[r].split[e] = 0
                                   /\ e \notin job[r].doomed}

-----------------------------------------------------------------------------
Init ==
    /\ kind = [e \in Expenses |-> "absent"]
    /\ amount = Zero
    /\ line = [e \in Expenses |-> NoLine]
    /\ by = [e \in Expenses |-> ""]
    /\ paired = [l \in Lines |-> FALSE]
    /\ lock = [l \in Lines |-> NoRequest]
    /\ pc = [r \in Requests |-> "idle"]
    /\ job = [r \in Requests |-> NoJob]

\* An idle server process takes a request of kind op and stops at step `at`.
Serve(r, op, at, j) ==
    /\ op \in Operations
    /\ pc[r] = "idle"
    /\ pc' = [pc EXCEPT ![r] = at]
    /\ job' = [job EXCEPT ![r] = j]

\* The response leaves; the transaction's locks are released.
Finish(r) ==
    /\ pc' = [pc EXCEPT ![r] = "idle"]
    /\ job' = [job EXCEPT ![r] = NoJob]
    /\ lock' = [l \in Lines |-> IF lock[l] = r THEN NoRequest ELSE lock[l]]

\* A request refused by a validation, or dead: everything rolls back.
Abandon(r) ==
    /\ pc[r] # "idle"
    /\ Finish(r)
    /\ UNCHANGED <<rows, paired>>

WriteRow(e, k, a, l, b) ==
    /\ kind' = [kind EXCEPT ![e] = k]
    /\ amount' = [amount EXCEPT ![e] = a]
    /\ line' = [line EXCEPT ![e] = l]
    /\ by' = [by EXCEPT ![e] = b]

-----------------------------------------------------------------------------
(* One-statement requests.                                                 *)

\* An expense recorded by hand, or by a stock or project purchase.
CreateExpense(r, e, a) ==
    /\ "create" \in Operations
    /\ pc[r] = "idle"
    /\ e \in Fresh
    /\ WriteRow(e, "other", a, NoLine, "")
    /\ UNCHANGED <<paired, lock, pc, job>>

\* DELETE on the expense.
DeleteExpense(r, e) ==
    /\ "delete" \in Operations
    /\ pc[r] = "idle"
    /\ Exists(e)
    /\ WriteRow(e, "absent", 0, NoLine, "")
    /\ UNCHANGED <<paired, lock, pc, job>>

\* record_cash_withdrawal and link_counterpart make l a leg of an internal
\* movement; neither looks at what is allocated on it.
Pair(r, l) ==
    /\ "pair" \in Operations
    /\ pc[r] = "idle"
    /\ ~paired[l]
    /\ Unlocked(l)
    /\ paired' = [paired EXCEPT ![l] = TRUE]
    /\ UNCHANGED <<rows, lock, pc, job>>

\* unlink_counterpart, on an imported line or from the line's own side.
Unpair(r, l) ==
    /\ "unpair" \in Operations
    /\ pc[r] = "idle"
    /\ paired[l]
    /\ Unlocked(l)
    /\ paired' = [paired EXCEPT ![l] = FALSE]
    /\ UNCHANGED <<rows, lock, pc, job>>

\* unlink_counterpart, from the side of the other leg: a line on a cash account
\* that comes from no statement is deleted.  The foreign key of the expenses on
\* it is set to null.  A request in flight on the line can only fail, so it has
\* been abandoned before; afterwards l stands for another, new line.
DiscardLine(r, l) ==
    /\ "discard" \in Operations
    /\ pc[r] = "idle"
    /\ l \in CashLines
    /\ paired[l]
    /\ \A q \in Requests : job[q].line # l
    /\ line' = [e \in Expenses |-> IF line[e] = l THEN NoLine ELSE line[e]]
    /\ paired' = [paired EXCEPT ![l] = FALSE]
    /\ UNCHANGED <<kind, amount, by, lock, pc, job>>

-----------------------------------------------------------------------------
(* PUT .../allocations/: set_allocations.                                  *)

\* split[e] > 0: the request will write a new row e of that amount.
PutCheck(r, l, split) ==
    /\ Serve(r, "put", "locked",
             [NoJob EXCEPT !.op = "put", !.line = l, !.split = split,
                           !.doomed = OwnedOn(l)])
    /\ Unlocked(l)
    /\ lock' = [lock EXCEPT ![l] = r]
    /\ \A e \in Expenses : split[e] > 0 => e \in Fresh
    /\ AllocationFits(l, 0, {})
    /\ SqlSum(split, Expenses) + SqlSum(amount, On(l) \ OwnedOn(l)) <= Outflow[l]
    /\ UNCHANGED <<rows, paired>>

\* Mutant: the rows the editor does not own are detached from the line.
PutCommitDetaching(r) ==
    LET j == job[r]
        new == {e \in Expenses : j.split[e] > 0}
        off == On(j.line) \ (new \cup j.doomed)
    IN  /\ pc[r] = "locked"
        /\ j.op = "put"
        /\ kind' = [e \in Expenses |-> IF e \in new THEN "bank"
                                       ELSE IF e \in j.doomed THEN "absent" ELSE kind[e]]
        /\ amount' = [e \in Expenses |-> IF e \in new THEN j.split[e]
                                         ELSE IF e \in j.doomed THEN 0 ELSE amount[e]]
        /\ line' = [e \in Expenses |-> IF e \in new THEN j.line
                                       ELSE IF e \in j.doomed \cup off THEN NoLine ELSE line[e]]
        /\ by' = [e \in Expenses |-> IF e \in new THEN "manual"
                                     ELSE IF e \in j.doomed \cup off THEN "" ELSE by[e]]
        /\ Finish(r)
        /\ UNCHANGED paired

PutCommit(r) ==
    LET j == job[r]
        new == {e \in Expenses : j.split[e] > 0}
        set(f, gone, fresh) ==
            [e \in Expenses |-> IF e \in new THEN fresh[e]
                                ELSE IF e \in j.doomed THEN gone ELSE f[e]]
    IN  /\ pc[r] = "locked"
        /\ j.op = "put"
        /\ kind' = set(kind, "absent", [e \in Expenses |-> "bank"])
        /\ amount' = set(amount, 0, j.split)
        /\ line' = set(line, NoLine, [e \in Expenses |-> j.line])
        /\ by' = set(by, "", [e \in Expenses |-> "manual"])
        /\ Finish(r)
        /\ UNCHANGED paired

-----------------------------------------------------------------------------
(* POST .../link/ and the automatic reconciliation: link_interaction.      *)

\* The view reads the expense, before any lock.
LinkRead(r, l, e) ==
    /\ Serve(r, "link", "read",
             [NoJob EXCEPT !.op = "link", !.line = l, !.exp = e,
                           !.amt = amount[e], !.by = "manual"])
    /\ Exists(e)
    /\ line[e] # l
    /\ UNCHANGED <<rows, paired, lock>>

\* auto_reconcile picks an empty line and a free expense of the same amount.
AutoPick(r, l, e) ==
    /\ Serve(r, "auto", "picked",
             [NoJob EXCEPT !.op = "auto", !.line = l, !.exp = e, !.by = "auto"])
    /\ ~paired[l]
    /\ On(l) = {}
    /\ Exists(e)
    /\ line[e] = NoLine
    /\ amount[e] = Outflow[l]
    /\ UNCHANGED <<rows, paired, lock>>

\* It reads the expense again just before linking it.
AutoFetch(r) ==
    LET e == job[r].exp
    IN  /\ pc[r] = "picked"
        /\ Exists(e)
        /\ line[e] # job[r].line
        /\ pc' = [pc EXCEPT ![r] = "read"]
        /\ job' = [job EXCEPT ![r].amt = amount[e]]
        /\ UNCHANGED <<rows, paired, lock>>

\* Mutant: the total is checked before the lock is taken.
LinkCheckUnlocked(r) ==
    /\ pc[r] = "read"
    /\ job[r].op \in {"link", "auto"}
    /\ AllocationFits(job[r].line, job[r].amt, {})
    /\ pc' = [pc EXCEPT ![r] = "locked"]
    /\ UNCHANGED <<rows, paired, lock, job>>

\* Under the lock, the line's total is read afresh but the expense's amount
\* is the one read earlier.
LinkCheck(r) ==
    LET l == job[r].line
    IN  /\ pc[r] = "read"
        /\ job[r].op \in {"link", "auto"}
        /\ Unlocked(l)
        /\ AllocationFits(l, job[r].amt, {})
        /\ lock' = [lock EXCEPT ![l] = r]
        /\ pc' = [pc EXCEPT ![r] = "locked"]
        /\ UNCHANGED <<rows, paired, job>>

\* save(update_fields=...) on a row deleted meanwhile raises.
LinkCommit(r) ==
    LET j == job[r]
    IN  /\ pc[r] = "locked"
        /\ j.op \in {"link", "auto"}
        /\ Exists(j.exp)
        /\ line' = [line EXCEPT ![j.exp] = j.line]
        /\ by' = [by EXCEPT ![j.exp] = j.by]
        /\ Finish(r)
        /\ UNCHANGED <<kind, amount, paired>>

-----------------------------------------------------------------------------
(* DELETE .../unlink/{id}/: unlink_interaction.                            *)

UnlinkRead(r, e) ==
    /\ Serve(r, "unlink", "read", [NoJob EXCEPT !.op = "unlink", !.exp = e])
    /\ Exists(e)
    /\ line[e] # NoLine
    /\ UNCHANGED <<rows, paired, lock>>

\* Mutant: the link is nulled and the marker left.
UnlinkSaveOnly(r) ==
    /\ pc[r] = "read"
    /\ job[r].op = "unlink"
    /\ Exists(job[r].exp)
    /\ line' = [line EXCEPT ![job[r].exp] = NoLine]
    /\ Finish(r)
    /\ UNCHANGED <<kind, amount, by, paired>>

UnlinkSave(r) ==
    LET e == job[r].exp
    IN  /\ pc[r] = "read"
        /\ job[r].op = "unlink"
        /\ Exists(e)
        /\ line' = [line EXCEPT ![e] = NoLine]
        /\ by' = [by EXCEPT ![e] = ""]
        /\ Finish(r)
        /\ UNCHANGED <<kind, amount, paired>>

-----------------------------------------------------------------------------
(* PATCH on the expense: InteractionSerializer, which takes no lock.       *)

\* The instance as read: every column of it will be written back.
Loaded(e, a) == [NoJob EXCEPT !.op = "save", !.exp = e, !.kind = kind[e],
                              !.amt = a, !.line = line[e], !.by = by[e]]

\* With an amount in the body, _validate_allocation_still_fits.
PatchRead(r, e, a) ==
    /\ Serve(r, "patch", "read", Loaded(e, a))
    /\ Exists(e)
    /\ line[e] # NoLine => AllocationFits(line[e], a, {e})
    /\ UNCHANGED <<rows, paired, lock>>

\* Without one, nothing is checked.
EditRead(r, e) ==
    /\ Serve(r, "edit", "read", Loaded(e, amount[e]))
    /\ Exists(e)
    /\ UNCHANGED <<rows, paired, lock>>

\* instance.save() updates all columns, and inserts the row if it is gone.
\* Only a changed reference to a line waits for that line's lock.
PatchSave(r) ==
    LET j == job[r]
    IN  /\ pc[r] = "read"
        /\ j.op = "save"
        /\ \A l \in Lines \ {line[j.exp]} : j.line = l => Unlocked(l)
        /\ WriteRow(j.exp, j.kind, j.amt, j.line, j.by)
        /\ Finish(r)
        /\ UNCHANGED paired

-----------------------------------------------------------------------------
(* match_recurrences: a due recurrence confirmed by a statement line.      *)

\* The line is empty and not internal; the check is made without the lock.
RecurCheck(r, l) ==
    /\ Serve(r, "recur", "read", [NoJob EXCEPT !.op = "recur", !.line = l])
    /\ On(l) = {}
    /\ AllocationFits(l, Outflow[l], {})
    /\ UNCHANGED <<rows, paired, lock>>

\* Mutant: the occurrence takes the line's signed amount.
RecurCommitSigned(r, e) ==
    /\ pc[r] = "read"
    /\ job[r].op = "recur"
    /\ Unlocked(job[r].line)
    /\ e \in Fresh
    /\ WriteRow(e, "other", -Outflow[job[r].line], job[r].line, "auto")
    /\ Finish(r)
    /\ UNCHANGED paired

RecurCommit(r, e) ==
    LET l == job[r].line
    IN  /\ pc[r] = "read"
        /\ job[r].op = "recur"
        /\ Unlocked(l)
        /\ e \in Fresh
        /\ WriteRow(e, "other", Outflow[l], l, "auto")
        /\ Finish(r)
        /\ UNCHANGED paired

-----------------------------------------------------------------------------
Step(r) ==
    \/ \E e \in Expenses, a \in Amounts : CreateExpense(r, e, a)
    \/ \E e \in Expenses : DeleteExpense(r, e)
    \/ \E l \in Lines : Pair(r, l)
    \/ \E l \in Lines : Unpair(r, l)
    \/ \E l \in Lines : DiscardLine(r, l)
    \/ \E l \in Lines, split \in [Expenses -> Amounts] : PutCheck(r, l, split)
    \/ PutCommit(r)
    \/ \E l \in Lines, e \in Expenses : LinkRead(r, l, e)
    \/ \E l \in Lines, e \in Expenses : AutoPick(r, l, e)
    \/ AutoFetch(r)
    \/ LinkCheck(r)
    \/ LinkCommit(r)
    \/ \E e \in Expenses : UnlinkRead(r, e)
    \/ UnlinkSave(r)
    \/ \E e \in Expenses, a \in Amounts : PatchRead(r, e, a)
    \/ \E e \in Expenses : EditRead(r, e)
    \/ PatchSave(r)
    \/ \E l \in Lines : RecurCheck(r, l)
    \/ \E e \in Expenses : RecurCommit(r, e)
    \/ Abandon(r)

Next == \E r \in Requests : Step(r)

Spec == Init /\ [][Next]_vars

-----------------------------------------------------------------------------
(* Properties.                                                             *)

\* Every variable has its type, and an absent row is blank.
TypeOK ==
    /\ kind \in [Expenses -> Kinds]
    /\ amount \in [Expenses -> Amounts]
    /\ line \in [Expenses -> Lines \cup {NoLine}]
    /\ by \in [Expenses -> Markers]
    /\ paired \in [Lines -> BOOLEAN]
    /\ lock \in [Lines -> Requests \cup {NoRequest}]
    /\ pc \in [Requests -> {"idle", "picked", "read", "locked"}]
    /\ job \in [Requests -> Jobs]

\* A bank line is never split for more than it holds (banking/validators.py).
AllocationsFit == \A l \in Lines : AllocatedTotal(l) <= Outflow[l]

\* reconciled_by is filled in exactly on the expenses attached to a line: a
\* marker with nothing to point at confuses the matcher (delete_transaction).
MarkerAgrees == \A e \in Expenses : (line[e] = NoLine) <=> (by[e] = "")

\* An internal movement carries no allocation: its money is counted once,
\* when the cash it fed is spent (assert_allocation_fits).
InternalNotAllocated == \A l \in Lines : paired[l] => On(l) = {}

\* Request r commits in this step.
Commits(r, op) == pc[r] = "locked" /\ job[r].op = op /\ pc'[r] = "idle" /\ rows' # rows

\* Saving a split leaves on the line exactly the rows of that split and the
\* ones the editor does not own: no row of an earlier split survives as a
\* phantom, and nothing the editor does not own is detached, changed or lost.
SplitReplaces ==
    [][\A r \in Requests, l \in Lines :
         Commits(r, "put") /\ job[r].line = l =>
         /\ OwnedOn(l)' = {e \in Expenses : job[r].split[e] > 0}
         /\ \A e \in Expenses : kind[e] = "other" =>
              <<kind'[e], amount'[e], line'[e], by'[e]>>
                  = <<kind[e], amount[e], line[e], by[e]>>]_vars

\* The link to a bank line belongs to allocate, link and unlink: an edit of
\* the expense leaves it alone (InteractionSerializer.Meta.read_only_fields).
EditKeepsLink ==
    [][\A r \in Requests :
         (pc[r] = "read" /\ job[r].op = "save" /\ pc'[r] = "idle")
             => line' = line]_vars

\* The automatic pass pairs a line and an expense that are both still free:
\* it never takes an expense off the line it is attached to.
AutoTakesFreeOnly ==
    [][\A r \in Requests : Commits(r, "auto") =>
         line[job[r].exp] \in {NoLine, job[r].line}]_vars

-----------------------------------------------------------------------------
(* The inductive invariants behind the theorems of AllocationProofs.       *)

\* What a request must have read to be where it is.
JobShape ==
    \A r \in Requests :
        /\ pc[r] = "idle" => job[r] = NoJob
        /\ pc[r] = "picked" =>
             /\ job[r].op = "auto"
             /\ job[r].line \in Lines
             /\ job[r].exp \in Expenses
        /\ pc[r] \in {"read", "locked"} =>
             /\ job[r].op \in {"put", "link", "auto", "recur"} => job[r].line \in Lines
             /\ job[r].op \in {"link", "auto", "unlink", "save"} => job[r].exp \in Expenses
        /\ pc[r] = "locked" => job[r].op \in {"put", "link", "auto"}

\* A row lock is held by the one request that is inside its transaction.
LockHeld ==
    /\ \A r \in Requests : pc[r] = "locked" => lock[job[r].line] = r
    /\ \A l \in Lines : ~Unlocked(l) =>
         pc[lock[l]] = "locked" /\ job[lock[l]].line = l

\* The rows a split will insert exist nowhere yet, and are nobody else's.
RowsReserved ==
    \A r \in Requests, e \in Expenses : job[r].split[e] > 0 =>
        /\ ~Exists(e)
        /\ \A q \in Requests : /\ job[q].exp # e
                               /\ q # r => job[q].split[e] = 0

\* The amount a link was checked with is still the expense's amount.
AmountCurrent ==
    \A r \in Requests :
        pc[r] \in {"read", "locked"} /\ job[r].op \in {"link", "auto"} =>
            (Exists(job[r].exp) => amount[job[r].exp] = job[r].amt)

\* What was checked under the lock stays true until the commit.
CheckHolds ==
    \A r \in Requests : \A l \in Lines : pc[r] = "locked" /\ job[r].line = l =>
        /\ job[r].op = "put" =>
             /\ OwnedOn(l) \subseteq job[r].doomed
             /\ SqlSum(job[r].split, Expenses) + SqlSum(amount, On(l) \ OwnedOn(l))
                    <= Outflow[l]
        /\ job[r].op \in {"link", "auto"} =>
             AllocatedTotal(l) + job[r].amt <= Outflow[l]

NoUnlockedWriter == \A r \in Requests : job[r].op \notin {"save", "recur"}

\* The bound on every line, and what each locked writer has established: the
\* inductive form of AllocationsFit when every writer of an attachment locks
\* the line.
LockedInv ==
    /\ LockHeld
    /\ RowsReserved
    /\ AmountCurrent
    /\ CheckHolds
    /\ NoUnlockedWriter
    /\ AllocationsFit

\* The inductive form of MarkerAgrees: no request is about to write a marker
\* without a line or a line without a marker.
MarkerInv ==
    /\ MarkerAgrees
    /\ \A r \in Requests :
         /\ job[r].op = "save" => ((job[r].line = NoLine) <=> (job[r].by = ""))
         /\ job[r].op \in {"link", "auto"} => job[r].by # ""
===============================================================================
