-------------------------------- MODULE Refunds --------------------------------
(***************************************************************************)
(* Giving the money of a receipt back to budget envelopes: the             *)
(* RefundAllocation rows of apps/banking, one per receipt and budget, with *)
(* the classification of receipts (qualify), the cash counterparts whose   *)
(* amount may be adjusted, and the budgets of apps/budget they credit.     *)
(*                                                                         *)
(* As in Allocation a request is a process, cut where another one can get  *)
(* in: after the view has read the receipt, after the receipt is locked    *)
(* and the credits are checked.  PostgreSQL checks the two foreign keys of *)
(* a credit when the transaction commits.                                  *)
(***************************************************************************)
EXTENDS Integers

CONSTANTS
    Receipts,    \* incoming bank lines (BankTransaction, amount > 0)
    Mirrors,     \* those that are the cash counterpart of a withdrawal
    Budgets,
    Requests,
    NoReceipt,
    NoBudget,
    NoRequest,   \* nobody holds the row lock
    Amounts,     \* what users type; as a credit, 0 stands for none
    Inflow,      \* what each line brings in; for a mirror, the withdrawal's outflow
    Operations,  \* the kinds of request this instance serves
    SqlSum(_, _) \* SqlSum(c, S): the SQL aggregate SUM of c[b] over the rows S

AllOperations ==
    {"receive", "withdraw", "unwithdraw", "adjust", "qualify", "set", "credit",
     "create", "delete", "update"}

ASSUME RefundConstants ==
    /\ Mirrors \subseteq Receipts
    /\ NoReceipt \notin Receipts
    /\ NoBudget \notin Budgets
    /\ NoRequest \notin Requests
    /\ Amounts \subseteq Nat
    /\ 0 \in Amounts
    /\ Inflow \in [Receipts -> Amounts \ {0}]
    /\ Operations \subseteq AllOperations

\* What the code relies on in SUM(amount): it adds up row by row, a budget that
\* is credited 0 counts for no row, and smaller amounts have a smaller sum.
ASSUME CreditSumAssumption ==
    \A c \in [Budgets -> Amounts] : \A S \in SUBSET Budgets :
        /\ SqlSum(c, S) \in Nat
        /\ (\A b \in S : c[b] = 0) => SqlSum(c, S) = 0
        /\ \A b \in Budgets \ S : SqlSum(c, S \cup {b}) = SqlSum(c, S) + c[b]
        /\ \A d \in [Budgets -> Amounts] :
               (\A b \in S : c[b] <= d[b]) => SqlSum(c, S) <= SqlSum(d, S)

VARIABLES
    inflow,    \* inflow[t]: what the line brings in, 0 if there is no such line
    nature,    \* nature[t]: inflow_nature; "" means that nobody looked
    credit,    \* credit[t][b]: amount of the RefundAllocation row, 0 if none
    envelope,  \* envelope[b]: "absent", "named", or "global" (is_global)
    lock,      \* lock[t]: the request whose transaction holds t FOR UPDATE
    pc,        \* pc[r]: how far request r is
    job        \* job[r]: what request r was asked

tables == <<inflow, nature, credit, envelope>>
vars == <<inflow, nature, credit, envelope, lock, pc, job>>

Natures == {"", "refund", "salary"}
NoCredit == [b \in Budgets |-> 0]
NoJob == [op |-> "none", line |-> NoReceipt, budget |-> NoBudget, amt |-> 0,
          split |-> NoCredit, to |-> ""]

Jobs == [op : {"none", "qualify", "set", "credit", "update"},
         line : Receipts \cup {NoReceipt},
         budget : Budgets \cup {NoBudget},
         amt : Amounts,
         split : [Budgets -> Amounts],
         to : Natures \cup {"named", "global"}]

-----------------------------------------------------------------------------
Received(t) == inflow[t] > 0

\* refunded_total(transaction, exclude_budget_id)
RefundedTotal(t, excluded) == SqlSum(credit[t], Budgets \ excluded)

\* Mutant: what the receipt gives to the other envelopes is forgotten.
CreditFitsAlone(t, b, a) == a <= inflow[t]

\* amount <= remaining_to_refund(locked, exclude_budget_id=budget.id)
CreditFits(t, b, a) == a <= inflow[t] - RefundedTotal(t, {b})

\* set_refund_allocations compares the running total with the locked line.
SplitFits(t, split) == SqlSum(split, Budgets) <= inflow[t]

\* _resolve_refund_target: a budget of the household that is not the ceiling.
Creditable(b) == envelope[b] = "named"

\* Mutant: the row is read without FOR UPDATE.
NeverWaits(t) == TRUE

\* SELECT ... FOR UPDATE and UPDATE wait for whoever holds the row.
Unlocked(t) == lock[t] = NoRequest

\* Row ids are UUIDs: nothing in flight remembers a new one.
FreshReceipt(t) == inflow[t] = 0 /\ \A r \in Requests : job[r].line # t
FreshBudget(b) ==
    /\ envelope[b] = "absent"
    /\ \A r \in Requests : job[r].budget # b /\ job[r].split[b] = 0

-----------------------------------------------------------------------------
Init ==
    /\ inflow = [t \in Receipts |-> 0]
    /\ nature = [t \in Receipts |-> ""]
    /\ credit = [t \in Receipts |-> NoCredit]
    /\ envelope = [b \in Budgets |-> "absent"]
    /\ lock = [t \in Receipts |-> NoRequest]
    /\ pc = [r \in Requests |-> "idle"]
    /\ job = [r \in Requests |-> NoJob]

Serve(r, op, at, j) ==
    /\ op \in Operations
    /\ pc[r] = "idle"
    /\ pc' = [pc EXCEPT ![r] = at]
    /\ job' = [job EXCEPT ![r] = j]

\* A request that is one statement.
Single(r, op) ==
    /\ op \in Operations
    /\ pc[r] = "idle"
    /\ UNCHANGED <<lock, pc, job>>

\* The response leaves; the transaction's locks are released.
Finish(r) ==
    /\ pc' = [pc EXCEPT ![r] = "idle"]
    /\ job' = [job EXCEPT ![r] = NoJob]
    /\ lock' = [t \in Receipts |-> IF lock[t] = r THEN NoRequest ELSE lock[t]]

\* A request refused by a validation, or dead: its transaction rolls back.
Abandon(r) ==
    /\ pc[r] # "idle"
    /\ Finish(r)
    /\ UNCHANGED tables

-----------------------------------------------------------------------------
(* Receipts come and go.                                                   *)

\* A line of a statement, with the nature its label suggests, or cash handed
\* over (record_cash_deposit, classified from the start).
Receive(r, t, n) ==
    /\ Single(r, "receive")
    /\ t \notin Mirrors
    /\ FreshReceipt(t)
    /\ inflow' = [inflow EXCEPT ![t] = Inflow[t]]
    /\ nature' = [nature EXCEPT ![t] = n]
    /\ UNCHANGED <<credit, envelope>>

\* record_cash_withdrawal: the counterpart may hold less than the withdrawal.
Withdraw(r, t, a) ==
    /\ Single(r, "withdraw")
    /\ t \in Mirrors
    /\ FreshReceipt(t)
    /\ 0 < a /\ a <= Inflow[t]
    /\ inflow' = [inflow EXCEPT ![t] = a]
    /\ UNCHANGED <<nature, credit, envelope>>

\* unlink_counterpart deletes the counterpart; its credits go with it.
Unwithdraw(r, t) ==
    /\ Single(r, "unwithdraw")
    /\ t \in Mirrors
    /\ Received(t)
    /\ Unlocked(t)
    /\ inflow' = [inflow EXCEPT ![t] = 0]
    /\ nature' = [nature EXCEPT ![t] = ""]
    /\ credit' = [credit EXCEPT ![t] = NoCredit]
    /\ UNCHANGED envelope

\* Mutant: the adjusted amount is written with the sign of the withdrawal.
AdjustSigned(r, t, a) ==
    /\ Single(r, "adjust")
    /\ t \in Mirrors
    /\ Received(t)
    /\ Unlocked(t)
    /\ 0 < a /\ a <= Inflow[t]
    /\ inflow' = [inflow EXCEPT ![t] = -a]
    /\ UNCHANGED <<nature, credit, envelope>>

\* adjust_cash_mirror: the amount is bounded by the withdrawal only.
Adjust(r, t, a) ==
    /\ Single(r, "adjust")
    /\ t \in Mirrors
    /\ Received(t)
    /\ Unlocked(t)
    /\ 0 < a /\ a <= Inflow[t]
    /\ inflow' = [inflow EXCEPT ![t] = a]
    /\ UNCHANGED <<nature, credit, envelope>>

-----------------------------------------------------------------------------
(* PATCH .../qualify/: two statements, each one committed by itself.       *)

\* Mutant: reclassifying leaves the credits.
QualifyDropNothing(r, t, n) ==
    /\ Serve(r, "qualify", "read",
             [NoJob EXCEPT !.op = "qualify", !.line = t, !.to = n])
    /\ Received(t)
    /\ UNCHANGED <<tables, lock>>

\* A receipt that is no longer a refund loses its credits.
QualifyDrop(r, t, n) ==
    /\ Serve(r, "qualify", "read",
             [NoJob EXCEPT !.op = "qualify", !.line = t, !.to = n])
    /\ Received(t)
    /\ credit' = [credit EXCEPT ![t] = IF n = "refund" THEN @ ELSE NoCredit]
    /\ UNCHANGED <<inflow, nature, envelope, lock>>

QualifySave(r) ==
    LET t == job[r].line
    IN  /\ pc[r] = "read"
        /\ job[r].op = "qualify"
        /\ Received(t)
        /\ Unlocked(t)
        /\ nature' = [nature EXCEPT ![t] = job[r].to]
        /\ Finish(r)
        /\ UNCHANGED <<inflow, credit, envelope>>

-----------------------------------------------------------------------------
(* PUT .../refund-allocations/: set_refund_allocations.                    *)

\* The nature is the one the view has read, before the lock.
SetRead(r, t, split) ==
    /\ Serve(r, "set", "read",
             [NoJob EXCEPT !.op = "set", !.line = t, !.split = split])
    /\ Received(t)
    /\ nature[t] = "refund"
    /\ UNCHANGED <<tables, lock>>

SetLock(r) ==
    LET t == job[r].line
        split == job[r].split
    IN  /\ pc[r] = "read"
        /\ job[r].op = "set"
        /\ Received(t)
        /\ Unlocked(t)
        /\ \A b \in Budgets : split[b] > 0 => Creditable(b)
        /\ SplitFits(t, split)
        /\ lock' = [lock EXCEPT ![t] = r]
        /\ pc' = [pc EXCEPT ![r] = "locked"]
        /\ UNCHANGED <<tables, job>>

\* A credit to a budget deleted meanwhile fails when the transaction commits.
SetCommit(r) ==
    LET split == job[r].split
    IN  /\ pc[r] = "locked"
        /\ job[r].op = "set"
        /\ \A b \in Budgets : split[b] > 0 => envelope[b] # "absent"
        /\ credit' = [credit EXCEPT ![job[r].line] = split]
        /\ Finish(r)
        /\ UNCHANGED <<inflow, nature, envelope>>

-----------------------------------------------------------------------------
(* POST .../credit-budget/: credit_budget_from_refund.                     *)

CreditRead(r, t, b, a) ==
    /\ Serve(r, "credit", "read",
             [NoJob EXCEPT !.op = "credit", !.line = t, !.budget = b, !.amt = a])
    /\ Received(t)
    /\ nature[t] \in {"", "refund"}
    /\ Creditable(b)
    /\ UNCHANGED <<tables, lock>>

CreditLock(r) ==
    LET j == job[r]
    IN  /\ pc[r] = "read"
        /\ j.op = "credit"
        /\ Received(j.line)
        /\ Unlocked(j.line)
        /\ j.amt > 0 => CreditFits(j.line, j.budget, j.amt)
        /\ lock' = [lock EXCEPT ![j.line] = r]
        /\ pc' = [pc EXCEPT ![r] = "locked"]
        /\ UNCHANGED <<tables, job>>

\* One envelope is set, the others keep theirs; a receipt nobody classified
\* becomes a refund.
CreditCommit(r) ==
    LET j == job[r]
    IN  /\ pc[r] = "locked"
        /\ j.op = "credit"
        /\ j.amt > 0 => envelope[j.budget] # "absent"
        /\ credit' = [credit EXCEPT ![j.line][j.budget] = j.amt]
        /\ nature' = [nature EXCEPT ![j.line] = IF @ = "" THEN "refund" ELSE @]
        /\ Finish(r)
        /\ UNCHANGED <<inflow, envelope>>

-----------------------------------------------------------------------------
(* The budgets (apps/budget/services.py).                                  *)

\* one_global_budget_per_household.
MayBe(b, kind) == kind = "global" => \A c \in Budgets \ {b} : envelope[c] # "global"

CreateBudget(r, b, kind) ==
    /\ Single(r, "create")
    /\ FreshBudget(b)
    /\ MayBe(b, kind)
    /\ envelope' = [envelope EXCEPT ![b] = kind]
    /\ UNCHANGED <<inflow, nature, credit>>

\* Mutant: the credits of a deleted budget stay.
DeleteBudgetOnly(r, b) ==
    /\ Single(r, "delete")
    /\ envelope[b] # "absent"
    /\ envelope' = [envelope EXCEPT ![b] = "absent"]
    /\ UNCHANGED <<inflow, nature, credit>>

\* delete_budget: the credits to the budget go with it.
DeleteBudget(r, b) ==
    /\ Single(r, "delete")
    /\ envelope[b] # "absent"
    /\ envelope' = [envelope EXCEPT ![b] = "absent"]
    /\ credit' = [t \in Receipts |-> [credit[t] EXCEPT ![b] = 0]]
    /\ UNCHANGED <<inflow, nature>>

\* update_budget: read by the view, saved whole, inserted if gone.
UpdateRead(r, b, kind) ==
    /\ Serve(r, "update", "read",
             [NoJob EXCEPT !.op = "update", !.budget = b, !.to = kind])
    /\ envelope[b] # "absent"
    /\ UNCHANGED <<tables, lock>>

UpdateSave(r) ==
    LET b == job[r].budget
    IN  /\ pc[r] = "read"
        /\ job[r].op = "update"
        /\ MayBe(b, job[r].to)
        /\ envelope' = [envelope EXCEPT ![b] = job[r].to]
        /\ Finish(r)
        /\ UNCHANGED <<inflow, nature, credit>>

-----------------------------------------------------------------------------
Step(r) ==
    \/ \E t \in Receipts, n \in Natures : Receive(r, t, n)
    \/ \E t \in Receipts, a \in Amounts : Withdraw(r, t, a)
    \/ \E t \in Receipts : Unwithdraw(r, t)
    \/ \E t \in Receipts, a \in Amounts : Adjust(r, t, a)
    \/ \E t \in Receipts, n \in Natures : QualifyDrop(r, t, n)
    \/ QualifySave(r)
    \/ \E t \in Receipts, split \in [Budgets -> Amounts] : SetRead(r, t, split)
    \/ SetLock(r)
    \/ SetCommit(r)
    \/ \E t \in Receipts, b \in Budgets, a \in Amounts : CreditRead(r, t, b, a)
    \/ CreditLock(r)
    \/ CreditCommit(r)
    \/ \E b \in Budgets, kind \in {"named", "global"} : CreateBudget(r, b, kind)
    \/ \E b \in Budgets : DeleteBudget(r, b)
    \/ \E b \in Budgets, kind \in {"named", "global"} : UpdateRead(r, b, kind)
    \/ UpdateSave(r)
    \/ Abandon(r)

Next == \E r \in Requests : Step(r)

Spec == Init /\ [][Next]_vars

-----------------------------------------------------------------------------
(* Properties.                                                             *)

TypeOK ==
    /\ inflow \in [Receipts -> Amounts]
    /\ nature \in [Receipts -> Natures]
    /\ credit \in [Receipts -> [Budgets -> Amounts]]
    /\ envelope \in [Budgets -> {"absent", "named", "global"}]
    /\ lock \in [Receipts -> Requests \cup {NoRequest}]
    /\ pc \in [Requests -> {"idle", "read", "locked"}]
    /\ job \in [Requests -> Jobs]

\* A receipt never gives back more than it brought in, whoever credits which
\* envelope at the same time (RefundAllocation; assert_refund_fits).
CreditsFit == \A t \in Receipts : RefundedTotal(t, {}) <= inflow[t]

\* Envelopes are credited only by a receipt classified as a refund; whoever
\* reclassifies it drops its credits (RefundAllocation, qualify).
CreditsOnRefunds ==
    \A t \in Receipts : credit[t] # NoCredit => nature[t] = "refund"

\* A credit goes to an envelope that exists: it does not survive the budget
\* or the line it belongs to (the two CASCADEs of RefundAllocation).
NoOrphanCredit ==
    \A t \in Receipts, b \in Budgets :
        credit[t][b] > 0 => envelope[b] # "absent" /\ Received(t)

\* The global budget is a ceiling, not a category: no receipt credits it
\* (_resolve_refund_target).
CreditsOnEnvelopes ==
    \A t \in Receipts, b \in Budgets : credit[t][b] > 0 => envelope[b] # "global"

-----------------------------------------------------------------------------
(* The inductive invariant behind CreditsFit.                              *)

\* What a request must have been asked to be where it is.
JobShape ==
    \A r \in Requests :
        /\ pc[r] = "idle" => job[r] = NoJob
        /\ job[r].op \in {"qualify", "set", "credit"} => job[r].line \in Receipts
        /\ job[r].op = "qualify" => job[r].to \in Natures
        /\ job[r].op = "credit" => job[r].budget \in Budgets
        /\ job[r].op = "update" =>
             job[r].budget \in Budgets /\ job[r].to \in {"named", "global"}
        /\ pc[r] = "locked" => job[r].op \in {"set", "credit"}

\* A receipt's lock is held by the one request inside its transaction.
LockHeld == \A r \in Requests : pc[r] = "locked" => lock[job[r].line] = r

\* What was checked under the lock is true until the commit: others can only
\* take credits away meanwhile.
CheckHolds ==
    \A r \in Requests : \A t \in Receipts : pc[r] = "locked" /\ job[r].line = t =>
        /\ job[r].op = "set" => SplitFits(t, job[r].split)
        /\ job[r].op = "credit" /\ job[r].amt > 0 =>
             CreditFits(t, job[r].budget, job[r].amt)

RefundInv == LockHeld /\ CheckHolds /\ CreditsFit
===============================================================================
