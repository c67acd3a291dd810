----------------------------- MODULE RefundProofs -----------------------------
(***************************************************************************)
(* The bound on the credits of a receipt, for any number of receipts,      *)
(* budgets, requests and amounts.                                          *)
(***************************************************************************)
EXTENDS Refunds, TLAPS

(***************************************************************************)
(* Type correctness.                                                       *)
(***************************************************************************)

\* What a request starts from.
LEMMA NoJobIsJob ==
    /\ NoJob \in Jobs
    /\ NoCredit \in [Budgets -> Amounts]
    /\ NoJob.op = "none"
  BY RefundConstants DEF NoJob, NoCredit, Jobs, Natures

\* The types, and what a request must have been asked to be where it is.
TypeInv == TypeOK /\ JobShape

\* The initial state is typed.
LEMMA InitTypeInv == Init => TypeInv
<1>. SUFFICES ASSUME Init PROVE TypeInv
  OBVIOUS
<1>1. inflow \in [Receipts -> Amounts] /\ nature \in [Receipts -> Natures]
  BY RefundConstants DEF Init, Natures
<1>2. /\ credit \in [Receipts -> [Budgets -> Amounts]]
      /\ job \in [Requests -> Jobs]
  BY NoJobIsJob DEF Init
<1>3. /\ envelope \in [Budgets -> {"absent", "named", "global"}]
      /\ lock \in [Receipts -> Requests \cup {NoRequest}]
      /\ pc \in [Requests -> {"idle", "read", "locked"}]
  BY DEF Init
<1>4. JobShape
  BY NoJobIsJob DEF Init, JobShape
<1>. QED
  BY <1>1, <1>2, <1>3, <1>4 DEF TypeInv, TypeOK

\* A request that ends, or is one statement, keeps its part of the types.
LEMMA FinishType ==
    ASSUME TypeInv, NEW r \in Requests, Finish(r)
    PROVE  /\ lock' \in [Receipts -> Requests \cup {NoRequest}]
           /\ pc' \in [Requests -> {"idle", "read", "locked"}]
           /\ job' \in [Requests -> Jobs]
           /\ JobShape'
<1>1. /\ lock' \in [Receipts -> Requests \cup {NoRequest}]
      /\ pc' \in [Requests -> {"idle", "read", "locked"}]
      /\ job' \in [Requests -> Jobs]
  BY NoJobIsJob DEF TypeInv, TypeOK, Finish
<1>2. \A q \in Requests : IF q = r THEN pc'[q] = "idle" /\ job'[q] = NoJob
                          ELSE pc'[q] = pc[q] /\ job'[q] = job[q]
  BY DEF TypeInv, TypeOK, Finish
<1>3. JobShape'
  BY <1>2, NoJobIsJob DEF TypeInv, JobShape
<1>. QED
  BY <1>1, <1>3

\* So does the acceptance of a request.
LEMMA ServeType ==
    ASSUME TypeInv, NEW r \in Requests, NEW op, NEW j \in Jobs,
           Serve(r, op, "read", j),
           j.op \in {"qualify", "set", "credit"} => j.line \in Receipts,
           j.op = "qualify" => j.to \in Natures,
           j.op = "credit" => j.budget \in Budgets,
           j.op = "update" => j.budget \in Budgets /\ j.to \in {"named", "global"}
    PROVE  /\ pc' \in [Requests -> {"idle", "read", "locked"}]
           /\ job' \in [Requests -> Jobs]
           /\ JobShape'
<1>1. /\ pc' \in [Requests -> {"idle", "read", "locked"}]
      /\ job' \in [Requests -> Jobs]
  BY DEF TypeInv, TypeOK, Serve
<1>2. \A q \in Requests : IF q = r THEN pc'[q] = "read" /\ job'[q] = j
                          ELSE pc'[q] = pc[q] /\ job'[q] = job[q]
  BY DEF TypeInv, TypeOK, Serve
<1>3. JobShape'
  BY <1>2 DEF TypeInv, JobShape
<1>. QED
  BY <1>1, <1>3

\* One step of one request keeps the types.
LEMMA StepTypeInv ==
    ASSUME TypeInv, NEW r \in Requests, Step(r)
    PROVE  TypeInv'
<1>. USE DEF TypeInv
<1>1. ASSUME NEW t \in Receipts, NEW n \in Natures, Receive(r, t, n)
      PROVE  TypeInv'
  BY <1>1, RefundConstants DEF Receive, Single, TypeOK, JobShape
<1>2. ASSUME NEW t \in Receipts, NEW a \in Amounts, Withdraw(r, t, a)
      PROVE  TypeInv'
  BY <1>2 DEF Withdraw, Single, TypeOK, JobShape
<1>3. ASSUME NEW t \in Receipts, Unwithdraw(r, t)
      PROVE  TypeInv'
  BY <1>3, NoJobIsJob, RefundConstants DEF Unwithdraw, Single, TypeOK, JobShape, Natures
<1>4. ASSUME NEW t \in Receipts, NEW a \in Amounts, Adjust(r, t, a)
      PROVE  TypeInv'
  BY <1>4 DEF Adjust, Single, TypeOK, JobShape
<1>5. ASSUME NEW t \in Receipts, NEW n \in Natures, QualifyDrop(r, t, n)
      PROVE  TypeInv'
  <2>. DEFINE j == [NoJob EXCEPT !.op = "qualify", !.line = t, !.to = n]
  <2>1. j \in Jobs /\ j.op = "qualify" /\ j.line = t /\ j.to = n
    BY NoJobIsJob DEF Jobs, NoJob
  <2>. HIDE DEF j
  <2>2. Serve(r, "qualify", "read", j)
    BY <1>5 DEF QualifyDrop, j
  <2>3. /\ pc' \in [Requests -> {"idle", "read", "locked"}]
        /\ job' \in [Requests -> Jobs]
        /\ JobShape'
    BY <2>1, <2>2, ServeType
  <2>4. credit' \in [Receipts -> [Budgets -> Amounts]]
    BY <1>5, NoJobIsJob DEF QualifyDrop, TypeOK
  <2>. QED
    BY <1>5, <2>3, <2>4 DEF QualifyDrop, TypeOK
<1>6. CASE QualifySave(r)
  <2>1. nature' \in [Receipts -> Natures]
    BY <1>6 DEF QualifySave, TypeOK, JobShape
  <2>2. Finish(r) /\ UNCHANGED <<inflow, credit, envelope>>
    BY <1>6 DEF QualifySave
  <2>. QED
    BY <2>1, <2>2, FinishType DEF TypeOK
<1>7. ASSUME NEW t \in Receipts, NEW split \in [Budgets -> Amounts], SetRead(r, t, split)
      PROVE  TypeInv'
  <2>. DEFINE j == [NoJob EXCEPT !.op = "set", !.line = t, !.split = split]
  <2>1. j \in Jobs /\ j.op = "set" /\ j.line = t
    BY NoJobIsJob DEF Jobs, NoJob
  <2>. HIDE DEF j
  <2>2. Serve(r, "set", "read", j) /\ UNCHANGED <<tables, lock>>
    BY <1>7 DEF SetRead, j
  <2>3. /\ pc' \in [Requests -> {"idle", "read", "locked"}]
        /\ job' \in [Requests -> Jobs]
        /\ JobShape'
    BY <2>1, <2>2, ServeType
  <2>. QED
    BY <2>2, <2>3 DEF tables, TypeOK
<1>8. CASE SetLock(r)
  BY <1>8 DEF SetLock, TypeOK, JobShape, tables
<1>9. CASE SetCommit(r)
  <2>1. credit' \in [Receipts -> [Budgets -> Amounts]]
    BY <1>9 DEF SetCommit, TypeOK, JobShape, Jobs
  <2>2. Finish(r) /\ UNCHANGED <<inflow, nature, envelope>>
    BY <1>9 DEF SetCommit
  <2>. QED
    BY <2>1, <2>2, FinishType DEF TypeOK
<1>10. ASSUME NEW t \in Receipts, NEW b \in Budgets, NEW a \in Amounts,
              CreditRead(r, t, b, a)
       PROVE  TypeInv'
  <2>. DEFINE j == [NoJob EXCEPT !.op = "credit", !.line = t, !.budget = b, !.amt = a]
  <2>1. j \in Jobs /\ j.op = "credit" /\ j.line = t /\ j.budget = b
    BY NoJobIsJob DEF Jobs, NoJob
  <2>. HIDE DEF j
  <2>2. Serve(r, "credit", "read", j) /\ UNCHANGED <<tables, lock>>
    BY <1>10 DEF CreditRead, j
  <2>3. /\ pc' \in [Requests -> {"idle", "read", "locked"}]
        /\ job' \in [Requests -> Jobs]
        /\ JobShape'
    BY <2>1, <2>2, ServeType
  <2>. QED
    BY <2>2, <2>3 DEF tables, TypeOK
<1>11. CASE CreditLock(r)
  BY <1>11 DEF CreditLock, TypeOK, JobShape, tables
<1>12. CASE CreditCommit(r)
  <2>1. /\ job[r].line \in Receipts
        /\ job[r].budget \in Budgets
        /\ job[r].amt \in Amounts
    BY <1>12 DEF CreditCommit, TypeOK, JobShape, Jobs
  <2>2. credit' \in [Receipts -> [Budgets -> Amounts]]
    BY <1>12, <2>1 DEF CreditCommit, TypeOK
  <2>3. nature' \in [Receipts -> Natures]
    BY <1>12, <2>1 DEF CreditCommit, TypeOK, Natures
  <2>4. Finish(r) /\ UNCHANGED <<inflow, envelope>>
    BY <1>12 DEF CreditCommit
  <2>. QED
    BY <2>2, <2>3, <2>4, FinishType DEF TypeOK
<1>13. ASSUME NEW b \in Budgets, NEW kind \in {"named", "global"},
              CreateBudget(r, b, kind)
       PROVE  TypeInv'
  BY <1>13 DEF CreateBudget, Single, TypeOK, JobShape
<1>14. ASSUME NEW b \in Budgets, DeleteBudget(r, b)
       PROVE  TypeInv'
  BY <1>14, RefundConstants DEF DeleteBudget, Single, TypeOK, JobShape
<1>15. ASSUME NEW b \in Budgets, NEW kind \in {"named", "global"},
              UpdateRead(r, b, kind)
       PROVE  TypeInv'
  <2>. DEFINE j == [NoJob EXCEPT !.op = "update", !.budget = b, !.to = kind]
  <2>1. j \in Jobs /\ j.op = "update" /\ j.budget = b /\ j.to = kind
    BY NoJobIsJob DEF Jobs, NoJob
  <2>. HIDE DEF j
  <2>2. Serve(r, "update", "read", j) /\ UNCHANGED <<tables, lock>>
    BY <1>15 DEF UpdateRead, j
  <2>3. /\ pc' \in [Requests -> {"idle", "read", "locked"}]
        /\ job' \in [Requests -> Jobs]
        /\ JobShape'
    BY <2>1, <2>2, ServeType
  <2>. QED
    BY <2>2, <2>3 DEF tables, TypeOK
<1>16. CASE UpdateSave(r)
  <2>1. envelope' \in [Budgets -> {"absent", "named", "global"}]
    BY <1>16 DEF UpdateSave, TypeOK, JobShape
  <2>2. Finish(r) /\ UNCHANGED <<inflow, nature, credit>>
    BY <1>16 DEF UpdateSave
  <2>. QED
    BY <2>1, <2>2, FinishType DEF TypeOK
<1>17. CASE Abandon(r)
  BY <1>17, FinishType DEF Abandon, TypeOK, tables
<1>. QED
  BY <1>1, <1>2, <1>3, <1>4, <1>5, <1>6, <1>7, <1>8, <1>9, <1>10, <1>11, <1>12,
     <1>13, <1>14, <1>15, <1>16, <1>17 DEF Step

\* No step, and no stutter, breaks the types.
LEMMA NextTypeInv == TypeInv /\ [Next]_vars => TypeInv'
<1>1. TypeInv /\ Next => TypeInv'
  BY StepTypeInv DEF Next
<1>2. TypeInv /\ UNCHANGED vars => TypeInv'
  BY DEF vars, TypeInv, TypeOK, JobShape
<1>. QED
  BY <1>1, <1>2

\* Every variable keeps its type, whatever the requests.
THEOREM TypeCorrect == Spec => []TypeOK
<1>1. TypeInv => TypeOK
  BY DEF TypeInv
<1>. QED
  BY <1>1, InitTypeInv, NextTypeInv, PTL DEF Spec

(***************************************************************************)
(* The bound on the credits of a receipt.                                  *)
(***************************************************************************)

\* The sum of smaller credits, over all budgets or all but one.
LEMMA SumMonotone ==
    ASSUME NEW c \in [Budgets -> Amounts], NEW d \in [Budgets -> Amounts],
           NEW S \in SUBSET Budgets, \A b \in S : d[b] <= c[b]
    PROVE  SqlSum(d, S) <= SqlSum(c, S) /\ SqlSum(d, S) \in Nat /\ SqlSum(c, S) \in Nat
  BY CreditSumAssumption

\* The sum of a receipt's credits once one of them is replaced.
LEMMA SumReplaced ==
    ASSUME NEW c \in [Budgets -> Amounts], NEW b \in Budgets, NEW a \in Amounts
    PROVE  SqlSum([c EXCEPT ![b] = a], Budgets) = SqlSum(c, Budgets \ {b}) + a
<1>. DEFINE d == [c EXCEPT ![b] = a]
            S == Budgets \ {b}
<1>1. /\ d \in [Budgets -> Amounts]
      /\ S \in SUBSET Budgets
      /\ b \in Budgets \ S
      /\ S \cup {b} = Budgets
      /\ d[b] = a
      /\ \A x \in S : d[x] = c[x] /\ c[x] \in Nat
  BY RefundConstants
<1>. HIDE DEF d, S
<1>2. SqlSum(d, S \cup {b}) = SqlSum(d, S) + d[b]
  BY <1>1, CreditSumAssumption
<1>3. \A x \in S : d[x] <= c[x] /\ c[x] <= d[x]
  BY <1>1
<1>4. SqlSum(d, S) <= SqlSum(c, S) /\ SqlSum(c, S) <= SqlSum(d, S)
      /\ SqlSum(d, S) \in Nat /\ SqlSum(c, S) \in Nat
  BY <1>1, <1>3, SumMonotone
<1>5. SqlSum(d, S) = SqlSum(c, S)
  BY <1>4
<1>6. SqlSum(d, Budgets) = SqlSum(c, S) + a
  BY <1>1, <1>2, <1>5
<1>. QED
  BY <1>6 DEF d, S

\* Request r is the one inside a transaction on receipt t.
Inside(r, t) == pc[r] = "locked" /\ job[r].line = t

\* The line stays what it is, and every envelope keeps at most its credit.
OnlyShrinks(t) ==
    /\ inflow'[t] = inflow[t]
    /\ \A b \in Budgets : credit'[t][b] <= credit[t][b]

\* A line that appears or disappears is in nobody's transaction, and carries
\* no more than it brings in.
ComesOrGoes(t) ==
    /\ \A q \in Requests : ~Inside(q, t)
    /\ SqlSum(credit'[t], Budgets) <= inflow'[t]

\* The commit of a split or of a credit, checked under the lock.
Committed(r, t) ==
    /\ Inside(r, t)
    /\ inflow'[t] = inflow[t]
    /\ SqlSum(credit'[t], Budgets) <= inflow[t]

\* A receipt whose row does not exist carries no credit to speak of.
LEMMA NoLineNoCredit ==
    ASSUME TypeInv, CreditsFit, NEW t \in Receipts, inflow[t] = 0, NEW a \in Nat
    PROVE  SqlSum(credit[t], Budgets) <= a
<1>1. Budgets \ {} = Budgets
  OBVIOUS
<1>2. SqlSum(credit[t], Budgets) <= 0
  BY <1>1 DEF CreditsFit, RefundedTotal
<1>3. SqlSum(credit[t], Budgets) \in Nat
  BY CreditSumAssumption DEF TypeInv, TypeOK
<1>. QED
  BY <1>2, <1>3

\* All a step can do to a receipt.
LEMMA StepEffect ==
    ASSUME TypeInv, RefundInv, NEW r \in Requests, Step(r), "adjust" \notin Operations,
           NEW t \in Receipts
    PROVE  OnlyShrinks(t) \/ ComesOrGoes(t) \/ Committed(r, t)
<1>. USE DEF RefundInv
<1>1. /\ credit[t] \in [Budgets -> Amounts]
      /\ \A b \in Budgets : credit[t][b] \in Nat
      /\ inflow[t] \in Nat
  <2>1. credit[t] \in [Budgets -> Amounts] /\ inflow[t] \in Amounts
    BY DEF TypeInv, TypeOK
  <2>2. Amounts \subseteq Nat
    BY RefundConstants
  <2>. QED
    BY <2>1, <2>2
<1>2. ASSUME UNCHANGED <<inflow, credit>> PROVE OnlyShrinks(t)
  BY <1>1, <1>2 DEF OnlyShrinks
<1>3. ASSUME NEW u \in Receipts, NEW n \in Natures, Receive(r, u, n)
      PROVE  OnlyShrinks(t) \/ ComesOrGoes(t)
  <2>1. CASE t # u
    BY <1>1, <1>3, <2>1 DEF Receive, OnlyShrinks, TypeInv, TypeOK
  <2>2. CASE t = u
    <3>1. inflow[t] = 0 /\ \A q \in Requests : ~Inside(q, t)
      BY <1>3, <2>2 DEF Receive, FreshReceipt, Inside
    <3>2. inflow'[t] \in Nat /\ credit'[t] = credit[t]
      BY <1>3, <2>2, RefundConstants DEF Receive, TypeInv, TypeOK
    <3>. QED
      BY <3>1, <3>2, NoLineNoCredit DEF ComesOrGoes
  <2>. QED
    BY <2>1, <2>2
<1>4. ASSUME NEW u \in Receipts, NEW a \in Amounts, Withdraw(r, u, a)
      PROVE  OnlyShrinks(t) \/ ComesOrGoes(t)
  <2>1. CASE t # u
    BY <1>1, <1>4, <2>1 DEF Withdraw, OnlyShrinks, TypeInv, TypeOK
  <2>2. CASE t = u
    <3>1. inflow[t] = 0 /\ \A q \in Requests : ~Inside(q, t)
      BY <1>4, <2>2 DEF Withdraw, FreshReceipt, Inside
    <3>2. inflow'[t] \in Nat /\ credit'[t] = credit[t]
      BY <1>4, <2>2, RefundConstants DEF Withdraw, TypeInv, TypeOK
    <3>. QED
      BY <3>1, <3>2, NoLineNoCredit DEF ComesOrGoes
  <2>. QED
    BY <2>1, <2>2
<1>5. ASSUME NEW u \in Receipts, Unwithdraw(r, u)
      PROVE  OnlyShrinks(t) \/ ComesOrGoes(t)
  <2>1. CASE t # u
    <3>1. inflow'[t] = inflow[t] /\ credit'[t] = credit[t]
      BY <1>5, <2>1 DEF Unwithdraw, TypeInv, TypeOK
    <3>. QED
      BY <1>1, <3>1 DEF OnlyShrinks
  <2>2. CASE t = u
    <3>1. \A q \in Requests : ~Inside(q, t)
      BY <1>5, <2>2, RefundConstants DEF Unwithdraw, Unlocked, LockHeld, Inside
    <3>2. inflow'[t] = 0 /\ credit'[t] = NoCredit
      BY <1>5, <2>2 DEF Unwithdraw, TypeInv, TypeOK
    <3>3. SqlSum(NoCredit, Budgets) = 0
      <4>1. \A b \in Budgets : NoCredit[b] = 0
        BY DEF NoCredit
      <4>. QED
        BY <4>1, NoJobIsJob, CreditSumAssumption
    <3>. QED
      BY <3>1, <3>2, <3>3 DEF ComesOrGoes
  <2>. QED
    BY <2>1, <2>2
<1>6. ASSUME NEW u \in Receipts, NEW n \in Natures, QualifyDrop(r, u, n)
      PROVE  OnlyShrinks(t)
  <2>1. inflow'[t] = inflow[t] /\ credit'[t] \in {credit[t], NoCredit}
    BY <1>6 DEF QualifyDrop, TypeInv, TypeOK
  <2>. QED
    BY <1>1, <2>1 DEF OnlyShrinks, NoCredit
<1>7. CASE SetCommit(r)
  <2>. DEFINE u == job[r].line
  <2>1. /\ Inside(r, u)
        /\ job[r].op = "set"
        /\ inflow' = inflow
        /\ credit' = [credit EXCEPT ![u] = job[r].split]
    BY <1>7 DEF SetCommit, Inside
  <2>2. CASE t # u
    BY <1>1, <2>1, <2>2 DEF OnlyShrinks, TypeInv, TypeOK
  <2>3. CASE t = u
    <3>1. SplitFits(t, job[r].split)
      BY <2>1, <2>3 DEF CheckHolds, Inside
    <3>2. credit'[t] = job[r].split
      BY <2>1, <2>3 DEF TypeInv, TypeOK
    <3>. QED
      BY <2>1, <2>3, <3>1, <3>2 DEF Committed, SplitFits
  <2>. QED
    BY <2>2, <2>3
<1>8. CASE CreditCommit(r)
  <2>. DEFINE u == job[r].line
              b == job[r].budget
              a == job[r].amt
  <2>1. /\ Inside(r, u)
        /\ job[r].op = "credit"
        /\ inflow' = inflow
        /\ credit' = [credit EXCEPT ![u][b] = a]
        /\ b \in Budgets
        /\ a \in Amounts
        /\ a \in Nat
    BY <1>8, RefundConstants DEF CreditCommit, Inside, TypeInv, TypeOK, JobShape, Jobs
  <2>2. CASE t # u
    BY <1>1, <2>1, <2>2 DEF OnlyShrinks, TypeInv, TypeOK
  <2>3. CASE t = u
    <3>1. credit'[t] = [credit[t] EXCEPT ![b] = a]
      BY <2>1, <2>3 DEF TypeInv, TypeOK
    <3>2. CASE a = 0
      <4>1. \A x \in Budgets : credit'[t][x] <= credit[t][x]
        BY <1>1, <2>1, <3>1, <3>2
      <4>. QED
        BY <2>1, <4>1 DEF OnlyShrinks
    <3>3. CASE a > 0
      <4>1. a <= inflow[t] - SqlSum(credit[t], Budgets \ {b})
        BY <2>1, <2>3, <3>3 DEF CheckHolds, Inside, CreditFits, RefundedTotal
      <4>2. SqlSum(credit[t], Budgets \ {b}) \in Nat
        BY <1>1, CreditSumAssumption
      <4>3. SqlSum(credit'[t], Budgets) = SqlSum(credit[t], Budgets \ {b}) + a
        BY <1>1, <2>1, <3>1, SumReplaced
      <4>4. SqlSum(credit'[t], Budgets) <= inflow[t]
        BY <1>1, <2>1, <4>1, <4>2, <4>3
      <4>. QED
        BY <2>1, <2>3, <4>4 DEF Committed
    <3>. QED
      BY <2>1, <3>2, <3>3
  <2>. QED
    BY <2>2, <2>3
<1>9. ASSUME NEW b \in Budgets, DeleteBudget(r, b)
      PROVE  OnlyShrinks(t)
  <2>1. inflow'[t] = inflow[t] /\ credit'[t] = [credit[t] EXCEPT ![b] = 0]
    BY <1>9 DEF DeleteBudget
  <2>. QED
    BY <1>1, <2>1 DEF OnlyShrinks
<1>10. ASSUME NEW u \in Receipts, NEW a \in Amounts, Adjust(r, u, a)
       PROVE  FALSE
  BY <1>10 DEF Adjust, Single
<1>11. \/ UNCHANGED <<inflow, credit>>
       \/ \E u \in Receipts, n \in Natures : Receive(r, u, n)
       \/ \E u \in Receipts, a \in Amounts : Withdraw(r, u, a)
       \/ \E u \in Receipts : Unwithdraw(r, u)
       \/ \E u \in Receipts, n \in Natures : QualifyDrop(r, u, n)
       \/ SetCommit(r)
       \/ CreditCommit(r)
       \/ \E b \in Budgets : DeleteBudget(r, b)
       \/ \E u \in Receipts, a \in Amounts : Adjust(r, u, a)
  BY DEF Step, QualifySave, SetRead, SetLock, CreditRead, CreditLock, CreateBudget,
         UpdateRead, UpdateSave, Abandon, tables
<1>. QED
  BY <1>2, <1>3, <1>4, <1>5, <1>6, <1>7, <1>8, <1>9, <1>10, <1>11

\* Who is inside a transaction on which receipt, after a step of request r:
\* the others stay where they are, and r gets in only through its check.
LEMMA StepInside ==
    ASSUME TypeInv, NEW r \in Requests, Step(r)
    PROVE  /\ \A q \in Requests \ {r} : pc'[q] = pc[q] /\ job'[q] = job[q]
           /\ \A q \in Requests \ {r}, t \in Receipts : lock[t] = q => lock'[t] = q
           /\ pc'[r] = "locked" =>
                /\ UNCHANGED <<inflow, credit, job>>
                /\ lock'[job[r].line] = r
                /\ job[r].op = "set" => SplitFits(job[r].line, job[r].split)
                /\ job[r].op = "credit" /\ job[r].amt > 0 =>
                     CreditFits(job[r].line, job[r].budget, job[r].amt)
<1>. USE DEF TypeInv, TypeOK
<1>2. ASSUME Finish(r)
      PROVE  /\ \A q \in Requests \ {r} : pc'[q] = pc[q] /\ job'[q] = job[q]
             /\ \A q \in Requests \ {r}, t \in Receipts : lock[t] = q => lock'[t] = q
             /\ pc'[r] = "idle"
  BY <1>2 DEF Finish
<1>3. ASSUME NEW op, NEW j, Serve(r, op, "read", j), UNCHANGED lock
      PROVE  /\ \A q \in Requests \ {r} : pc'[q] = pc[q] /\ job'[q] = job[q]
             /\ \A q \in Requests \ {r}, t \in Receipts : lock[t] = q => lock'[t] = q
             /\ pc'[r] = "read"
  BY <1>3 DEF Serve
<1>4. CASE SetLock(r) \/ CreditLock(r)
  <2>1. /\ job[r].line \in Receipts
        /\ Unlocked(job[r].line)
        /\ lock' = [lock EXCEPT ![job[r].line] = r]
        /\ pc' = [pc EXCEPT ![r] = "locked"]
        /\ UNCHANGED <<inflow, credit, job>>
    BY <1>4 DEF SetLock, CreditLock, tables, JobShape
  <2>2. \A q \in Requests \ {r}, t \in Receipts : lock[t] = q => lock'[t] = q
    BY <2>1, RefundConstants DEF Unlocked
  <2>3. /\ job[r].op = "set" => SplitFits(job[r].line, job[r].split)
        /\ job[r].op = "credit" /\ job[r].amt > 0 =>
             CreditFits(job[r].line, job[r].budget, job[r].amt)
    BY <1>4 DEF SetLock, CreditLock
  <2>. QED
    BY <2>1, <2>2, <2>3
<1>5. \/ \E op : Single(r, op)
      \/ Finish(r)
      \/ \E op, j : Serve(r, op, "read", j) /\ UNCHANGED lock
      \/ SetLock(r) \/ CreditLock(r)
  BY DEF Step, Receive, Withdraw, Unwithdraw, Adjust, QualifyDrop, QualifySave, SetRead,
         SetCommit, CreditRead, CreditCommit, CreateBudget, DeleteBudget, UpdateRead,
         UpdateSave, Abandon
<1>6. CASE \E op : Single(r, op)
  BY <1>6 DEF Single
<1>7. CASE Finish(r)
  BY <1>2, <1>7
<1>8. CASE \E op, j : Serve(r, op, "read", j) /\ UNCHANGED lock
  BY <1>3, <1>8
<1>. QED
  BY <1>4, <1>5, <1>6, <1>7, <1>8

\* A lock stays with the request that took it, whatever the others do.
LEMMA LocksStay ==
    ASSUME TypeInv, LockHeld, NEW r \in Requests, Step(r)
    PROVE  LockHeld'
<1>. SUFFICES ASSUME NEW q \in Requests, pc'[q] = "locked"
              PROVE  lock'[job'[q].line] = q
  BY DEF LockHeld
<1>1. CASE q = r
  BY <1>1, StepInside
<1>2. CASE q # r
  <2>1. pc[q] = "locked" /\ job'[q] = job[q]
    BY <1>2, StepInside
  <2>2. job[q].line \in Receipts
    BY <2>1 DEF TypeInv, JobShape
  <2>3. lock[job[q].line] = q
    BY <2>1 DEF LockHeld
  <2>. QED
    BY <1>2, <2>1, <2>2, <2>3, StepInside
<1>. QED
  BY <1>1, <1>2

\* The invariant behind the bound is inductive.
LEMMA NextRefundInv ==
    ASSUME TypeInv, TypeInv', RefundInv, Next, "adjust" \notin Operations
    PROVE  RefundInv'
<1>. PICK r \in Requests : Step(r)
  BY DEF Next
<1>1. \A t \in Receipts : OnlyShrinks(t) \/ ComesOrGoes(t) \/ Committed(r, t)
  BY StepEffect
<1>2. /\ \A q \in Requests \ {r} : pc'[q] = pc[q] /\ job'[q] = job[q]
      /\ \A q \in Requests \ {r}, t \in Receipts : lock[t] = q => lock'[t] = q
      /\ pc'[r] = "locked" =>
           /\ UNCHANGED <<inflow, credit, job>>
           /\ lock'[job[r].line] = r
           /\ job[r].op = "set" => SplitFits(job[r].line, job[r].split)
           /\ job[r].op = "credit" /\ job[r].amt > 0 =>
                CreditFits(job[r].line, job[r].budget, job[r].amt)
  BY StepInside
<1>3. /\ inflow \in [Receipts -> Nat]
      /\ inflow' \in [Receipts -> Nat]
      /\ credit \in [Receipts -> [Budgets -> Amounts]]
      /\ credit' \in [Receipts -> [Budgets -> Amounts]]
  BY RefundConstants DEF TypeInv, TypeOK
<1>4. LockHeld'
  BY LocksStay DEF RefundInv
<1>5. CreditsFit'
  <2>. SUFFICES ASSUME NEW t \in Receipts
                PROVE  SqlSum(credit'[t], Budgets) <= inflow'[t]
    <3>1. Budgets \ {} = Budgets
      OBVIOUS
    <3>. QED
      BY <3>1 DEF CreditsFit, RefundedTotal
  <2>1. CASE OnlyShrinks(t)
    <3>1. SqlSum(credit[t], Budgets) <= inflow[t]
      <4>1. Budgets \ {} = Budgets
        OBVIOUS
      <4>. QED
        BY <4>1 DEF RefundInv, CreditsFit, RefundedTotal
    <3>2. /\ SqlSum(credit'[t], Budgets) <= SqlSum(credit[t], Budgets)
          /\ SqlSum(credit'[t], Budgets) \in Nat
          /\ SqlSum(credit[t], Budgets) \in Nat
      BY <1>3, <2>1, SumMonotone DEF OnlyShrinks
    <3>3. inflow'[t] = inflow[t] /\ inflow[t] \in Nat
      BY <1>3, <2>1 DEF OnlyShrinks
    <3>. QED
      BY <3>1, <3>2, <3>3
  <2>2. CASE ComesOrGoes(t)
    BY <2>2 DEF ComesOrGoes
  <2>3. CASE Committed(r, t)
    BY <2>3 DEF Committed
  <2>. QED
    BY <1>1, <2>1, <2>2, <2>3
<1>6. CheckHolds'
  <2>. SUFFICES ASSUME NEW q \in Requests, NEW t \in Receipts,
                       pc'[q] = "locked", job'[q].line = t
                PROVE  /\ job'[q].op = "set" => SqlSum(job'[q].split, Budgets) <= inflow'[t]
                       /\ job'[q].op = "credit" /\ job'[q].amt > 0 =>
                            job'[q].amt <= inflow'[t]
                               - SqlSum(credit'[t], Budgets \ {job'[q].budget})
    BY DEF CheckHolds, SplitFits, CreditFits, RefundedTotal
  <2>1. CASE q = r
    <3>1. /\ inflow' = inflow
          /\ credit' = credit
          /\ job' = job
          /\ job[r].op = "set" => SplitFits(t, job[r].split)
          /\ job[r].op = "credit" /\ job[r].amt > 0 =>
               CreditFits(t, job[r].budget, job[r].amt)
      BY <1>2, <2>1
    <3>. QED
      BY <2>1, <3>1 DEF SplitFits, CreditFits, RefundedTotal
  <2>2. CASE q # r
    <3>1. Inside(q, t) /\ job'[q] = job[q]
      BY <1>2, <2>2 DEF Inside
    <3>2. ~Inside(r, t)
      BY <2>2, <3>1 DEF Inside, RefundInv, LockHeld
    <3>3. OnlyShrinks(t)
      BY <1>1, <3>1, <3>2 DEF ComesOrGoes, Committed
    <3>4. /\ job[q].op = "set" => SplitFits(t, job[q].split)
          /\ job[q].op = "credit" /\ job[q].amt > 0 =>
               CreditFits(t, job[q].budget, job[q].amt)
      BY <3>1 DEF RefundInv, CheckHolds, Inside
    <3>5. inflow'[t] = inflow[t]
      BY <3>3 DEF OnlyShrinks
    <3>6. ASSUME job[q].op = "set"
          PROVE  SqlSum(job'[q].split, Budgets) <= inflow'[t]
      BY <3>1, <3>4, <3>5, <3>6 DEF SplitFits
    <3>7. ASSUME job[q].op = "credit", job[q].amt > 0
          PROVE  job'[q].amt <= inflow'[t]
                    - SqlSum(credit'[t], Budgets \ {job'[q].budget})
      <4>. DEFINE S == Budgets \ {job[q].budget}
      <4>1. job[q].amt <= inflow[t] - SqlSum(credit[t], S)
        BY <3>4, <3>7 DEF CreditFits, RefundedTotal
      <4>2. /\ SqlSum(credit'[t], S) <= SqlSum(credit[t], S)
            /\ SqlSum(credit'[t], S) \in Nat
            /\ SqlSum(credit[t], S) \in Nat
        BY <1>3, <3>3, SumMonotone DEF OnlyShrinks
      <4>3. job[q].amt \in Nat /\ inflow[t] \in Nat
        BY <1>3, RefundConstants DEF TypeInv, TypeOK, Jobs
      <4>4. job[q].amt <= inflow'[t] - SqlSum(credit'[t], S)
        BY <3>5, <4>1, <4>2, <4>3
      <4>. QED
        BY <3>1, <4>4
    <3>. QED
      BY <3>1, <3>6, <3>7
  <2>. QED
    BY <2>1, <2>2
<1>. QED
  BY <1>4, <1>5, <1>6 DEF RefundInv

\* At the start nothing is credited and no lock is held.
LEMMA InitRefundInv == Init => RefundInv
<1>. SUFFICES ASSUME Init PROVE RefundInv
  OBVIOUS
<1>1. LockHeld /\ CheckHolds
  BY DEF Init, LockHeld, CheckHolds
<1>2. SqlSum(NoCredit, Budgets) = 0
  <2>1. \A b \in Budgets : NoCredit[b] = 0
    BY DEF NoCredit
  <2>. QED
    BY <2>1, NoJobIsJob, CreditSumAssumption
<1>3. Budgets \ {} = Budgets
  OBVIOUS
<1>4. CreditsFit
  <2>1. \A t \in Receipts : credit[t] = NoCredit /\ inflow[t] = 0
    BY DEF Init
  <2>2. SUFFICES ASSUME NEW t \in Receipts PROVE SqlSum(credit[t], Budgets \ {}) <= inflow[t]
    BY DEF CreditsFit, RefundedTotal
  <2>3. SqlSum(credit[t], Budgets \ {}) = 0 /\ inflow[t] = 0
    BY <1>2, <1>3, <2>1
  <2>. QED
    BY <2>3
<1>. QED
  BY <1>1, <1>4 DEF RefundInv

\* The invariant behind the bound holds as long as no cash counterpart is
\* adjusted: the lock a request holds, and what it checked under it.
THEOREM ChecksHold ==
    ASSUME "adjust" \notin Operations
    PROVE  Spec => []RefundInv
<1>1. TypeInv /\ TypeInv' /\ RefundInv /\ [Next]_vars => RefundInv'
  <2>1. TypeInv /\ TypeInv' /\ RefundInv /\ Next => RefundInv'
    BY NextRefundInv
  <2>2. RefundInv /\ UNCHANGED vars => RefundInv'
    BY DEF vars, RefundInv, LockHeld, CheckHolds, CreditsFit, SplitFits, CreditFits,
           RefundedTotal
  <2>. QED
    BY <2>1, <2>2
<1>. QED
  BY <1>1, InitTypeInv, NextTypeInv, InitRefundInv, PTL DEF Spec

\* As long as no cash counterpart is adjusted, no receipt ever gives back more
\* than it brought in, however many requests credit it at once.
THEOREM RefundsFit ==
    ASSUME "adjust" \notin Operations
    PROVE  Spec => []CreditsFit
<1>1. RefundInv => CreditsFit
  BY DEF RefundInv
<1>. QED
  BY <1>1, ChecksHold, PTL

(***************************************************************************)
(* No credit outlives its receipt or its budget, with no assumption on the *)
(* operations or on how the requests meet.                                 *)
(***************************************************************************)

\* A request inside its transaction works on a receipt that is still there.
LockedIsReceived == \A r \in Requests : pc[r] = "locked" => Received(job[r].line)

\* The lock is what keeps the receipt from being withdrawn under a credit.
OrphanInv == LockHeld /\ LockedIsReceived /\ NoOrphanCredit

\* The rows after a step, seen from one receipt and one budget.
OrphanFree(t, b) == credit'[t][b] > 0 => envelope'[b] # "absent" /\ inflow'[t] > 0

\* A step that credits nothing leaves no orphan if it keeps the receipt and the
\* budget of every credit it keeps.
LEMMA NoNewOrphan ==
    ASSUME TypeInv, OrphanInv, NEW t \in Receipts, NEW b \in Budgets,
           \/ credit'[t][b] = 0
           \/ /\ credit'[t][b] = credit[t][b]
              /\ inflow[t] > 0 => inflow'[t] > 0
              /\ envelope[b] # "absent" => envelope'[b] # "absent"
    PROVE  OrphanFree(t, b)
  BY DEF OrphanInv, NoOrphanCredit, OrphanFree, Received

\* A request commits under the lock of a receipt that is there, and the foreign
\* key of each credit it writes is checked.
LEMMA CommitOrphanFree ==
    ASSUME TypeInv, OrphanInv, NEW r \in Requests, SetCommit(r) \/ CreditCommit(r),
           NEW t \in Receipts, NEW b \in Budgets
    PROVE  OrphanFree(t, b)
<1>. DEFINE u == job[r].line
<1>1. /\ pc[r] = "locked"
      /\ u \in Receipts
      /\ inflow[u] > 0
      /\ UNCHANGED <<inflow, envelope>>
  BY DEF SetCommit, CreditCommit, OrphanInv, LockedIsReceived, Received, TypeInv, JobShape
<1>2. CASE SetCommit(r)
  <2>1. CASE t = u
    BY <1>1, <1>2, <2>1 DEF SetCommit, OrphanFree, TypeInv, TypeOK
  <2>2. CASE t # u
    BY <1>1, <1>2, <2>2, NoNewOrphan DEF SetCommit, TypeInv, TypeOK
  <2>. QED
    BY <2>1, <2>2
<1>3. CASE CreditCommit(r)
  <2>1. /\ job[r].budget \in Budgets
        /\ job[r].amt > 0 => envelope[job[r].budget] # "absent"
        /\ credit' = [credit EXCEPT ![u][job[r].budget] = job[r].amt]
    BY <1>3 DEF CreditCommit, TypeInv, JobShape
  <2>2. CASE t = u /\ b = job[r].budget
    BY <1>1, <2>1, <2>2 DEF OrphanFree, TypeInv, TypeOK
  <2>3. CASE t # u \/ b # job[r].budget
    <3>1. credit'[t][b] = credit[t][b]
      BY <1>1, <2>1, <2>3 DEF TypeInv, TypeOK
    <3>. QED
      BY <1>1, <3>1, NoNewOrphan
  <2>. QED
    BY <2>2, <2>3
<1>. QED
  BY <1>2, <1>3

\* No step leaves a credit without its receipt or its budget.
LEMMA StepOrphanFree ==
    ASSUME TypeInv, OrphanInv, NEW r \in Requests, Step(r),
           NEW t \in Receipts, NEW b \in Budgets
    PROVE  OrphanFree(t, b)
<1>. USE DEF TypeInv, TypeOK
<1>1. ASSUME NEW u \in Receipts, NEW n \in Natures, Receive(r, u, n)
      PROVE  OrphanFree(t, b)
  <2>1. Inflow[u] > 0
    <3>1. Inflow[u] \in Nat /\ Inflow[u] # 0
      BY RefundConstants
    <3>. QED
      BY <3>1
  <2>2. inflow'[t] = IF t = u THEN Inflow[u] ELSE inflow[t]
    BY <1>1 DEF Receive
  <2>. QED
    BY <1>1, <2>1, <2>2, NoNewOrphan DEF Receive
<1>2. ASSUME NEW u \in Receipts, NEW a \in Amounts,
             Withdraw(r, u, a) \/ Adjust(r, u, a)
      PROVE  OrphanFree(t, b)
  BY <1>2, NoNewOrphan DEF Withdraw, Adjust
<1>3. ASSUME NEW u \in Receipts, Unwithdraw(r, u)
      PROVE  OrphanFree(t, b)
  BY <1>3, NoNewOrphan DEF Unwithdraw, NoCredit
<1>4. ASSUME NEW u \in Receipts, NEW n \in Natures, QualifyDrop(r, u, n)
      PROVE  OrphanFree(t, b)
  BY <1>4, NoNewOrphan DEF QualifyDrop, NoCredit
<1>5. CASE SetCommit(r) \/ CreditCommit(r)
  BY <1>5, CommitOrphanFree
<1>6. ASSUME NEW c \in Budgets, NEW kind \in {"named", "global"}, CreateBudget(r, c, kind)
      PROVE  OrphanFree(t, b)
  BY <1>6, NoNewOrphan DEF CreateBudget
<1>7. ASSUME NEW c \in Budgets, DeleteBudget(r, c)
      PROVE  OrphanFree(t, b)
  BY <1>7, NoNewOrphan DEF DeleteBudget
<1>8. CASE UpdateSave(r)
  BY <1>8, NoNewOrphan DEF UpdateSave, JobShape
<1>9. CASE UNCHANGED <<inflow, credit, envelope>>
  BY <1>9, NoNewOrphan
<1>. QED
  BY <1>1, <1>2, <1>3, <1>4, <1>5, <1>6, <1>7, <1>8, <1>9
     DEF Step, QualifySave, SetRead, SetLock, CreditRead, CreditLock, UpdateRead, Abandon,
         tables

\* Whoever is inside a transaction still finds the receipt afterwards.
LEMMA StepReceived ==
    ASSUME TypeInv, OrphanInv, NEW r \in Requests, Step(r)
    PROVE  LockedIsReceived'
<1>. SUFFICES ASSUME NEW q \in Requests, pc'[q] = "locked"
              PROVE  inflow'[job'[q].line] > 0
  BY DEF LockedIsReceived, Received
<1>1. CASE q = r
  <2>1. UNCHANGED <<inflow, job>>
    BY <1>1, StepInside
  <2>2. pc[r] = "locked" \/ SetLock(r) \/ CreditLock(r)
    BY <1>1 DEF Step, Receive, Withdraw, Unwithdraw, Adjust, QualifyDrop, QualifySave,
           SetRead, SetCommit, CreditRead, CreditCommit, CreateBudget, DeleteBudget,
           UpdateRead, UpdateSave, Abandon, Single, Serve, Finish, TypeInv, TypeOK
  <2>3. inflow[job[r].line] > 0
    BY <2>2 DEF SetLock, CreditLock, Received, OrphanInv, LockedIsReceived
  <2>. QED
    BY <1>1, <2>1, <2>3
<1>2. CASE q # r
  <2>1. pc[q] = "locked" /\ job'[q] = job[q]
    BY <1>2, StepInside
  <2>. PICK t \in Receipts : t = job[q].line
    BY <2>1 DEF TypeInv, JobShape
  <2>2. inflow[t] > 0 /\ lock[t] # NoRequest
    BY <2>1, RefundConstants DEF OrphanInv, LockedIsReceived, Received, LockHeld
  <2>3. ASSUME NEW u \in Receipts, NEW n \in Natures, Receive(r, u, n)
        PROVE  inflow'[t] > 0
    <3>1. t # u
      BY <2>3 DEF Receive, FreshReceipt
    <3>. QED
      BY <2>2, <2>3, <3>1 DEF Receive, TypeInv, TypeOK
  <2>4. ASSUME NEW u \in Receipts, NEW a \in Amounts, Withdraw(r, u, a) \/ Adjust(r, u, a)
        PROVE  inflow'[t] > 0
    BY <2>2, <2>4 DEF Withdraw, Adjust, TypeInv, TypeOK
  <2>5. ASSUME NEW u \in Receipts, Unwithdraw(r, u)
        PROVE  inflow'[t] > 0
    <3>1. t # u
      BY <2>2, <2>5 DEF Unwithdraw, Unlocked
    <3>. QED
      BY <2>2, <2>5, <3>1 DEF Unwithdraw, TypeInv, TypeOK
  <2>6. \/ inflow' = inflow
        \/ \E u \in Receipts, n \in Natures : Receive(r, u, n)
        \/ \E u \in Receipts, a \in Amounts : Withdraw(r, u, a) \/ Adjust(r, u, a)
        \/ \E u \in Receipts : Unwithdraw(r, u)
    BY DEF Step, QualifyDrop, QualifySave, SetRead, SetLock, SetCommit, CreditRead,
           CreditLock, CreditCommit, CreateBudget, DeleteBudget, UpdateRead, UpdateSave,
           Abandon, tables
  <2>7. inflow'[t] > 0
    BY <2>2, <2>3, <2>4, <2>5, <2>6
  <2>. QED
    BY <2>1, <2>7
<1>. QED
  BY <1>1, <1>2

\* The invariant behind NoOrphanCredit holds, whatever the operations.
LEMMA OrphanAlways == Spec => []OrphanInv
<1>1. Init => OrphanInv
  <2>. SUFFICES ASSUME Init PROVE OrphanInv
    OBVIOUS
  <2>1. LockHeld /\ LockedIsReceived
    BY DEF Init, LockHeld, LockedIsReceived
  <2>2. \A t \in Receipts, b \in Budgets : credit[t][b] = 0
    BY DEF Init, NoCredit
  <2>. QED
    BY <2>1, <2>2 DEF OrphanInv, NoOrphanCredit
<1>2. TypeInv /\ OrphanInv /\ [Next]_vars => OrphanInv'
  <2>1. ASSUME TypeInv, OrphanInv, NEW r \in Requests, Step(r) PROVE OrphanInv'
    <3>1. NoOrphanCredit'
      BY <2>1, StepOrphanFree DEF NoOrphanCredit, OrphanFree, Received
    <3>2. LockHeld'
      BY <2>1, LocksStay DEF OrphanInv
    <3>. QED
      BY <2>1, <3>1, <3>2, StepReceived DEF OrphanInv
  <2>2. OrphanInv /\ UNCHANGED vars => OrphanInv'
    BY DEF vars, OrphanInv, LockHeld, LockedIsReceived, NoOrphanCredit, Received
  <2>. QED
    BY <2>1, <2>2 DEF Next
<1>. QED
  BY <1>1, <1>2, InitTypeInv, NextTypeInv, PTL DEF Spec

\* Whatever requests meet, a credit goes to an envelope that exists and belongs
\* to a receipt that exists.
THEOREM CreditsHaveTheirRows == Spec => []NoOrphanCredit
<1>1. OrphanInv => NoOrphanCredit
  BY DEF OrphanInv
<1>. QED
  BY <1>1, OrphanAlways, PTL

(***************************************************************************)
(* Credits and the classification of their receipt.                        *)
(***************************************************************************)

\* One request is served at a time.
OneAtATime == \A p, q \in Requests : p = q

\* What a request has read of the nature of its receipt is still so, and a
\* reclassification that has dropped the credits finds none when it saves.
ReadHolds(r) ==
    LET t == job[r].line
    IN  /\ job[r].op = "set" /\ Received(t) => nature[t] = "refund"
        /\ job[r].op = "credit" /\ Received(t) => nature[t] \in {"", "refund"}
        /\ job[r].op = "qualify" /\ job[r].to # "refund" => credit[t] = NoCredit

\* Only a served operation is under way.
OnlyServed == \A r \in Requests : job[r].op = "qualify" => "qualify" \in Operations

NatureInv == OnlyServed /\ CreditsOnRefunds /\ \A r \in Requests : ReadHolds(r)

\* A line that is not there carries no credit.
LEMMA GoneNoCredit ==
    ASSUME TypeInv, NoOrphanCredit, NEW t \in Receipts, inflow[t] = 0
    PROVE  credit[t] = NoCredit
<1>1. /\ credit[t] \in [Budgets -> Amounts]
      /\ \A b \in Budgets : credit[t][b] \in Nat
  <2>1. credit[t] \in [Budgets -> Amounts] /\ Amounts \subseteq Nat
    BY RefundConstants DEF TypeInv, TypeOK
  <2>. QED
    BY <2>1
<1>2. \A b \in Budgets : credit[t][b] = 0
  BY <1>1 DEF NoOrphanCredit, Received
<1>. QED
  BY <1>1, <1>2 DEF NoCredit

\* Whoever changes a credit or a nature leaves credits on refunds only: a split
\* or a credit trusts the nature it has read, a reclassification the credits it
\* has dropped.
LEMMA StepOnRefunds ==
    ASSUME TypeInv, OrphanInv, CreditsOnRefunds, NEW r \in Requests, ReadHolds(r), Step(r)
    PROVE  CreditsOnRefunds'
<1>. SUFFICES ASSUME NEW t \in Receipts, credit'[t] # NoCredit PROVE nature'[t] = "refund"
  BY DEF CreditsOnRefunds
<1>1. ASSUME credit'[t] = credit[t], nature'[t] = nature[t] PROVE nature'[t] = "refund"
  BY <1>1 DEF CreditsOnRefunds
<1>2. ASSUME NEW u \in Receipts, NEW n \in Natures, Receive(r, u, n)
      PROVE  nature'[t] = "refund"
  <2>1. CASE t = u
    BY <1>2, <2>1, GoneNoCredit DEF Receive, FreshReceipt, OrphanInv
  <2>2. CASE t # u
    BY <1>1, <1>2, <2>2 DEF Receive, TypeInv, TypeOK
  <2>. QED
    BY <2>1, <2>2
<1>3. ASSUME NEW u \in Receipts, Unwithdraw(r, u)
      PROVE  nature'[t] = "refund"
  BY <1>1, <1>3 DEF Unwithdraw, TypeInv, TypeOK
<1>4. ASSUME NEW u \in Receipts, NEW n \in Natures, QualifyDrop(r, u, n)
      PROVE  nature'[t] = "refund"
  BY <1>1, <1>4 DEF QualifyDrop, TypeInv, TypeOK
<1>5. CASE QualifySave(r)
  BY <1>1, <1>5 DEF QualifySave, ReadHolds, TypeInv, TypeOK
<1>6. CASE SetCommit(r)
  <2>1. Received(job[r].line)
    BY <1>6 DEF SetCommit, OrphanInv, LockedIsReceived
  <2>. QED
    BY <1>1, <1>6, <2>1 DEF SetCommit, ReadHolds, TypeInv, TypeOK
<1>7. CASE CreditCommit(r)
  <2>1. /\ Received(job[r].line)
        /\ job[r].line \in Receipts
    BY <1>7 DEF CreditCommit, OrphanInv, LockedIsReceived, TypeInv, JobShape
  <2>. QED
    BY <1>1, <1>7, <2>1 DEF CreditCommit, ReadHolds, TypeInv, TypeOK
<1>8. ASSUME NEW b \in Budgets, DeleteBudget(r, b)
      PROVE  nature'[t] = "refund"
  <2>1. [NoCredit EXCEPT ![b] = 0] = NoCredit
    BY DEF NoCredit
  <2>2. credit[t] # NoCredit /\ nature'[t] = nature[t]
    BY <1>8, <2>1 DEF DeleteBudget
  <2>. QED
    BY <2>2 DEF CreditsOnRefunds
<1>9. CASE UNCHANGED <<credit, nature>>
  BY <1>1, <1>9
<1>. QED
  BY <1>2, <1>3, <1>4, <1>5, <1>6, <1>7, <1>8, <1>9
     DEF Step, Withdraw, Adjust, SetRead, SetLock, CreditRead, CreditLock, CreateBudget,
         UpdateRead, UpdateSave, Abandon, tables

\* What the request of the step has read holds for the receipt it has read.
LEMMA OwnReadHolds ==
    ASSUME TypeInv, NatureInv, NEW r \in Requests, Step(r)
    PROVE  ReadHolds(r)'
<1>1. CASE job'[r] = NoJob
  BY <1>1, NoJobIsJob DEF ReadHolds
<1>2. CASE UNCHANGED <<tables, job>>
  BY <1>2 DEF tables, ReadHolds, NatureInv, Received
<1>3. ASSUME NEW t \in Receipts, NEW n \in Natures, QualifyDrop(r, t, n)
      PROVE  ReadHolds(r)'
  <2>1. job'[r].op = "qualify" /\ job'[r].line = t /\ job'[r].to = n
    BY <1>3 DEF QualifyDrop, Serve, TypeInv, TypeOK, NoJob
  <2>2. n # "refund" => credit'[t] = NoCredit
    BY <1>3 DEF QualifyDrop, TypeInv, TypeOK
  <2>. QED
    BY <2>1, <2>2 DEF ReadHolds
<1>4. ASSUME NEW t \in Receipts, NEW split \in [Budgets -> Amounts], SetRead(r, t, split)
      PROVE  ReadHolds(r)'
  <2>1. job'[r].op = "set" /\ job'[r].line = t /\ nature'[t] = "refund"
    BY <1>4 DEF SetRead, Serve, TypeInv, TypeOK, NoJob, tables
  <2>. QED
    BY <2>1 DEF ReadHolds
<1>5. ASSUME NEW t \in Receipts, NEW b \in Budgets, NEW a \in Amounts,
             CreditRead(r, t, b, a)
      PROVE  ReadHolds(r)'
  <2>1. job'[r].op = "credit" /\ job'[r].line = t /\ nature'[t] \in {"", "refund"}
    BY <1>5 DEF CreditRead, Serve, TypeInv, TypeOK, NoJob, tables
  <2>. QED
    BY <2>1 DEF ReadHolds
<1>6. ASSUME NEW b \in Budgets, NEW kind \in {"named", "global"}, UpdateRead(r, b, kind)
      PROVE  ReadHolds(r)'
  <2>1. job'[r].op = "update"
    BY <1>6 DEF UpdateRead, Serve, TypeInv, TypeOK, NoJob
  <2>. QED
    BY <2>1 DEF ReadHolds
<1>7. ASSUME NEW op, Single(r, op) PROVE job'[r] = NoJob
  BY <1>7 DEF Single, TypeInv, JobShape
<1>8. ASSUME Finish(r) PROVE job'[r] = NoJob
  BY <1>8 DEF Finish, TypeInv, TypeOK
<1>9. \/ \E op : Single(r, op)
      \/ Finish(r)
      \/ UNCHANGED <<tables, job>>
      \/ \E t \in Receipts, n \in Natures : QualifyDrop(r, t, n)
      \/ \E t \in Receipts, split \in [Budgets -> Amounts] : SetRead(r, t, split)
      \/ \E t \in Receipts, b \in Budgets, a \in Amounts : CreditRead(r, t, b, a)
      \/ \E b \in Budgets, kind \in {"named", "global"} : UpdateRead(r, b, kind)
  BY DEF Step, Receive, Withdraw, Unwithdraw, Adjust, QualifySave, SetLock, SetCommit,
         CreditLock, CreditCommit, CreateBudget, DeleteBudget, UpdateSave, Abandon
<1>. QED
  BY <1>1, <1>2, <1>3, <1>4, <1>5, <1>6, <1>7, <1>8, <1>9

\* Without reclassification the nature another request has read stays what it
\* was, or becomes "refund" when nobody had classified the receipt.
LEMMA OthersReadHolds ==
    ASSUME "qualify" \notin Operations, TypeInv, NatureInv, NEW r \in Requests, Step(r),
           NEW q \in Requests, q # r
    PROVE  ReadHolds(q)'
<1>1. job'[q] = job[q] /\ job[q].op # "qualify" /\ job[r].op # "qualify"
  BY StepInside DEF NatureInv, OnlyServed
<1>2. CASE job[q].op \notin {"set", "credit"}
  BY <1>1, <1>2 DEF ReadHolds
<1>3. CASE job[q].op \in {"set", "credit"}
  <2>. PICK t \in Receipts : t = job[q].line
    BY <1>3 DEF TypeInv, JobShape
  <2>. DEFINE Kept == inflow'[t] > 0 =>
                        /\ inflow[t] > 0
                        /\ \/ nature'[t] = nature[t]
                           \/ nature[t] = "" /\ nature'[t] = "refund"
  <2>1. ASSUME NEW u \in Receipts, NEW n \in Natures, Receive(r, u, n)
        PROVE  Kept
    <3>1. t # u
      BY <2>1 DEF Receive, FreshReceipt
    <3>. QED
      BY <2>1, <3>1 DEF Receive, TypeInv, TypeOK
  <2>2. ASSUME NEW u \in Receipts, NEW a \in Amounts, Withdraw(r, u, a)
        PROVE  Kept
    <3>1. t # u
      BY <2>2 DEF Withdraw, FreshReceipt
    <3>. QED
      BY <2>2, <3>1 DEF Withdraw, TypeInv, TypeOK
  <2>3. ASSUME NEW u \in Receipts, Unwithdraw(r, u)
        PROVE  Kept
    <3>1. CASE t = u
      <4>1. inflow'[t] = 0
        BY <2>3, <3>1 DEF Unwithdraw, TypeInv, TypeOK
      <4>2. ~(0 > 0)
        OBVIOUS
      <4>3. ~(inflow'[t] > 0)
        BY <4>1, <4>2, Zenon
      <4>. QED
        BY <4>3
    <3>2. CASE t # u
      BY <2>3, <3>2 DEF Unwithdraw, TypeInv, TypeOK
    <3>. QED
      BY <3>1, <3>2
  <2>4. ASSUME NEW u \in Receipts, NEW a \in Amounts, Adjust(r, u, a)
        PROVE  Kept
    BY <2>4 DEF Adjust, Received, TypeInv, TypeOK
  <2>5. ASSUME CreditCommit(r) PROVE Kept
    BY <2>5 DEF CreditCommit, TypeInv, TypeOK
  <2>6. ASSUME UNCHANGED <<inflow, nature>> PROVE Kept
    BY <2>6
  <2>7. \/ UNCHANGED <<inflow, nature>>
        \/ \E u \in Receipts, n \in Natures : Receive(r, u, n)
        \/ \E u \in Receipts, a \in Amounts : Withdraw(r, u, a) \/ Adjust(r, u, a)
        \/ \E u \in Receipts : Unwithdraw(r, u)
        \/ CreditCommit(r)
    BY <1>1 DEF Step, QualifyDrop, QualifySave, SetRead, SetLock, SetCommit, CreditRead,
           CreditLock, CreateBudget, DeleteBudget, UpdateRead, UpdateSave, Abandon, tables
  <2>8. Kept
    BY <2>1, <2>2, <2>3, <2>4, <2>5, <2>6, <2>7
  <2>. QED
    BY <1>1, <1>3, <2>8 DEF ReadHolds, NatureInv, Received
<1>. QED
  BY <1>2, <1>3

\* Only the operations an instance serves are ever under way.
LEMMA StepOnlyServed ==
    ASSUME TypeInv, OnlyServed, NEW r \in Requests, Step(r)
    PROVE  OnlyServed'
<1>1. \A q \in Requests \ {r} : job'[q] = job[q]
  BY StepInside
<1>2. job'[r] = NoJob \/ job'[r] = job[r] \/ job'[r].op # "qualify"
      \/ "qualify" \in Operations
  <2>1. ASSUME NEW t \in Receipts, NEW split \in [Budgets -> Amounts], SetRead(r, t, split)
        PROVE  job'[r].op # "qualify"
    BY <2>1 DEF SetRead, Serve, TypeInv, TypeOK, NoJob
  <2>2. ASSUME NEW t \in Receipts, NEW b \in Budgets, NEW a \in Amounts,
               CreditRead(r, t, b, a)
        PROVE  job'[r].op # "qualify"
    BY <2>2 DEF CreditRead, Serve, TypeInv, TypeOK, NoJob
  <2>3. ASSUME NEW b \in Budgets, NEW kind \in {"named", "global"}, UpdateRead(r, b, kind)
        PROVE  job'[r].op # "qualify"
    BY <2>3 DEF UpdateRead, Serve, TypeInv, TypeOK, NoJob
  <2>4. ASSUME NEW t \in Receipts, NEW n \in Natures, QualifyDrop(r, t, n)
        PROVE  "qualify" \in Operations
    BY <2>4 DEF QualifyDrop, Serve
  <2>5. ASSUME Finish(r) PROVE job'[r] = NoJob
    BY <2>5 DEF Finish, TypeInv, TypeOK
  <2>. QED
    BY <2>1, <2>2, <2>3, <2>4, <2>5
       DEF Step, Receive, Withdraw, Unwithdraw, Adjust, QualifySave, SetLock, SetCommit,
           CreditLock, CreditCommit, CreateBudget, DeleteBudget, UpdateSave, Abandon, Single
<1>. QED
  BY <1>1, <1>2, NoJobIsJob DEF OnlyServed

\* Served one at a time, or without reclassification, a credit stays on a
\* receipt classified as a refund: the nature a request trusts is the one it has
\* read before the lock, and only a reclassification can change it meanwhile.
THEOREM CreditsStayOnRefunds ==
    ASSUME OneAtATime \/ "qualify" \notin Operations
    PROVE  Spec => []CreditsOnRefunds
<1>1. Init => NatureInv
  BY NoJobIsJob DEF Init, NatureInv, OnlyServed, CreditsOnRefunds, ReadHolds
<1>2. TypeInv /\ OrphanInv /\ NatureInv /\ [Next]_vars => NatureInv'
  <2>1. ASSUME TypeInv, OrphanInv, NatureInv, NEW r \in Requests, Step(r)
        PROVE  NatureInv'
    <3>1. OnlyServed'
      BY <2>1, StepOnlyServed DEF NatureInv
    <3>2. CreditsOnRefunds'
      BY <2>1, StepOnRefunds DEF NatureInv
    <3>3. ASSUME NEW q \in Requests PROVE ReadHolds(q)'
      BY <2>1, OwnReadHolds, OthersReadHolds DEF OneAtATime
    <3>. QED
      BY <3>1, <3>2, <3>3 DEF NatureInv
  <2>2. NatureInv /\ UNCHANGED vars => NatureInv'
    BY DEF vars, NatureInv, OnlyServed, CreditsOnRefunds, ReadHolds, Received
  <2>. QED
    BY <2>1, <2>2 DEF Next
<1>3. NatureInv => CreditsOnRefunds
  BY DEF NatureInv
<1>. QED
  BY <1>1, <1>2, <1>3, InitTypeInv, NextTypeInv, OrphanAlways, PTL DEF Spec
===============================================================================
