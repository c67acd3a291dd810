--------------------------- MODULE AllocationProofs ---------------------------
(***************************************************************************)
(* What the locking discipline of the split guarantees, for any number of  *)
(* lines, expenses, requests and amounts.                                  *)
(***************************************************************************)
EXTENDS Allocation, TLAPS

(***************************************************************************)
(* The SUM of a set of rows.                                               *)
(***************************************************************************)

\* Fewer rows, of the same amounts, add up to no more.
LEMMA SumShrinks ==
    ASSUME NEW a \in [Expenses -> Amounts], NEW b \in [Expenses -> Amounts],
           NEW T \in SUBSET Expenses, NEW S \in SUBSET T,
           \A e \in S : b[e] = a[e]
    PROVE  /\ SqlSum(b, S) <= SqlSum(a, T)
           /\ SqlSum(b, S) \in Nat
           /\ SqlSum(a, T) \in Nat
<1>1. /\ S \in SUBSET Expenses
      /\ T \ S \in SUBSET Expenses
      /\ S \cap (T \ S) = {}
      /\ S \cup (T \ S) = T
  OBVIOUS
<1>2. SqlSum(a, T) = SqlSum(a, S) + SqlSum(a, T \ S)
  BY <1>1, SqlSumAssumption
<1>3. SqlSum(b, S) = SqlSum(a, S)
  BY <1>1, SqlSumAssumption
<1>4. SqlSum(a, S) \in Nat /\ SqlSum(a, T \ S) \in Nat
  BY <1>1, SqlSumAssumption
<1>. QED
  BY <1>2, <1>3, <1>4

\* One more row adds its amount.
LEMMA SumAddsRow ==
    ASSUME NEW a \in [Expenses -> Amounts], NEW S \in SUBSET Expenses,
           NEW e \in Expenses, e \notin S
    PROVE  SqlSum(a, S \cup {e}) = SqlSum(a, S) + a[e]
<1>1. S \cap {e} = {} /\ {e} \in SUBSET Expenses
  OBVIOUS
<1>2. SqlSum(a, S \cup {e}) = SqlSum(a, S) + SqlSum(a, {e})
  BY <1>1, SqlSumAssumption
<1>3. SqlSum(a, {e}) = a[e]
  BY SqlSumAssumption
<1>. QED
  BY <1>2, <1>3

(***************************************************************************)
(* Type correctness, for every kind of request.                            *)
(***************************************************************************)

\* What a request starts from is typed.
LEMMA NoJobIsJob == NoJob \in Jobs /\ Zero \in [Expenses -> Amounts]
  BY ConstantsAssumption DEF NoJob, Jobs, Zero, Kinds, Markers

\* The types, and what a request must have read to be where it is.
TypeInv == TypeOK /\ JobShape

\* The initial state is typed.
LEMMA InitTypeInv == Init => TypeInv
<1>1. Init => TypeOK
  <2>. SUFFICES ASSUME Init PROVE TypeOK
    OBVIOUS
  <2>1. /\ kind \in [Expenses -> Kinds]
        /\ amount \in [Expenses -> Amounts]
        /\ line \in [Expenses -> Lines \cup {NoLine}]
        /\ by \in [Expenses -> Markers]
    BY NoJobIsJob DEF Init, Kinds, Markers
  <2>2. /\ paired \in [Lines -> BOOLEAN]
        /\ lock \in [Lines -> Requests \cup {NoRequest}]
        /\ pc \in [Requests -> {"idle", "picked", "read", "locked"}]
    BY DEF Init
  <2>3. job \in [Requests -> Jobs]
    BY NoJobIsJob DEF Init
  <2>. QED
    BY <2>1, <2>2, <2>3 DEF TypeOK
<1>2. Init => JobShape
  BY DEF Init, JobShape
<1>. QED
  BY <1>1, <1>2 DEF TypeInv

\* The end of a request keeps its part of the types.
LEMMA FinishType ==
    ASSUME TypeInv, NEW r \in Requests, Finish(r)
    PROVE  /\ lock' \in [Lines -> Requests \cup {NoRequest}]
           /\ pc' \in [Requests -> {"idle", "picked", "read", "locked"}]
           /\ job' \in [Requests -> Jobs]
           /\ JobShape'
<1>1. /\ lock' \in [Lines -> Requests \cup {NoRequest}]
      /\ pc' \in [Requests -> {"idle", "picked", "read", "locked"}]
      /\ job' \in [Requests -> Jobs]
  BY NoJobIsJob DEF TypeInv, TypeOK, Finish
<1>2. \A q \in Requests : IF q = r THEN pc'[q] = "idle" /\ job'[q] = NoJob
                          ELSE pc'[q] = pc[q] /\ job'[q] = job[q]
  BY DEF TypeInv, TypeOK, Finish
<1>3. JobShape'
  BY <1>2 DEF TypeInv, JobShape
<1>. QED
  BY <1>1, <1>3

\* So does the acceptance of a new request.
LEMMA ServeType ==
    ASSUME TypeInv, NEW r \in Requests, NEW op, NEW at, NEW j \in Jobs,
           Serve(r, op, at, j), at \in {"picked", "read", "locked"},
           at = "picked" => j.op = "auto" /\ j.line \in Lines /\ j.exp \in Expenses,
           at \in {"read", "locked"} =>
             /\ j.op \in {"put", "link", "auto", "recur"} => j.line \in Lines
             /\ j.op \in {"link", "auto", "unlink", "save"} => j.exp \in Expenses,
           at = "locked" => j.op \in {"put", "link", "auto"}
    PROVE  /\ pc' \in [Requests -> {"idle", "picked", "read", "locked"}]
           /\ job' \in [Requests -> Jobs]
           /\ JobShape'
<1>1. /\ pc' \in [Requests -> {"idle", "picked", "read", "locked"}]
      /\ job' \in [Requests -> Jobs]
  BY DEF TypeInv, TypeOK, Serve
<1>2. \A q \in Requests : IF q = r THEN pc'[q] = at /\ job'[q] = j
                          ELSE pc'[q] = pc[q] /\ job'[q] = job[q]
  BY DEF TypeInv, TypeOK, Serve
<1>3. JobShape'
  BY <1>2 DEF TypeInv, JobShape
<1>. QED
  BY <1>1, <1>3

\* Writing one row keeps the types of the rows.
LEMMA WriteRowType ==
    ASSUME TypeOK, NEW e \in Expenses, NEW k \in Kinds, NEW a \in Amounts,
           NEW l \in Lines \cup {NoLine}, NEW b \in Markers,
           WriteRow(e, k, a, l, b)
    PROVE  /\ kind' \in [Expenses -> Kinds]
           /\ amount' \in [Expenses -> Amounts]
           /\ line' \in [Expenses -> Lines \cup {NoLine}]
           /\ by' \in [Expenses -> Markers]
  BY DEF TypeOK, WriteRow

\* The instance a PATCH has loaded is a job, whatever its amount.
LEMMA LoadedType ==
    ASSUME TypeOK, NEW e \in Expenses, NEW a \in Amounts
    PROVE  /\ Loaded(e, a) \in Jobs
           /\ Loaded(e, a).op = "save"
           /\ Loaded(e, a).exp = e
           /\ Loaded(e, a).line = line[e]
           /\ Loaded(e, a).by = by[e]
  BY NoJobIsJob DEF TypeOK, Loaded, NoJob, Jobs

\* No step, and no stutter, breaks the types.
LEMMA NextTypeInv == TypeInv /\ [Next]_vars => TypeInv'
<1>. SUFFICES ASSUME TypeInv, [Next]_vars PROVE TypeInv'
  OBVIOUS
<1>. USE ConstantsAssumption, NoJobIsJob
<1>1. CASE UNCHANGED vars
  BY <1>1 DEF vars, TypeInv, TypeOK, JobShape
<1>2. CASE Next
  <2>. PICK r \in Requests : Step(r)
    BY <1>2 DEF Next
  <2>1. ASSUME NEW e \in Expenses, NEW a \in Amounts, CreateExpense(r, e, a)
        PROVE  TypeInv'
    <3>1. "other" \in Kinds /\ "" \in Markers
      BY DEF Kinds, Markers
    <3>. QED
      BY <2>1, <3>1, WriteRowType DEF CreateExpense, TypeInv, TypeOK, JobShape
  <2>2. ASSUME NEW e \in Expenses, DeleteExpense(r, e)
        PROVE  TypeInv'
    <3>1. "absent" \in Kinds /\ "" \in Markers
      BY DEF Kinds, Markers
    <3>. QED
      BY <2>2, <3>1, WriteRowType DEF DeleteExpense, TypeInv, TypeOK, JobShape
  <2>3. ASSUME NEW l \in Lines, Pair(r, l)
        PROVE  TypeInv'
    BY <2>3 DEF Pair, rows, TypeInv, TypeOK, JobShape
  <2>4. ASSUME NEW l \in Lines, Unpair(r, l)
        PROVE  TypeInv'
    BY <2>4 DEF Unpair, rows, TypeInv, TypeOK, JobShape
  <2>5. ASSUME NEW l \in Lines, NEW split \in [Expenses -> Amounts],
               PutCheck(r, l, split)
        PROVE  TypeInv'
    <3>. DEFINE j == [NoJob EXCEPT !.op = "put", !.line = l, !.split = split,
                                   !.doomed = OwnedOn(l)]
    <3>1. j \in Jobs /\ j.op = "put" /\ j.line = l
      BY DEF Jobs, NoJob, OwnedOn, On
    <3>2. Serve(r, "put", "locked", j)
      BY <2>5 DEF PutCheck
    <3>3. /\ pc' \in [Requests -> {"idle", "picked", "read", "locked"}]
          /\ job' \in [Requests -> Jobs]
          /\ JobShape'
      <4>. HIDE DEF j
      <4>. QED  BY <3>1, <3>2, ServeType
    <3>. QED
      BY <2>5, <3>3 DEF PutCheck, rows, TypeInv, TypeOK
  <2>6. CASE PutCommit(r)
    <3>1. /\ kind' \in [Expenses -> Kinds]
          /\ amount' \in [Expenses -> Amounts]
          /\ line' \in [Expenses -> Lines \cup {NoLine}]
          /\ by' \in [Expenses -> Markers]
      <4>1. job[r].line \in Lines /\ job[r].split \in [Expenses -> Amounts]
        BY <2>6 DEF PutCommit, TypeInv, TypeOK, JobShape, Jobs
      <4>. QED
        BY <2>6, <4>1 DEF PutCommit, TypeInv, TypeOK, Kinds, Markers
    <3>. QED
      BY <2>6, <3>1, FinishType DEF PutCommit, TypeInv, TypeOK
  <2>7. ASSUME NEW l \in Lines, NEW e \in Expenses, LinkRead(r, l, e)
        PROVE  TypeInv'
    <3>. DEFINE j == [NoJob EXCEPT !.op = "link", !.line = l, !.exp = e,
                                   !.amt = amount[e], !.by = "manual"]
    <3>1. j \in Jobs /\ j.op = "link" /\ j.line = l /\ j.exp = e
      BY DEF Jobs, NoJob, TypeInv, TypeOK, Markers
    <3>2. Serve(r, "link", "read", j)
      BY <2>7 DEF LinkRead
    <3>3. /\ pc' \in [Requests -> {"idle", "picked", "read", "locked"}]
          /\ job' \in [Requests -> Jobs]
          /\ JobShape'
      <4>. HIDE DEF j
      <4>. QED  BY <3>1, <3>2, ServeType
    <3>. QED
      BY <2>7, <3>3 DEF LinkRead, rows, TypeInv, TypeOK
  <2>8. ASSUME NEW l \in Lines, NEW e \in Expenses, AutoPick(r, l, e)
        PROVE  TypeInv'
    <3>. DEFINE j == [NoJob EXCEPT !.op = "auto", !.line = l, !.exp = e,
                                   !.by = "auto"]
    <3>1. j \in Jobs /\ j.op = "auto" /\ j.line = l /\ j.exp = e
      BY DEF Jobs, NoJob, Markers
    <3>2. Serve(r, "auto", "picked", j)
      BY <2>8 DEF AutoPick
    <3>3. /\ pc' \in [Requests -> {"idle", "picked", "read", "locked"}]
          /\ job' \in [Requests -> Jobs]
          /\ JobShape'
      <4>. HIDE DEF j
      <4>. QED  BY <3>1, <3>2, ServeType
    <3>. QED
      BY <2>8, <3>3 DEF AutoPick, rows, TypeInv, TypeOK
  <2>9. CASE AutoFetch(r)
    <3>1. job[r].exp \in Expenses /\ job[r].op = "auto" /\ job[r].line \in Lines
      BY <2>9 DEF AutoFetch, TypeInv, JobShape
    <3>2. /\ pc' \in [Requests -> {"idle", "picked", "read", "locked"}]
          /\ job' \in [Requests -> Jobs]
      <4>1. job[r] \in Jobs /\ amount[job[r].exp] \in Amounts
        BY <3>1 DEF TypeInv, TypeOK
      <4>2. [job[r] EXCEPT !.amt = amount[job[r].exp]] \in Jobs
        BY <4>1 DEF Jobs
      <4>. QED
        BY <2>9, <4>2 DEF AutoFetch, TypeInv, TypeOK
    <3>3. JobShape'
      <4>1. \A q \in Requests \ {r} : pc'[q] = pc[q] /\ job'[q] = job[q]
        BY <2>9 DEF AutoFetch, TypeInv, TypeOK
      <4>2. /\ pc'[r] = "read"
            /\ job'[r].op = "auto"
            /\ job'[r].exp = job[r].exp
            /\ job'[r].line = job[r].line
        BY <2>9, <3>1 DEF AutoFetch, TypeInv, TypeOK, Jobs
      <4>. QED
        BY <3>1, <4>1, <4>2 DEF TypeInv, JobShape
    <3>. QED
      BY <2>9, <3>2, <3>3 DEF AutoFetch, rows, TypeInv, TypeOK
  <2>10. CASE LinkCheck(r)
    BY <2>10 DEF LinkCheck, rows, TypeInv, TypeOK, JobShape
  <2>11. CASE LinkCommit(r)
    <3>1. job[r].line \in Lines /\ job[r].by \in Markers
      BY <2>11 DEF LinkCommit, TypeInv, TypeOK, JobShape, Jobs
    <3>. QED
      BY <2>11, <3>1, FinishType DEF LinkCommit, TypeInv, TypeOK
  <2>12. ASSUME NEW e \in Expenses, UnlinkRead(r, e)
         PROVE  TypeInv'
    <3>. DEFINE j == [NoJob EXCEPT !.op = "unlink", !.exp = e]
    <3>1. j \in Jobs /\ j.op = "unlink" /\ j.exp = e
      BY DEF Jobs, NoJob
    <3>2. Serve(r, "unlink", "read", j)
      BY <2>12 DEF UnlinkRead
    <3>3. /\ pc' \in [Requests -> {"idle", "picked", "read", "locked"}]
          /\ job' \in [Requests -> Jobs]
          /\ JobShape'
      <4>. HIDE DEF j
      <4>. QED  BY <3>1, <3>2, ServeType
    <3>. QED
      BY <2>12, <3>3 DEF UnlinkRead, rows, TypeInv, TypeOK
  <2>13. CASE UnlinkSave(r)
    <3>1. "" \in Markers
      BY DEF Markers
    <3>. QED
      BY <2>13, <3>1, FinishType DEF UnlinkSave, TypeInv, TypeOK
  <2>14. ASSUME NEW e \in Expenses, NEW a \in Amounts, PatchRead(r, e, a)
         PROVE  TypeInv'
    <3>1. Serve(r, "patch", "read", Loaded(e, a))
      BY <2>14 DEF PatchRead
    <3>2. TypeOK
      BY DEF TypeInv
    <3>3. /\ pc' \in [Requests -> {"idle", "picked", "read", "locked"}]
          /\ job' \in [Requests -> Jobs]
          /\ JobShape'
      BY <3>1, <3>2, LoadedType, ServeType
    <3>. QED
      BY <2>14, <3>3 DEF PatchRead, rows, TypeInv, TypeOK
  <2>15. ASSUME NEW e \in Expenses, EditRead(r, e)
         PROVE  TypeInv'
    <3>1. Serve(r, "edit", "read", Loaded(e, amount[e]))
      BY <2>15 DEF EditRead
    <3>2. TypeOK /\ amount[e] \in Amounts
      BY DEF TypeInv, TypeOK
    <3>3. /\ pc' \in [Requests -> {"idle", "picked", "read", "locked"}]
          /\ job' \in [Requests -> Jobs]
          /\ JobShape'
      BY <3>1, <3>2, LoadedType, ServeType
    <3>. QED
      BY <2>15, <3>3 DEF EditRead, rows, TypeInv, TypeOK
  <2>16. CASE PatchSave(r)
    <3>1. /\ job[r].exp \in Expenses
          /\ job[r].kind \in Kinds
          /\ job[r].amt \in Amounts
          /\ job[r].line \in Lines \cup {NoLine}
          /\ job[r].by \in Markers
      BY <2>16 DEF PatchSave, TypeInv, TypeOK, JobShape, Jobs
    <3>. QED
      BY <2>16, <3>1, FinishType, WriteRowType DEF PatchSave, TypeInv, TypeOK
  <2>17. ASSUME NEW l \in Lines, RecurCheck(r, l)
         PROVE  TypeInv'
    <3>. DEFINE j == [NoJob EXCEPT !.op = "recur", !.line = l]
    <3>1. j \in Jobs /\ j.op = "recur" /\ j.line = l
      BY DEF Jobs, NoJob
    <3>2. Serve(r, "recur", "read", j)
      BY <2>17 DEF RecurCheck
    <3>3. /\ pc' \in [Requests -> {"idle", "picked", "read", "locked"}]
          /\ job' \in [Requests -> Jobs]
          /\ JobShape'
      <4>. HIDE DEF j
      <4>. QED  BY <3>1, <3>2, ServeType
    <3>. QED
      BY <2>17, <3>3 DEF RecurCheck, rows, TypeInv, TypeOK
  <2>18. ASSUME NEW e \in Expenses, RecurCommit(r, e)
         PROVE  TypeInv'
    <3>1. /\ "other" \in Kinds
          /\ "auto" \in Markers
          /\ job[r].line \in Lines
          /\ Outflow[job[r].line] \in Amounts
      BY <2>18 DEF RecurCommit, TypeInv, JobShape, Kinds, Markers
    <3>. QED
      BY <2>18, <3>1, FinishType, WriteRowType DEF RecurCommit, TypeInv, TypeOK
  <2>19. CASE Abandon(r)
    BY <2>19, FinishType DEF Abandon, rows, TypeInv, TypeOK
  <2>20. ASSUME NEW l \in Lines, DiscardLine(r, l)
         PROVE  TypeInv'
    BY <2>20 DEF DiscardLine, TypeInv, TypeOK, JobShape
  <2>. QED
    BY <2>1, <2>2, <2>3, <2>4, <2>5, <2>6, <2>7, <2>8, <2>9, <2>10, <2>11,
       <2>12, <2>13, <2>14, <2>15, <2>16, <2>17, <2>18, <2>19, <2>20 DEF Step
<1>. QED
  BY <1>1, <1>2

\* Whatever requests are served, every row, lock and request in flight has
\* its type.
THEOREM TypeCorrect == Spec => []TypeOK
<1>1. TypeInv => TypeOK
  BY DEF TypeInv
<1>. QED
  BY <1>1, InitTypeInv, NextTypeInv, PTL DEF Spec

(***************************************************************************)
(* The reconciliation marker, for every kind of request.                   *)
(***************************************************************************)

\* What MarkerInv asks of the requests in flight.
MarkerJobs ==
    \A r \in Requests :
        /\ job[r].op = "save" => ((job[r].line = NoLine) <=> (job[r].by = ""))
        /\ job[r].op \in {"link", "auto"} => job[r].by # ""

\* A request that ends is about to write no marker.
LEMMA FinishMarker ==
    ASSUME TypeInv, MarkerJobs, NEW r \in Requests, Finish(r)
    PROVE  MarkerJobs'
<1>1. \A q \in Requests : job'[q] = NoJob \/ job'[q] = job[q]
  BY DEF Finish, TypeInv, TypeOK
<1>2. NoJob.op = "none"
  BY DEF NoJob
<1>. QED
  BY <1>1, <1>2 DEF MarkerJobs

\* A request that starts keeps the markers, if what it read agrees.
LEMMA ServeMarker ==
    ASSUME TypeInv, MarkerJobs, NEW r \in Requests, NEW op, NEW at, NEW j,
           Serve(r, op, at, j),
           j.op = "save" => ((j.line = NoLine) <=> (j.by = "")),
           j.op \in {"link", "auto"} => j.by # ""
    PROVE  MarkerJobs'
<1>1. \A q \in Requests : job'[q] = j \/ job'[q] = job[q]
  BY DEF Serve, TypeInv, TypeOK
<1>. QED
  BY <1>1 DEF MarkerJobs

\* The row a request writes is marked exactly when it is attached.
LEMMA WriteRowMarker ==
    ASSUME TypeOK, MarkerAgrees, NEW e \in Expenses, NEW k, NEW a, NEW l, NEW b,
           WriteRow(e, k, a, l, b), (l = NoLine) <=> (b = "")
    PROVE  MarkerAgrees'
  BY DEF TypeOK, MarkerAgrees, WriteRow

\* No step but the deletion of a line parts a marker from its line.
LEMMA NextMarkerInv ==
    ASSUME "discard" \notin Operations
    PROVE  TypeInv /\ MarkerInv /\ [Next]_vars => MarkerInv'
<1>. SUFFICES ASSUME TypeInv, MarkerAgrees, MarkerJobs, [Next]_vars
              PROVE  MarkerAgrees' /\ MarkerJobs'
  BY DEF MarkerInv, MarkerJobs
<1>. USE ConstantsAssumption
<1>0. TypeOK
  BY DEF TypeInv
<1>1. CASE UNCHANGED vars
  BY <1>1 DEF vars, MarkerAgrees, MarkerJobs
<1>2. CASE Next
  <2>. PICK r \in Requests : Step(r)
    BY <1>2 DEF Next
  <2>1. ASSUME NEW e \in Expenses, NEW a \in Amounts, CreateExpense(r, e, a)
        PROVE  MarkerAgrees' /\ MarkerJobs'
    BY <2>1, <1>0, WriteRowMarker DEF CreateExpense, MarkerJobs
  <2>2. ASSUME NEW e \in Expenses, DeleteExpense(r, e)
        PROVE  MarkerAgrees' /\ MarkerJobs'
    BY <2>2, <1>0, WriteRowMarker DEF DeleteExpense, MarkerJobs
  <2>3. ASSUME NEW l \in Lines, Pair(r, l) \/ Unpair(r, l)
        PROVE  MarkerAgrees' /\ MarkerJobs'
    BY <2>3 DEF Pair, Unpair, rows, MarkerAgrees, MarkerJobs
  <2>4. ASSUME NEW l \in Lines, DiscardLine(r, l)
        PROVE  MarkerAgrees' /\ MarkerJobs'
    BY <2>4 DEF DiscardLine
  <2>5. ASSUME NEW l \in Lines, NEW split \in [Expenses -> Amounts],
               PutCheck(r, l, split)
        PROVE  MarkerAgrees' /\ MarkerJobs'
    <3>. DEFINE j == [NoJob EXCEPT !.op = "put", !.line = l, !.split = split,
                                   !.doomed = OwnedOn(l)]
    <3>1. j.op = "put"
      BY DEF NoJob
    <3>2. Serve(r, "put", "locked", j) /\ UNCHANGED rows
      BY <2>5 DEF PutCheck
    <3>. HIDE DEF j
    <3>3. MarkerJobs'
      BY <3>1, <3>2, ServeMarker
    <3>. QED
      BY <3>2, <3>3 DEF rows, MarkerAgrees
  <2>6. CASE PutCommit(r)
    <3>1. job[r].line \in Lines
      BY <2>6 DEF PutCommit, TypeInv, JobShape
    <3>2. MarkerAgrees'
      BY <2>6, <3>1, <1>0 DEF PutCommit, MarkerAgrees, TypeOK
    <3>. QED
      BY <2>6, <3>2, FinishMarker DEF PutCommit
  <2>7. ASSUME NEW l \in Lines, NEW e \in Expenses, LinkRead(r, l, e)
        PROVE  MarkerAgrees' /\ MarkerJobs'
    <3>. DEFINE j == [NoJob EXCEPT !.op = "link", !.line = l, !.exp = e,
                                   !.amt = amount[e], !.by = "manual"]
    <3>1. j.op = "link" /\ j.by = "manual"
      BY DEF NoJob
    <3>2. Serve(r, "link", "read", j) /\ UNCHANGED rows
      BY <2>7 DEF LinkRead
    <3>. HIDE DEF j
    <3>3. MarkerJobs'
      BY <3>1, <3>2, ServeMarker
    <3>. QED
      BY <3>2, <3>3 DEF rows, MarkerAgrees
  <2>8. ASSUME NEW l \in Lines, NEW e \in Expenses, AutoPick(r, l, e)
        PROVE  MarkerAgrees' /\ MarkerJobs'
    <3>. DEFINE j == [NoJob EXCEPT !.op = "auto", !.line = l, !.exp = e,
                                   !.by = "auto"]
    <3>1. j.op = "auto" /\ j.by = "auto"
      BY DEF NoJob
    <3>2. Serve(r, "auto", "picked", j) /\ UNCHANGED rows
      BY <2>8 DEF AutoPick
    <3>. HIDE DEF j
    <3>3. MarkerJobs'
      BY <3>1, <3>2, ServeMarker
    <3>. QED
      BY <3>2, <3>3 DEF rows, MarkerAgrees
  <2>9. CASE AutoFetch(r)
    <3>1. \A q \in Requests : /\ job'[q].op = job[q].op
                              /\ job'[q].line = job[q].line
                              /\ job'[q].by = job[q].by
      BY <2>9 DEF AutoFetch, TypeInv, TypeOK, Jobs
    <3>. QED
      BY <2>9, <3>1 DEF AutoFetch, rows, MarkerAgrees, MarkerJobs
  <2>10. CASE LinkCheck(r)
    BY <2>10 DEF LinkCheck, rows, MarkerAgrees, MarkerJobs
  <2>11. CASE LinkCommit(r)
    <3>1. /\ job[r].line \in Lines
          /\ job[r].by # ""
      BY <2>11 DEF LinkCommit, TypeInv, JobShape, MarkerJobs
    <3>2. MarkerAgrees'
      BY <2>11, <3>1, <1>0 DEF LinkCommit, MarkerAgrees, TypeOK
    <3>. QED
      BY <2>11, <3>2, FinishMarker DEF LinkCommit
  <2>12. ASSUME NEW e \in Expenses, UnlinkRead(r, e)
         PROVE  MarkerAgrees' /\ MarkerJobs'
    <3>. DEFINE j == [NoJob EXCEPT !.op = "unlink", !.exp = e]
    <3>1. j.op = "unlink"
      BY DEF NoJob
    <3>2. Serve(r, "unlink", "read", j) /\ UNCHANGED rows
      BY <2>12 DEF UnlinkRead
    <3>. HIDE DEF j
    <3>3. MarkerJobs'
      BY <3>1, <3>2, ServeMarker
    <3>. QED
      BY <3>2, <3>3 DEF rows, MarkerAgrees
  <2>13. CASE UnlinkSave(r)
    <3>1. MarkerAgrees'
      BY <2>13, <1>0 DEF UnlinkSave, MarkerAgrees, TypeOK
    <3>. QED
      BY <2>13, <3>1, FinishMarker DEF UnlinkSave
  <2>14. ASSUME NEW e \in Expenses, NEW a \in Amounts,
                PatchRead(r, e, a) \/ EditRead(r, e)
         PROVE  MarkerAgrees' /\ MarkerJobs'
    <3>0. amount[e] \in Amounts
      BY <1>0 DEF TypeOK
    <3>1. PICK b \in Amounts, op \in {"patch", "edit"} :
            Serve(r, op, "read", Loaded(e, b)) /\ UNCHANGED rows
      BY <2>14, <3>0 DEF PatchRead, EditRead
    <3>2. (Loaded(e, b).line = NoLine) <=> (Loaded(e, b).by = "")
      <4>1. Loaded(e, b).line = line[e] /\ Loaded(e, b).by = by[e]
        BY DEF Loaded, NoJob
      <4>. QED
        BY <4>1 DEF MarkerAgrees
    <3>3. MarkerJobs'
      BY <3>1, <3>2, <1>0, LoadedType, ServeMarker
    <3>. QED
      BY <3>1, <3>3 DEF rows, MarkerAgrees
  <2>16. CASE PatchSave(r)
    <3>1. /\ job[r].exp \in Expenses
          /\ (job[r].line = NoLine) <=> (job[r].by = "")
      BY <2>16 DEF PatchSave, TypeInv, JobShape, MarkerJobs
    <3>2. /\ WriteRow(job[r].exp, job[r].kind, job[r].amt, job[r].line, job[r].by)
          /\ Finish(r)
      BY <2>16 DEF PatchSave
    <3>3. MarkerAgrees'
      BY <3>1, <3>2, <1>0 DEF WriteRow, MarkerAgrees, TypeOK
    <3>. QED
      BY <3>2, <3>3, FinishMarker
  <2>17. ASSUME NEW l \in Lines, RecurCheck(r, l)
         PROVE  MarkerAgrees' /\ MarkerJobs'
    <3>. DEFINE j == [NoJob EXCEPT !.op = "recur", !.line = l]
    <3>1. j.op = "recur"
      BY DEF NoJob
    <3>2. Serve(r, "recur", "read", j) /\ UNCHANGED rows
      BY <2>17 DEF RecurCheck
    <3>. HIDE DEF j
    <3>3. MarkerJobs'
      BY <3>1, <3>2, ServeMarker
    <3>. QED
      BY <3>2, <3>3 DEF rows, MarkerAgrees
  <2>18. ASSUME NEW e \in Expenses, RecurCommit(r, e)
         PROVE  MarkerAgrees' /\ MarkerJobs'
    <3>1. job[r].line # NoLine
      BY <2>18 DEF RecurCommit, TypeInv, JobShape
    <3>2. /\ WriteRow(e, "other", Outflow[job[r].line], job[r].line, "auto")
          /\ Finish(r)
      BY <2>18 DEF RecurCommit
    <3>3. MarkerAgrees'
      BY <3>1, <3>2, <1>0 DEF WriteRow, MarkerAgrees, TypeOK
    <3>. QED
      BY <3>2, <3>3, FinishMarker
  <2>19. CASE Abandon(r)
    BY <2>19, FinishMarker DEF Abandon, rows, MarkerAgrees
  <2>. QED
    BY <2>1, <2>2, <2>3, <2>4, <2>5, <2>6, <2>7, <2>8, <2>9, <2>10, <2>11, <2>12,
       <2>13, <2>14, <2>16, <2>17, <2>18, <2>19, ConstantsAssumption DEF Step
<1>. QED
  BY <1>1, <1>2

\* However requests interleave, an expense is marked as reconciled exactly
\* when it is attached to a line, as long as no line is deleted.
THEOREM MarkerAlwaysAgrees ==
    ASSUME "discard" \notin Operations
    PROVE  Spec => []MarkerAgrees
<1>1. Init => MarkerInv
  <2>. SUFFICES ASSUME Init PROVE MarkerInv
    OBVIOUS
  <2>1. MarkerAgrees
    BY DEF Init, MarkerAgrees
  <2>2. \A r \in Requests : job[r].op = "none"
    BY DEF Init, NoJob
  <2>. QED
    BY <2>1, <2>2 DEF MarkerInv
<1>2. MarkerInv => MarkerAgrees
  BY DEF MarkerInv
<1>3. TypeInv /\ MarkerInv /\ [Next]_vars => MarkerInv'
  BY NextMarkerInv
<1>. QED
  BY <1>1, <1>2, <1>3, InitTypeInv, NextTypeInv, PTL DEF Spec

(***************************************************************************)
(* The bound on a line, when every writer of an attachment locks it.       *)
(***************************************************************************)

\* A step of one request moves no other request.
LEMMA OthersUntouched ==
    ASSUME TypeInv, NEW r \in Requests, Step(r), NEW q \in Requests, q # r
    PROVE  pc'[q] = pc[q] /\ job'[q] = job[q]
  BY DEF Step, TypeInv, TypeOK, CreateExpense, DeleteExpense, Pair, Unpair, DiscardLine,
         PutCheck, PutCommit, LinkRead, AutoPick, AutoFetch, LinkCheck, LinkCommit,
         UnlinkRead, UnlinkSave, PatchRead, EditRead, PatchSave, RecurCheck,
         RecurCommit, Abandon, Serve, Finish

\* With locked operations only, the steps of the others never happen.
LEMMA OnlyLockedSteps ==
    ASSUME Operations \subseteq LockedOperations, NoUnlockedWriter, NEW r \in Requests
    PROVE  /\ ~ \E e \in Expenses, a \in Amounts : PatchRead(r, e, a)
           /\ ~ \E e \in Expenses : EditRead(r, e)
           /\ ~PatchSave(r)
           /\ ~ \E l \in Lines : RecurCheck(r, l)
           /\ ~ \E e \in Expenses : RecurCommit(r, e)
  BY DEF LockedOperations, NoUnlockedWriter, PatchRead, EditRead, RecurCheck, Serve,
         PatchSave, RecurCommit

\* And no request is ever a PATCH or a recurrence.
LEMMA NextNoUnlockedWriter ==
    ASSUME Operations \subseteq LockedOperations, TypeInv, NoUnlockedWriter,
           NEW r \in Requests, Step(r)
    PROVE  NoUnlockedWriter'
<1>1. \A q \in Requests \ {r} : job'[q] = job[q]
  BY OthersUntouched
<1>2. job'[r].op \notin {"save", "recur"}
  <2>1. job[r].op \notin {"save", "recur"} /\ job[r] \in Jobs
    BY DEF NoUnlockedWriter, TypeInv, TypeOK
  <2>2. job \in [Requests -> Jobs]
    BY DEF TypeInv, TypeOK
  <2>7. ASSUME NEW l \in Lines, NEW split \in [Expenses -> Amounts], PutCheck(r, l, split)
        PROVE  job'[r].op = "put"
    BY <2>2, <2>7 DEF PutCheck, Serve, NoJob
  <2>8. ASSUME NEW l \in Lines, NEW e \in Expenses, LinkRead(r, l, e)
        PROVE  job'[r].op = "link"
    BY <2>2, <2>8 DEF LinkRead, Serve, NoJob
  <2>9. ASSUME NEW l \in Lines, NEW e \in Expenses, AutoPick(r, l, e)
        PROVE  job'[r].op = "auto"
    BY <2>2, <2>9 DEF AutoPick, Serve, NoJob
  <2>10. ASSUME NEW e \in Expenses, UnlinkRead(r, e)
         PROVE  job'[r].op = "unlink"
    BY <2>2, <2>10 DEF UnlinkRead, Serve, NoJob
  <2>11. AutoFetch(r) => job'[r].op = job[r].op
    BY <2>1 DEF AutoFetch, Jobs, TypeInv, TypeOK
  <2>12. Finish(r) => job'[r].op = "none"
    <3>1. NoJob.op = "none"
      BY DEF NoJob
    <3>2. Finish(r) => job'[r] = NoJob
      BY <2>2 DEF Finish
    <3>. QED
      BY <3>1, <3>2
  <2>13. UNCHANGED job => job'[r].op = job[r].op
    OBVIOUS
  <2>. QED
    BY <2>1, <2>7, <2>8, <2>9, <2>10, <2>11, <2>12, <2>13, OnlyLockedSteps
       DEF Step, CreateExpense, DeleteExpense, Pair, Unpair, DiscardLine, PutCommit,
           LinkCheck, LinkCommit, UnlinkSave, Abandon
<1>. QED
  BY <1>1, <1>2 DEF NoUnlockedWriter

\* Locks are taken by whoever enters its transaction and released at its end.
LEMMA NextLockHeld ==
    ASSUME TypeInv, LockHeld, NEW r \in Requests, Step(r)
    PROVE  LockHeld'
<1>0. \A q \in Requests \ {r} : pc'[q] = pc[q] /\ job'[q] = job[q]
  BY OthersUntouched
<1>1. CASE Finish(r)
  BY <1>0, <1>1, ConstantsAssumption
     DEF Finish, LockHeld, Unlocked, TypeInv, TypeOK, JobShape
<1>2. CASE UNCHANGED lock /\ pc[r] # "locked" /\ pc'[r] # "locked"
  BY <1>0, <1>2, ConstantsAssumption DEF LockHeld, Unlocked, TypeInv, TypeOK
<1>3. ASSUME NEW l \in Lines, Unlocked(l), lock' = [lock EXCEPT ![l] = r],
             pc[r] # "locked", pc'[r] = "locked", job'[r].line = l
      PROVE  LockHeld'
  BY <1>0, <1>3, ConstantsAssumption
     DEF LockHeld, Unlocked, TypeInv, TypeOK, JobShape
<1>4. CASE UNCHANGED <<lock, pc, job>>
  BY <1>4 DEF LockHeld, Unlocked
<1>5. ASSUME NEW l \in Lines, NEW split \in [Expenses -> Amounts], PutCheck(r, l, split)
      PROVE  LockHeld'
  <2>1. [NoJob EXCEPT !.op = "put", !.line = l, !.split = split,
                      !.doomed = OwnedOn(l)].line = l
    BY DEF NoJob
  <2>2. /\ Unlocked(l)
        /\ lock' = [lock EXCEPT ![l] = r]
        /\ pc[r] # "locked"
        /\ pc'[r] = "locked"
        /\ job'[r].line = l
    BY <1>5, <2>1 DEF PutCheck, Serve, TypeInv, TypeOK
  <2>. QED
    BY <2>2, <1>3
<1>6. CASE LinkCheck(r)
  <2>1. job[r].line \in Lines
    BY <1>6 DEF LinkCheck, TypeInv, JobShape
  <2>2. /\ Unlocked(job[r].line)
        /\ lock' = [lock EXCEPT ![job[r].line] = r]
        /\ pc[r] # "locked"
        /\ pc'[r] = "locked"
        /\ job'[r].line = job[r].line
    BY <1>6 DEF LinkCheck, TypeInv, TypeOK
  <2>. QED
    BY <2>1, <2>2, <1>3
<1>. QED
  BY <1>1, <1>2, <1>4, <1>5, <1>6
     DEF Step, TypeInv, TypeOK, CreateExpense, DeleteExpense, Pair, Unpair, DiscardLine,
         PutCommit, LinkRead, AutoPick, AutoFetch, LinkCommit, UnlinkRead,
         UnlinkSave, PatchRead, EditRead, PatchSave, RecurCheck, RecurCommit,
         Abandon, Serve

\* What a locked writer does to the rows and to its own memory, short of
\* inserting rows, leaves every reservation standing.
LEMMA NextRowsReserved ==
    ASSUME Operations \subseteq LockedOperations, TypeInv, NoUnlockedWriter,
           RowsReserved, NEW r \in Requests, Step(r)
    PROVE  RowsReserved'
<1>0. /\ \A q \in Requests \ {r} : job'[q] = job[q]
      /\ NoJob.exp = NoExpense
      /\ \A e \in Expenses : NoJob.split[e] = 0
      /\ job \in [Requests -> Jobs]
  BY OthersUntouched DEF NoJob, Zero, TypeInv, TypeOK
<1>1. ASSUME \A e \in Expenses : Exists(e)' => Exists(e),
             job'[r].exp = job[r].exp \/ job'[r].exp = NoExpense \/ Exists(job'[r].exp),
             \A e \in Expenses : job'[r].split[e] = 0 \/ job'[r].split[e] = job[r].split[e]
      PROVE  RowsReserved'
  BY <1>0, <1>1, ConstantsAssumption DEF RowsReserved
<1>2. ASSUME NEW e \in Expenses, NEW a \in Amounts, CreateExpense(r, e, a)
      PROVE  RowsReserved'
  <2>1. UNCHANGED job
    BY <1>2 DEF CreateExpense
  <2>2. \A d \in Expenses \ {e} : Exists(d)' => Exists(d)
    BY <1>2 DEF CreateExpense, WriteRow, Exists, TypeInv, TypeOK
  <2>3. \A q \in Requests : job[q].split[e] = 0
    BY <1>2 DEF CreateExpense, Fresh
  <2>. QED
    BY <2>1, <2>2, <2>3 DEF RowsReserved
<1>3. ASSUME NEW l \in Lines, NEW split \in [Expenses -> Amounts], PutCheck(r, l, split)
      PROVE  RowsReserved'
  <2>1. job'[r].exp = NoExpense /\ job'[r].split = split
    BY <1>0, <1>3 DEF PutCheck, Serve, NoJob
  <2>2. \A e \in Expenses : Exists(e)' = Exists(e)
    BY <1>3 DEF PutCheck, rows, Exists
  <2>3. \A e \in Expenses : split[e] > 0 =>
          ~Exists(e) /\ \A q \in Requests : job[q].exp # e /\ job[q].split[e] = 0
    BY <1>3 DEF PutCheck, Fresh
  <2>4. \A e \in Expenses : split[e] \in Nat
    BY ConstantsAssumption
  <2>. QED
    BY <1>0, <2>1, <2>2, <2>3, <2>4, ConstantsAssumption DEF RowsReserved
<1>4. CASE PutCommit(r)
  <2>1. job'[r] = NoJob
    BY <1>0, <1>4 DEF PutCommit, Finish
  <2>2. \A e \in Expenses : job[r].split[e] > 0 \/ (Exists(e)' => Exists(e))
    BY <1>4 DEF PutCommit, Exists, TypeInv, TypeOK
  <2>3. \A q \in Requests \ {r}, e \in Expenses : job[q].split[e] > 0 => ~(job[r].split[e] > 0)
    BY DEF RowsReserved
  <2>. QED
    BY <1>0, <2>1, <2>2, <2>3, ConstantsAssumption DEF RowsReserved
<1>5. ASSUME NEW e \in Expenses, DeleteExpense(r, e)
      PROVE  RowsReserved'
  <2>1. UNCHANGED job
    BY <1>5 DEF DeleteExpense
  <2>2. \A d \in Expenses : Exists(d)' => Exists(d)
    BY <1>5 DEF DeleteExpense, WriteRow, Exists, TypeInv, TypeOK
  <2>. QED
    BY <2>1, <2>2, <1>1
<1>6. ASSUME UNCHANGED kind, UNCHANGED job
      PROVE  RowsReserved'
  BY <1>6, <1>1 DEF Exists
<1>7. ASSUME UNCHANGED kind, Finish(r)
      PROVE  RowsReserved'
  <2>1. job'[r] = NoJob
    BY <1>0, <1>7 DEF Finish
  <2>. QED
    BY <1>0, <1>1, <1>7, <2>1 DEF Exists
<1>8. ASSUME NEW e \in Expenses,
             UnlinkRead(r, e) \/ \E l \in Lines : LinkRead(r, l, e) \/ AutoPick(r, l, e)
      PROVE  RowsReserved'
  <2>1. job'[r].exp = e /\ job'[r].split = Zero
    <3>1. UnlinkRead(r, e) => job'[r].exp = e /\ job'[r].split = Zero
      BY <1>0 DEF UnlinkRead, Serve, NoJob
    <3>2. \A l \in Lines : LinkRead(r, l, e) => job'[r].exp = e /\ job'[r].split = Zero
      BY <1>0 DEF LinkRead, Serve, NoJob
    <3>3. \A l \in Lines : AutoPick(r, l, e) => job'[r].exp = e /\ job'[r].split = Zero
      BY <1>0 DEF AutoPick, Serve, NoJob
    <3>. QED
      BY <1>8, <3>1, <3>2, <3>3
  <2>2. Exists(e) /\ UNCHANGED kind
    BY <1>8 DEF UnlinkRead, LinkRead, AutoPick, rows
  <2>. QED
    BY <1>1, <2>1, <2>2 DEF Zero, Exists
<1>9. CASE AutoFetch(r)
  <2>1. job'[r].exp = job[r].exp /\ job'[r].split = job[r].split /\ UNCHANGED kind
    BY <1>0, <1>9 DEF AutoFetch, Jobs, rows
  <2>. QED
    BY <1>1, <2>1 DEF Exists
<1>. QED
  BY <1>2, <1>3, <1>4, <1>5, <1>6, <1>7, <1>8, <1>9, OnlyLockedSteps
     DEF Step, Pair, Unpair, DiscardLine, LinkCheck, LinkCommit, UnlinkSave, Abandon, rows

\* The amount a link was checked with survives until its commit.
LEMMA NextAmountCurrent ==
    ASSUME Operations \subseteq LockedOperations, TypeInv, NoUnlockedWriter,
           RowsReserved, AmountCurrent, NEW r \in Requests, Step(r)
    PROVE  AmountCurrent'
<1>0. /\ \A q \in Requests \ {r} : pc'[q] = pc[q] /\ job'[q] = job[q]
      /\ job \in [Requests -> Jobs] /\ pc \in [Requests -> {"idle", "picked", "read", "locked"}]
  BY OthersUntouched DEF TypeInv, TypeOK
<1>1. ASSUME \A e \in Expenses : \/ \A q \in Requests : job[q].exp # e
                                 \/ Exists(e)' => Exists(e) /\ amount'[e] = amount[e],
             \/ pc'[r] = "idle" \/ pc'[r] = "picked" \/ job'[r].op \notin {"link", "auto"}
             \/ amount'[job'[r].exp] = job'[r].amt
             \/ pc[r] = "read" /\ job'[r] = job[r]
             \/ pc'[r] = pc[r] /\ job'[r] = job[r]
      PROVE  AmountCurrent'
  <2>. SUFFICES ASSUME NEW q \in Requests, pc'[q] \in {"read", "locked"},
                       job'[q].op \in {"link", "auto"}, kind'[job'[q].exp] # "absent"
                PROVE  amount'[job'[q].exp] = job'[q].amt
    BY DEF AmountCurrent, Exists
  <2>1. CASE job'[q] = job[q] /\ pc[q] \in {"read", "locked"}
    <3>1. job[q].exp \in Expenses
      BY <2>1 DEF TypeInv, JobShape
    <3>2. Exists(job[q].exp) /\ amount'[job[q].exp] = amount[job[q].exp]
      BY <1>1, <2>1, <3>1 DEF Exists
    <3>. QED
      BY <2>1, <3>2 DEF AmountCurrent
  <2>. QED
    BY <1>0, <1>1, <2>1
<1>2. ASSUME UNCHANGED <<kind, amount>>
      PROVE  \A e \in Expenses : Exists(e)' => Exists(e) /\ amount'[e] = amount[e]
  BY <1>2 DEF Exists
<1>3. ASSUME NEW e \in Expenses, NEW a \in Amounts, CreateExpense(r, e, a)
      PROVE  AmountCurrent'
  <2>1. \A q \in Requests : job[q].exp # e
    BY <1>3 DEF CreateExpense, Fresh
  <2>2. \A d \in Expenses \ {e} : Exists(d)' => Exists(d) /\ amount'[d] = amount[d]
    BY <1>3 DEF CreateExpense, WriteRow, Exists, TypeInv, TypeOK
  <2>3. pc'[r] = pc[r] /\ job'[r] = job[r]
    BY <1>3 DEF CreateExpense
  <2>. QED
    BY <1>1, <2>1, <2>2, <2>3
<1>4. ASSUME NEW e \in Expenses, DeleteExpense(r, e)
      PROVE  AmountCurrent'
  <2>1. \A d \in Expenses : Exists(d)' => Exists(d) /\ amount'[d] = amount[d]
    BY <1>4 DEF DeleteExpense, WriteRow, Exists, TypeInv, TypeOK
  <2>2. pc'[r] = pc[r] /\ job'[r] = job[r]
    BY <1>4 DEF DeleteExpense
  <2>. QED
    BY <1>1, <2>1, <2>2
<1>5. CASE PutCommit(r)
  <2>1. \A e \in Expenses : \/ \A q \in Requests : job[q].exp # e
                            \/ Exists(e)' => Exists(e) /\ amount'[e] = amount[e]
    <3>. SUFFICES ASSUME NEW e \in Expenses, ~(job[r].split[e] > 0), Exists(e)'
                  PROVE  Exists(e) /\ amount'[e] = amount[e]
      BY DEF RowsReserved
    <3>. QED
      BY <1>5 DEF PutCommit, Exists, TypeInv, TypeOK
  <2>2. pc'[r] = "idle"
    BY <1>0, <1>5 DEF PutCommit, Finish
  <2>. QED
    BY <1>1, <2>1, <2>2
<1>6. ASSUME UNCHANGED <<kind, amount>>, Finish(r) \/ UNCHANGED <<pc, job>>
      PROVE  AmountCurrent'
  BY <1>0, <1>1, <1>2, <1>6 DEF Finish
<1>7. ASSUME NEW l \in Lines, NEW split \in [Expenses -> Amounts], PutCheck(r, l, split)
      PROVE  AmountCurrent'
  <2>1. job'[r].op = "put"
    BY <1>0, <1>7 DEF PutCheck, Serve, NoJob
  <2>2. UNCHANGED <<kind, amount>>
    BY <1>7 DEF PutCheck, rows
  <2>. QED
    BY <1>1, <1>2, <2>1, <2>2
<1>8. ASSUME NEW l \in Lines, NEW e \in Expenses, LinkRead(r, l, e)
      PROVE  AmountCurrent'
  <2>1. job'[r].exp = e /\ job'[r].amt = amount[e]
    BY <1>0, <1>8 DEF LinkRead, Serve, NoJob
  <2>2. UNCHANGED <<kind, amount>>
    BY <1>8 DEF LinkRead, rows
  <2>. QED
    BY <1>1, <1>2, <2>1, <2>2
<1>9. ASSUME NEW l \in Lines, NEW e \in Expenses, AutoPick(r, l, e)
      PROVE  AmountCurrent'
  <2>1. pc'[r] = "picked"
    BY <1>0, <1>9 DEF AutoPick, Serve
  <2>2. UNCHANGED <<kind, amount>>
    BY <1>9 DEF AutoPick, rows
  <2>. QED
    BY <1>1, <1>2, <2>1, <2>2
<1>10. CASE AutoFetch(r)
  <2>1. job'[r].exp = job[r].exp /\ job'[r].amt = amount[job[r].exp]
    BY <1>0, <1>10 DEF AutoFetch, Jobs
  <2>2. UNCHANGED <<kind, amount>>
    BY <1>10 DEF AutoFetch, rows
  <2>. QED
    BY <1>1, <1>2, <2>1, <2>2
<1>11. CASE LinkCheck(r)
  <2>1. pc[r] = "read" /\ job'[r] = job[r]
    BY <1>11 DEF LinkCheck
  <2>2. UNCHANGED <<kind, amount>>
    BY <1>11 DEF LinkCheck, rows
  <2>. QED
    BY <1>1, <1>2, <2>1, <2>2
<1>12. ASSUME NEW e \in Expenses, UnlinkRead(r, e)
       PROVE  AmountCurrent'
  <2>1. job'[r].op = "unlink"
    BY <1>0, <1>12 DEF UnlinkRead, Serve, NoJob
  <2>2. UNCHANGED <<kind, amount>>
    BY <1>12 DEF UnlinkRead, rows
  <2>. QED
    BY <1>1, <1>2, <2>1, <2>2
<1>. QED
  BY <1>3, <1>4, <1>5, <1>6, <1>7, <1>8, <1>9, <1>10, <1>11, <1>12, OnlyLockedSteps
     DEF Step, Pair, Unpair, DiscardLine, LinkCommit, UnlinkSave, Abandon, rows

\* Line l carries nothing it did not carry before: the only change is a row
\* that left it.
Shrinks(l) ==
    \A e \in On(l)' : e \in On(l) /\ kind'[e] = kind[e] /\ amount'[e] = amount[e]

\* A line that shrinks holds no larger sum, in total and beside the split.
LEMMA ShrunkSums ==
    ASSUME TypeInv, TypeInv', NEW l \in Lines, Shrinks(l)
    PROVE  /\ AllocatedTotal(l)' <= AllocatedTotal(l)
           /\ AllocatedTotal(l)' \in Nat
           /\ AllocatedTotal(l) \in Nat
           /\ OwnedOn(l)' \subseteq OwnedOn(l)
           /\ SqlSum(amount', On(l)' \ OwnedOn(l)') <= SqlSum(amount, On(l) \ OwnedOn(l))
           /\ SqlSum(amount', On(l)' \ OwnedOn(l)') \in Nat
           /\ SqlSum(amount, On(l) \ OwnedOn(l)) \in Nat
<1>1. amount \in [Expenses -> Amounts] /\ amount' \in [Expenses -> Amounts]
  BY DEF TypeInv, TypeOK
<1>2. /\ On(l) \in SUBSET Expenses
      /\ On(l)' \in SUBSET On(l)
      /\ \A e \in On(l)' : amount'[e] = amount[e]
  BY DEF Shrinks, On
<1>3. OwnedOn(l)' \subseteq OwnedOn(l)
  BY DEF Shrinks, On, OwnedOn
<1>4. /\ On(l) \ OwnedOn(l) \in SUBSET Expenses
      /\ On(l)' \ OwnedOn(l)' \in SUBSET (On(l) \ OwnedOn(l))
  BY <1>2 DEF Shrinks, OwnedOn
<1>5. /\ SqlSum(amount', On(l)') <= SqlSum(amount, On(l))
      /\ SqlSum(amount', On(l)') \in Nat
      /\ SqlSum(amount, On(l)) \in Nat
  BY <1>1, <1>2, SumShrinks
<1>6. /\ SqlSum(amount', On(l)' \ OwnedOn(l)') <= SqlSum(amount, On(l) \ OwnedOn(l))
      /\ SqlSum(amount', On(l)' \ OwnedOn(l)') \in Nat
      /\ SqlSum(amount, On(l) \ OwnedOn(l)) \in Nat
  BY <1>1, <1>2, <1>4, SumShrinks
<1>. QED
  BY <1>3, <1>5, <1>6 DEF AllocatedTotal

\* Of the locked writers only the commit of a split or of a link puts a row on
\* a line, and it is the line the request has locked.
LEMMA OthersShrink ==
    ASSUME TypeInv, NEW r \in Requests, Step(r), NEW l \in Lines,
           ~PatchSave(r), ~ \E e \in Expenses : RecurCommit(r, e),
           ~(PutCommit(r) \/ LinkCommit(r)) \/ job[r].line # l
    PROVE  Shrinks(l)
<1>0. /\ kind \in [Expenses -> Kinds]
      /\ amount \in [Expenses -> Amounts]
      /\ line \in [Expenses -> Lines \cup {NoLine}]
      /\ l # NoLine
  BY ConstantsAssumption DEF TypeInv, TypeOK
<1>1. ASSUME UNCHANGED rows
      PROVE  Shrinks(l)
  BY <1>1 DEF rows, Shrinks, On, Exists
<1>2. ASSUME NEW e \in Expenses, NEW a \in Amounts, CreateExpense(r, e, a)
      PROVE  Shrinks(l)
  BY <1>0, <1>2 DEF CreateExpense, WriteRow, Shrinks, On, Exists
<1>3. ASSUME NEW e \in Expenses, DeleteExpense(r, e)
      PROVE  Shrinks(l)
  BY <1>0, <1>3 DEF DeleteExpense, WriteRow, Shrinks, On, Exists
<1>4. CASE PutCommit(r)
  <2>. SUFFICES ASSUME NEW e \in Expenses, kind'[e] # "absent", line'[e] = l
                PROVE  /\ kind[e] # "absent" /\ line[e] = l
                       /\ kind'[e] = kind[e] /\ amount'[e] = amount[e]
    BY DEF Shrinks, On, Exists
  <2>1. ~(job[r].split[e] > 0) /\ e \notin job[r].doomed
    BY <1>0, <1>4 DEF PutCommit
  <2>. QED
    BY <1>0, <1>4, <2>1 DEF PutCommit
<1>5. CASE LinkCommit(r)
  <2>1. job[r].exp \in Expenses
    BY <1>5 DEF LinkCommit, TypeInv, JobShape
  <2>. QED
    BY <1>0, <1>5, <2>1 DEF LinkCommit, Shrinks, On, Exists
<1>6. CASE UnlinkSave(r)
  <2>1. job[r].exp \in Expenses
    BY <1>6 DEF UnlinkSave, TypeInv, JobShape
  <2>. QED
    BY <1>0, <1>6, <2>1 DEF UnlinkSave, Shrinks, On, Exists
<1>7. ASSUME NEW m \in Lines, DiscardLine(r, m)
      PROVE  Shrinks(l)
  BY <1>0, <1>7 DEF DiscardLine, Shrinks, On, Exists
<1>. QED
  BY <1>1, <1>2, <1>3, <1>4, <1>5, <1>6, <1>7
     DEF Step, Pair, Unpair, DiscardLine, PutCheck, LinkRead, AutoPick, AutoFetch, LinkCheck,
         UnlinkRead, PatchRead, EditRead, RecurCheck, Abandon

\* A split that commits fits: its rows were summed against the line under the
\* lock, and the rows it keeps have only shrunk since.
LEMMA SplitFits ==
    ASSUME TypeInv, TypeInv', CheckHolds, NEW r \in Requests, PutCommit(r),
           NEW l \in Lines, job[r].line = l
    PROVE  AllocatedTotal(l)' <= Outflow[l]
<1>. DEFINE new == {e \in Expenses : job[r].split[e] > 0}
            K == On(l) \ OwnedOn(l)
            A == On(l)' \cap new
            B == On(l)' \ new
<1>1. /\ job[r].split \in [Expenses -> Amounts]
      /\ amount \in [Expenses -> Amounts]
      /\ amount' \in [Expenses -> Amounts]
  BY DEF TypeInv, TypeOK, Jobs
<1>2. /\ OwnedOn(l) \subseteq job[r].doomed
      /\ SqlSum(job[r].split, Expenses) + SqlSum(amount, K) <= Outflow[l]
  BY DEF CheckHolds, PutCommit
<1>3. /\ A \in SUBSET Expenses /\ B \in SUBSET Expenses /\ K \in SUBSET Expenses
      /\ A \cap B = {} /\ A \cup B = On(l)'
  BY DEF On
<1>4. \A e \in A : amount'[e] = job[r].split[e]
  BY DEF PutCommit
<1>5. \A e \in B : e \in K /\ amount'[e] = amount[e]
  <2>. SUFFICES ASSUME NEW e \in Expenses, kind'[e] # "absent", line'[e] = l,
                       ~(job[r].split[e] > 0)
                PROVE  e \in K /\ amount'[e] = amount[e]
    BY DEF On, Exists
  <2>1. e \notin job[r].doomed
    BY ConstantsAssumption DEF PutCommit
  <2>2. kind[e] # "absent" /\ line[e] = l /\ amount'[e] = amount[e]
    BY <2>1 DEF PutCommit
  <2>. QED
    BY <1>2, <2>1, <2>2 DEF On, Exists
<1>. HIDE DEF new, K, A, B
<1>6. SqlSum(amount', A) <= SqlSum(job[r].split, Expenses)
  BY <1>1, <1>3, <1>4, SumShrinks
<1>7. B \in SUBSET K
  BY <1>5
<1>8. SqlSum(amount', B) <= SqlSum(amount, K)
  BY <1>1, <1>3, <1>5, <1>7, SumShrinks
<1>9. SqlSum(amount', A \cup B) = SqlSum(amount', A) + SqlSum(amount', B)
  BY <1>1, <1>3, SqlSumAssumption
<1>10. /\ SqlSum(amount', A) \in Nat /\ SqlSum(amount', B) \in Nat
       /\ SqlSum(job[r].split, Expenses) \in Nat /\ SqlSum(amount, K) \in Nat
       /\ Outflow[l] \in Nat
  BY <1>1, <1>3, SqlSumAssumption, ConstantsAssumption
<1>11. SqlSum(amount', A \cup B) <= Outflow[l]
  BY <1>2, <1>6, <1>8, <1>9, <1>10
<1>. QED
  BY <1>3, <1>11 DEF AllocatedTotal

\* So does a link, because the amount it was checked with is still current.
LEMMA LinkFits ==
    ASSUME TypeInv, TypeInv', CheckHolds, AmountCurrent, AllocationsFit,
           NEW r \in Requests, LinkCommit(r), NEW l \in Lines, job[r].line = l
    PROVE  AllocatedTotal(l)' <= Outflow[l]
<1>. DEFINE e == job[r].exp
<1>1. /\ e \in Expenses
      /\ On(l) \in SUBSET Expenses
      /\ amount \in [Expenses -> Amounts]
      /\ amount' = amount
  BY DEF LinkCommit, TypeInv, TypeOK, JobShape, On
<1>2. amount[e] = job[r].amt /\ AllocatedTotal(l) + amount[e] <= Outflow[l]
  BY DEF LinkCommit, AmountCurrent, CheckHolds
<1>3. On(l)' = On(l) \cup {e}
  BY <1>1 DEF LinkCommit, On, Exists, TypeInv, TypeOK
<1>4. CASE e \in On(l)
  <2>1. On(l)' = On(l)
    BY <1>3, <1>4
  <2>. QED
    BY <1>1, <2>1 DEF AllocatedTotal, AllocationsFit
<1>5. CASE e \notin On(l)
  <2>1. SqlSum(amount, On(l) \cup {e}) = SqlSum(amount, On(l)) + amount[e]
    BY <1>1, <1>5, SumAddsRow
  <2>. QED
    BY <1>1, <1>2, <1>3, <2>1 DEF AllocatedTotal
<1>. QED
  BY <1>4, <1>5

\* No step of a locked writer overfills a line.
LEMMA NextAllocationsFit ==
    ASSUME Operations \subseteq LockedOperations, TypeInv, TypeInv', NoUnlockedWriter,
           CheckHolds, AmountCurrent, AllocationsFit, NEW r \in Requests, Step(r)
    PROVE  AllocationsFit'
<1>. SUFFICES ASSUME NEW l \in Lines PROVE AllocatedTotal(l)' <= Outflow[l]
  BY DEF AllocationsFit
<1>1. CASE PutCommit(r) /\ job[r].line = l
  BY <1>1, SplitFits
<1>2. CASE LinkCommit(r) /\ job[r].line = l
  BY <1>2, LinkFits
<1>3. CASE Shrinks(l)
  <2>1. AllocatedTotal(l)' <= AllocatedTotal(l) /\ AllocatedTotal(l)' \in Nat
        /\ AllocatedTotal(l) \in Nat
    BY <1>3, ShrunkSums
  <2>2. AllocatedTotal(l) <= Outflow[l] /\ Outflow[l] \in Nat
    BY ConstantsAssumption DEF AllocationsFit
  <2>. QED
    BY <2>1, <2>2
<1>. QED
  BY <1>1, <1>2, <1>3, OthersShrink, OnlyLockedSteps

\* A request that has just entered its transaction has checked what it will write.
LEMMA EntersChecked ==
    ASSUME TypeInv, NEW r \in Requests, Step(r), NEW l \in Lines,
           pc'[r] = "locked", job'[r].line = l
    PROVE  /\ job'[r].op = "put" =>
                /\ OwnedOn(l)' \subseteq job'[r].doomed
                /\ SqlSum(job'[r].split, Expenses)
                     + SqlSum(amount', On(l)' \ OwnedOn(l)') <= Outflow[l]
           /\ job'[r].op \in {"link", "auto"} =>
                AllocatedTotal(l)' + job'[r].amt <= Outflow[l]
<1>1. ASSUME NEW k \in Lines, NEW split \in [Expenses -> Amounts], PutCheck(r, k, split)
      PROVE  /\ job'[r].op = "put"
             /\ job'[r].line = k
             /\ OwnedOn(k)' \subseteq job'[r].doomed
             /\ SqlSum(job'[r].split, Expenses)
                  + SqlSum(amount', On(k)' \ OwnedOn(k)') <= Outflow[k]
  <2>1. /\ job'[r].op = "put"
        /\ job'[r].line = k
        /\ job'[r].doomed = OwnedOn(k)
        /\ job'[r].split = split
    BY <1>1 DEF PutCheck, Serve, NoJob, TypeInv, TypeOK
  <2>2. On(k)' = On(k) /\ OwnedOn(k)' = OwnedOn(k) /\ amount' = amount
    BY <1>1 DEF PutCheck, rows, On, OwnedOn, Exists
  <2>3. SqlSum(split, Expenses) + SqlSum(amount, On(k) \ OwnedOn(k)) <= Outflow[k]
    BY <1>1 DEF PutCheck
  <2>. QED
    BY <2>1, <2>2, <2>3
<1>2. ASSUME NEW k \in Lines, LinkCheck(r), job[r].line = k
      PROVE  /\ job'[r] = job[r]
             /\ job[r].op \in {"link", "auto"}
             /\ AllocatedTotal(k)' + job[r].amt <= Outflow[k]
  <2>1. On(k)' = On(k) /\ amount' = amount /\ job'[r] = job[r]
    BY <1>2 DEF LinkCheck, rows, On, Exists
  <2>2. /\ job[r].op \in {"link", "auto"}
        /\ SqlSum(amount, On(k) \ {}) + job[r].amt <= Outflow[k]
    BY <1>2 DEF LinkCheck, AllocationFits
  <2>3. On(k) \ {} = On(k)
    OBVIOUS
  <2>. QED
    BY <2>1, <2>2, <2>3 DEF AllocatedTotal
<1>3. pc'[r] = "locked" =>
        \/ \E k \in Lines, split \in [Expenses -> Amounts] : PutCheck(r, k, split)
        \/ LinkCheck(r)
  BY DEF Step, TypeInv, TypeOK, CreateExpense, DeleteExpense, Pair, Unpair, DiscardLine, PutCommit,
         LinkRead, AutoPick, AutoFetch, LinkCommit, UnlinkRead, UnlinkSave, PatchRead,
         EditRead, PatchSave, RecurCheck, RecurCommit, Abandon, Serve, Finish
<1>4. CASE LinkCheck(r)
  <2>1. job[r].line = l
    BY <1>4 DEF LinkCheck
  <2>. QED
    BY <1>2, <1>4, <2>1
<1>5. ASSUME NEW k \in Lines, NEW split \in [Expenses -> Amounts], PutCheck(r, k, split)
      PROVE  /\ l = k
             /\ job'[r].op = "put"
             /\ OwnedOn(k)' \subseteq job'[r].doomed
             /\ SqlSum(job'[r].split, Expenses)
                  + SqlSum(amount', On(k)' \ OwnedOn(k)') <= Outflow[k]
  BY <1>1, <1>5
<1>. QED
  BY <1>3, <1>4, <1>5

\* While one request holds a line, nobody else adds to it: what it checked
\* under the lock is still true when it commits.
LEMMA NextCheckHolds ==
    ASSUME Operations \subseteq LockedOperations, TypeInv, TypeInv', NoUnlockedWriter,
           LockHeld, CheckHolds, NEW r \in Requests, Step(r)
    PROVE  CheckHolds'
<1>0. \A q \in Requests \ {r} : pc'[q] = pc[q] /\ job'[q] = job[q]
  BY OthersUntouched
<1>1. ASSUME NEW q \in Requests, NEW l \in Lines, pc[q] = "locked", job[q].line = l,
             Shrinks(l)
      PROVE  /\ job[q].op = "put" =>
                  /\ OwnedOn(l)' \subseteq job[q].doomed
                  /\ SqlSum(job[q].split, Expenses)
                       + SqlSum(amount', On(l)' \ OwnedOn(l)') <= Outflow[l]
             /\ job[q].op \in {"link", "auto"} =>
                  AllocatedTotal(l)' + job[q].amt <= Outflow[l]
  <2>1. /\ job[q].split \in [Expenses -> Amounts]
        /\ job[q].amt \in Nat
        /\ Outflow[l] \in Nat
    BY ConstantsAssumption DEF TypeInv, TypeOK, Jobs
  <2>2. Expenses \in SUBSET Expenses
    OBVIOUS
  <2>3. SqlSum(job[q].split, Expenses) \in Nat
    BY <2>1, <2>2, SqlSumAssumption
  <2>4. /\ AllocatedTotal(l)' <= AllocatedTotal(l)
        /\ AllocatedTotal(l)' \in Nat
        /\ AllocatedTotal(l) \in Nat
        /\ OwnedOn(l)' \subseteq OwnedOn(l)
        /\ SqlSum(amount', On(l)' \ OwnedOn(l)') <= SqlSum(amount, On(l) \ OwnedOn(l))
        /\ SqlSum(amount', On(l)' \ OwnedOn(l)') \in Nat
        /\ SqlSum(amount, On(l) \ OwnedOn(l)) \in Nat
    BY <1>1, ShrunkSums
  <2>5. job[q].op = "put" =>
          /\ OwnedOn(l) \subseteq job[q].doomed
          /\ SqlSum(job[q].split, Expenses) + SqlSum(amount, On(l) \ OwnedOn(l)) <= Outflow[l]
    BY <1>1 DEF CheckHolds
  <2>6. job[q].op \in {"link", "auto"} => AllocatedTotal(l) + job[q].amt <= Outflow[l]
    BY <1>1 DEF CheckHolds
  <2>. QED
    BY <2>1, <2>3, <2>4, <2>5, <2>6
<1>2. ASSUME NEW q \in Requests, NEW l \in Lines, q # r, pc[q] = "locked", job[q].line = l
      PROVE  Shrinks(l)
  <2>1. lock[l] = q
    BY <1>2 DEF LockHeld
  <2>2. PutCommit(r) \/ LinkCommit(r) => lock[job[r].line] = r
    BY DEF PutCommit, LinkCommit, LockHeld
  <2>. QED
    BY <1>2, <2>1, <2>2, OthersShrink, OnlyLockedSteps
<1>. SUFFICES ASSUME NEW q \in Requests, NEW l \in Lines, pc'[q] = "locked",
                     job'[q].line = l
              PROVE  /\ job'[q].op = "put" =>
                          /\ OwnedOn(l)' \subseteq job'[q].doomed
                          /\ SqlSum(job'[q].split, Expenses)
                               + SqlSum(amount', On(l)' \ OwnedOn(l)') <= Outflow[l]
                     /\ job'[q].op \in {"link", "auto"} =>
                          AllocatedTotal(l)' + job'[q].amt <= Outflow[l]
  BY DEF CheckHolds
<1>3. CASE q # r
  BY <1>0, <1>1, <1>2, <1>3
<1>4. CASE q = r
  BY <1>4, EntersChecked
<1>. QED
  BY <1>3, <1>4

\* The invariant of the locked writers is inductive.
LEMMA NextLockedInv ==
    ASSUME Operations \subseteq LockedOperations
    PROVE  TypeInv /\ TypeInv' /\ LockedInv /\ [Next]_vars => LockedInv'
<1>. SUFFICES ASSUME TypeInv, TypeInv', LockedInv, [Next]_vars PROVE LockedInv'
  OBVIOUS
<1>1. CASE UNCHANGED vars
  <2>1. LockHeld'
    BY <1>1 DEF vars, LockedInv, LockHeld, Unlocked
  <2>2. RowsReserved' /\ AmountCurrent' /\ NoUnlockedWriter'
    BY <1>1 DEF vars, LockedInv, RowsReserved, AmountCurrent, NoUnlockedWriter, Exists
  <2>3. \A l \in Lines : On(l)' = On(l) /\ OwnedOn(l)' = OwnedOn(l)
    BY <1>1 DEF vars, On, OwnedOn, Exists
  <2>4. CheckHolds' /\ AllocationsFit'
    BY <1>1, <2>3 DEF vars, LockedInv, CheckHolds, AllocationsFit, AllocatedTotal
  <2>. QED
    BY <2>1, <2>2, <2>4 DEF LockedInv
<1>2. CASE Next
  <2>. PICK r \in Requests : Step(r)
    BY <1>2 DEF Next
  <2>. QED
    BY NextNoUnlockedWriter, NextLockHeld, NextRowsReserved, NextAmountCurrent,
       NextCheckHolds, NextAllocationsFit
       DEF LockedInv
<1>. QED
  BY <1>1, <1>2

\* At the start no row is attached and no lock is held.
LEMMA InitLockedInv == Init => LockedInv
<1>. SUFFICES ASSUME Init PROVE LockedInv
  OBVIOUS
<1>1. /\ \A r \in Requests : pc[r] = "idle" /\ job[r] = NoJob
      /\ \A l \in Lines : Unlocked(l) /\ On(l) = {}
      /\ amount = Zero
  BY DEF Init, Unlocked, On, Exists
<1>2. NoJob.op = "none" /\ \A e \in Expenses : NoJob.split[e] = 0
  BY DEF NoJob, Zero
<1>3. SqlSum(Zero, {}) = 0
  <2>1. {} \in SUBSET Expenses /\ {} \cap {} = {} /\ {} \cup {} = {}
    OBVIOUS
  <2>2. SqlSum(Zero, {}) \in Nat
    BY <2>1, NoJobIsJob, SqlSumAssumption
  <2>3. SqlSum(Zero, {} \cup {}) = SqlSum(Zero, {}) + SqlSum(Zero, {})
    BY <2>1, NoJobIsJob, SqlSumAssumption
  <2>4. SqlSum(Zero, {}) = SqlSum(Zero, {}) + SqlSum(Zero, {})
    BY <2>1, <2>3
  <2>5. \A n \in Nat : n = n + n => n = 0
    OBVIOUS
  <2>. QED
    BY <2>2, <2>4, <2>5, Zenon
<1>4. AllocationsFit
  <2>1. \A l \in Lines : AllocatedTotal(l) = 0 /\ Outflow[l] \in Nat
    BY <1>1, <1>3, ConstantsAssumption DEF AllocatedTotal
  <2>. QED
    BY <2>1 DEF AllocationsFit
<1>. QED
  BY <1>1, <1>2, <1>4
     DEF LockedInv, LockHeld, RowsReserved, AmountCurrent, CheckHolds, NoUnlockedWriter

LEMMA LockedInvariant ==
    ASSUME Operations \subseteq LockedOperations
    PROVE  Spec => [](TypeInv /\ LockedInv)
<1>1. TypeInv /\ TypeInv' /\ LockedInv /\ [Next]_vars => LockedInv'
  BY NextLockedInv
<1>. QED
  BY <1>1, InitTypeInv, NextTypeInv, InitLockedInv, PTL DEF Spec

\* When every writer of an attachment locks the line first, what each of them
\* has checked stays true until it commits, whoever else runs.
THEOREM LockedWritersHold ==
    ASSUME Operations \subseteq LockedOperations
    PROVE  Spec => []LockedInv
  BY LockedInvariant, PTL

\* When every request that can put an expense on a bank line locks the line
\* first, no line is ever split for more than it holds, however many requests
\* run at once.
THEOREM LockedSplitFits ==
    ASSUME Operations \subseteq LockedOperations
    PROVE  Spec => []AllocationsFit
<1>1. LockedInv => AllocationsFit
  BY DEF LockedInv
<1>. QED
  BY <1>1, LockedInvariant, PTL

(***************************************************************************)
(* What a split replaces.                                                  *)
(***************************************************************************)

\* What a split is about to delete is never a row the editor does not own.
DoomedAreOwned == \A r \in Requests : \A e \in job[r].doomed : kind[e] # "other"

\* A doomed row cannot become somebody else's: its id is not given again.
LEMMA NextDoomedAreOwned ==
    ASSUME Operations \subseteq LockedOperations, TypeInv, NoUnlockedWriter,
           DoomedAreOwned, NEW r \in Requests, Step(r)
    PROVE  DoomedAreOwned'
<1>0. /\ \A q \in Requests \ {r} : job'[q] = job[q]
      /\ job \in [Requests -> Jobs] /\ NoJob.doomed = {}
      /\ kind \in [Expenses -> Kinds]
  BY OthersUntouched DEF NoJob, TypeInv, TypeOK
<1>1. ASSUME job'[r].doomed \subseteq job[r].doomed \cup {e \in Expenses : kind[e] = "bank"},
             \A e \in Expenses : kind'[e] = "other" =>
                kind[e] = "other" \/ \A q \in Requests : e \notin job[q].doomed,
             UNCHANGED kind \/ job'[r].doomed \subseteq job[r].doomed
      PROVE  DoomedAreOwned'
  <2>1. \A q \in Requests : job'[q].doomed \subseteq Expenses
    BY <1>0, <1>1 DEF Jobs
  <2>. QED
    BY <1>0, <1>1, <2>1 DEF DoomedAreOwned
<1>2. ASSUME NEW e \in Expenses, NEW a \in Amounts, CreateExpense(r, e, a)
      PROVE  DoomedAreOwned'
  BY <1>0, <1>1, <1>2 DEF CreateExpense, WriteRow, Fresh
<1>3. ASSUME NEW e \in Expenses, DeleteExpense(r, e)
      PROVE  DoomedAreOwned'
  BY <1>0, <1>1, <1>3 DEF DeleteExpense, WriteRow
<1>4. ASSUME NEW l \in Lines, NEW split \in [Expenses -> Amounts], PutCheck(r, l, split)
      PROVE  DoomedAreOwned'
  <2>1. job'[r].doomed = OwnedOn(l) /\ UNCHANGED kind
    BY <1>0, <1>4 DEF PutCheck, Serve, NoJob, rows
  <2>. QED
    BY <1>1, <2>1 DEF OwnedOn, On
<1>5. ASSUME Finish(r), \A e \in Expenses : kind'[e] = "other" => kind[e] = "other"
      PROVE  DoomedAreOwned'
  BY <1>0, <1>1, <1>5 DEF Finish
<1>6. CASE PutCommit(r)
  BY <1>0, <1>5, <1>6 DEF PutCommit
<1>7. ASSUME UNCHANGED kind, job'[r].doomed \subseteq job[r].doomed
      PROVE  DoomedAreOwned'
  BY <1>1, <1>7
<1>8. ASSUME NEW e \in Expenses,
             UnlinkRead(r, e) \/ \E l \in Lines : LinkRead(r, l, e) \/ AutoPick(r, l, e)
      PROVE  DoomedAreOwned'
  <2>1. UnlinkRead(r, e) => job'[r].doomed = {}
    BY <1>0 DEF UnlinkRead, Serve, NoJob
  <2>2. \A l \in Lines : LinkRead(r, l, e) => job'[r].doomed = {}
    BY <1>0 DEF LinkRead, Serve, NoJob
  <2>3. \A l \in Lines : AutoPick(r, l, e) => job'[r].doomed = {}
    BY <1>0 DEF AutoPick, Serve, NoJob
  <2>4. UNCHANGED kind
    BY <1>8 DEF UnlinkRead, LinkRead, AutoPick, rows
  <2>. QED
    BY <1>7, <1>8, <2>1, <2>2, <2>3, <2>4
<1>9. CASE AutoFetch(r)
  <2>1. job'[r].doomed = job[r].doomed /\ UNCHANGED kind
    BY <1>0, <1>9 DEF AutoFetch, Jobs, rows
  <2>. QED
    BY <1>7, <2>1
<1>. QED
  BY <1>2, <1>3, <1>4, <1>5, <1>6, <1>7, <1>8, <1>9, OnlyLockedSteps
     DEF Step, Pair, Unpair, DiscardLine, LinkCheck, LinkCommit, UnlinkSave, Abandon, rows

\* The one step that ends a split by changing rows is its commit.
LEMMA CommitIsPutCommit ==
    ASSUME TypeInv, NEW r \in Requests, NEW q \in Requests, Step(q), Commits(r, "put")
    PROVE  PutCommit(r)
<1>1. q = r
  BY OthersUntouched DEF Commits
<1>. QED
  BY <1>1
     DEF Commits, Step, TypeInv, TypeOK, CreateExpense, DeleteExpense, Pair, Unpair,
         DiscardLine, PutCheck, LinkRead, AutoPick, AutoFetch, LinkCheck, LinkCommit,
         UnlinkRead, UnlinkSave, PatchRead, EditRead, PatchSave, RecurCheck,
         RecurCommit, Abandon, Serve

LEMMA PutCommitReplaces ==
    ASSUME TypeInv, RowsReserved, CheckHolds, DoomedAreOwned,
           NEW r \in Requests, NEW l \in Lines, PutCommit(r), job[r].line = l
    PROVE  /\ OwnedOn(l)' = {e \in Expenses : job[r].split[e] > 0}
           /\ \A e \in Expenses : kind[e] = "other" =>
                <<kind'[e], amount'[e], line'[e], by'[e]>>
                    = <<kind[e], amount[e], line[e], by[e]>>
<1>1. OwnedOn(l) \subseteq job[r].doomed
  BY DEF CheckHolds, PutCommit
<1>2. OwnedOn(l)' = {e \in Expenses : kind'[e] = "bank" /\ line'[e] = l}
  BY DEF OwnedOn, On, Exists
<1>3. ASSUME NEW e \in Expenses, job[r].split[e] > 0
      PROVE  kind'[e] = "bank" /\ line'[e] = l
  BY <1>3 DEF PutCommit
<1>4. ASSUME NEW e \in Expenses, ~(job[r].split[e] > 0), kind'[e] = "bank"
      PROVE  line'[e] # l
  <2>1. e \notin job[r].doomed
    BY <1>4 DEF PutCommit
  <2>2. kind'[e] = kind[e] /\ line'[e] = line[e]
    BY <1>4, <2>1 DEF PutCommit
  <2>. QED
    BY <1>1, <1>4, <2>1, <2>2 DEF OwnedOn, On, Exists
<1>5. ASSUME NEW e \in Expenses, kind[e] = "other"
      PROVE  <<kind'[e], amount'[e], line'[e], by'[e]>>
                 = <<kind[e], amount[e], line[e], by[e]>>
  <2>1. ~(job[r].split[e] > 0) /\ e \notin job[r].doomed
    BY <1>5 DEF RowsReserved, Exists, DoomedAreOwned
  <2>. QED
    BY <2>1 DEF PutCommit
<1>. QED
  BY <1>2, <1>3, <1>4, <1>5

\* Saving a split leaves the rows of that split and those the editor does not
\* own, with every other writer of attachments at work.
THEOREM SplitsReplaceTheirOwn ==
    ASSUME Operations \subseteq LockedOperations
    PROVE  Spec => SplitReplaces
<1>1. Init => DoomedAreOwned
  <2>1. Init => \A r \in Requests : job[r] = NoJob
    BY DEF Init
  <2>2. NoJob.doomed = {}
    BY DEF NoJob
  <2>. QED
    BY <2>1, <2>2 DEF DoomedAreOwned
<1>2. TypeInv /\ LockedInv /\ DoomedAreOwned /\ [Next]_vars => DoomedAreOwned'
  <2>1. DoomedAreOwned /\ UNCHANGED vars => DoomedAreOwned'
    BY DEF vars, DoomedAreOwned
  <2>. QED
    BY <2>1, NextDoomedAreOwned DEF Next, LockedInv
<1>. DEFINE Replaces ==
        \A r \in Requests, l \in Lines :
          Commits(r, "put") /\ job[r].line = l =>
          /\ OwnedOn(l)' = {e \in Expenses : job[r].split[e] > 0}
          /\ \A e \in Expenses : kind[e] = "other" =>
               <<kind'[e], amount'[e], line'[e], by'[e]>>
                   = <<kind[e], amount[e], line[e], by[e]>>
<1>3. TypeInv /\ LockedInv /\ DoomedAreOwned /\ [Next]_vars => [Replaces]_vars
  BY CommitIsPutCommit, PutCommitReplaces DEF Next, LockedInv
<1>. HIDE DEF Replaces
<1>4. Spec => [][Replaces]_vars
  BY <1>1, <1>2, <1>3, LockedInvariant, PTL DEF Spec
<1>. QED
  BY <1>4, PTL DEF SplitReplaces, Replaces

(***************************************************************************)
(* One request at a time, of any kind.                                     *)
(***************************************************************************)

OneAtATime == \A p, q \in Requests : p = q

\* What a request that waits for no lock has read is still so: the instance a
\* PATCH will save is linked as it was and its new amount fits, the line of a
\* recurrence is empty, the expense of the automatic pass is free.
AloneJobs ==
    \A r \in Requests :
        /\ job[r].op = "save" =>
             /\ Exists(job[r].exp) /\ job[r].kind # "absent"
             /\ line[job[r].exp] = job[r].line
             /\ \A l \in Lines : job[r].line = l =>
                  SqlSum(amount, On(l) \ {job[r].exp}) + job[r].amt <= Outflow[l]
        /\ job[r].op = "recur" => On(job[r].line) = {}
        /\ job[r].op = "auto" => line[job[r].exp] = NoLine

AloneInv == AloneJobs /\ AmountCurrent /\ CheckHolds /\ AllocationsFit

\* The instance as read is the row.
LEMMA LoadedIsRow ==
    ASSUME NEW e \in Expenses, NEW a \in Amounts
    PROVE  /\ Loaded(e, a).op = "save" /\ Loaded(e, a).exp = e
           /\ Loaded(e, a).kind = kind[e] /\ Loaded(e, a).amt = a
           /\ Loaded(e, a).line = line[e]
  BY DEF Loaded, NoJob

\* A step either reads, and leaves the rows, or leaves its request with nothing
\* to do.
LEMMA ReadsOrEnds ==
    ASSUME TypeInv, NEW r \in Requests, Step(r)
    PROVE  UNCHANGED rows \/ job'[r] = NoJob
<1>1. pc[r] = "idle" /\ UNCHANGED job => job'[r] = NoJob
  BY DEF TypeInv, JobShape
<1>2. Finish(r) => job'[r] = NoJob
  BY DEF Finish, TypeInv, TypeOK
<1>. QED
  BY <1>1, <1>2
     DEF Step, CreateExpense, DeleteExpense, Pair, Unpair, DiscardLine, PutCheck, PutCommit,
         LinkRead, AutoPick, AutoFetch, LinkCheck, LinkCommit, UnlinkRead, UnlinkSave,
         PatchRead, EditRead, PatchSave, RecurCheck, RecurCommit, Abandon

\* What a request that has just read something holds.
LEMMA ReadsAlone ==
    ASSUME OneAtATime, TypeInv, AloneInv, NEW r \in Requests, Step(r), UNCHANGED rows
    PROVE  AloneInv'
<1>0. /\ job \in [Requests -> Jobs] /\ pc \in [Requests -> {"idle", "picked", "read", "locked"}]
      /\ amount \in [Expenses -> Amounts] /\ UNCHANGED <<kind, amount, line>>
      /\ \A l : On(l)' = On(l) /\ On(l) \in SUBSET Expenses
      /\ \A q \in Requests : q = r
      /\ NoJob.op = "none"
  BY DEF OneAtATime, TypeInv, TypeOK, rows, On, Exists, NoJob
<1>1. AllocationsFit'
  BY <1>0 DEF AloneInv, AllocationsFit, AllocatedTotal
<1>2. CheckHolds'
  BY <1>0, EntersChecked DEF CheckHolds
<1>3. ASSUME job'[r].op \notin {"save", "recur", "link", "auto"}
      PROVE  AloneJobs' /\ AmountCurrent'
  BY <1>0, <1>3 DEF AloneJobs, AmountCurrent
<1>4. ASSUME job'[r] = job[r], pc'[r] = pc[r] \/ pc[r] = "read" \/ pc'[r] = "idle"
      PROVE  AloneJobs' /\ AmountCurrent'
  <2>2. AloneJobs'
    BY <1>0, <1>4 DEF AloneInv, AloneJobs, Exists
  <2>3. AmountCurrent'
    BY <1>0, <1>4 DEF AloneInv, AmountCurrent, Exists
  <2>. QED
    BY <2>2, <2>3
<1>5. ASSUME job'[r] = NoJob PROVE AloneJobs' /\ AmountCurrent'
  BY <1>0, <1>3, <1>5
<1>6. ASSUME NEW l \in Lines, NEW split \in [Expenses -> Amounts], PutCheck(r, l, split)
      PROVE  AloneJobs' /\ AmountCurrent'
  <2>1. job'[r].op = "put"
    BY <1>0, <1>6 DEF PutCheck, Serve, NoJob
  <2>. QED
    BY <1>3, <2>1
<1>7. ASSUME NEW e \in Expenses, UnlinkRead(r, e)
      PROVE  AloneJobs' /\ AmountCurrent'
  <2>1. job'[r].op = "unlink"
    BY <1>0, <1>7 DEF UnlinkRead, Serve, NoJob
  <2>. QED
    BY <1>3, <2>1
<1>8. ASSUME NEW l \in Lines, NEW e \in Expenses, LinkRead(r, l, e)
      PROVE  AloneJobs' /\ AmountCurrent'
  <2>1. job'[r].op = "link" /\ job'[r].exp = e /\ job'[r].amt = amount[e]
    BY <1>0, <1>8 DEF LinkRead, Serve, NoJob
  <2>. QED
    BY <1>0, <2>1 DEF AloneJobs, AmountCurrent
<1>9. ASSUME NEW l \in Lines, NEW e \in Expenses, AutoPick(r, l, e)
      PROVE  AloneJobs' /\ AmountCurrent'
  <2>1. job'[r].op = "auto" /\ job'[r].exp = e /\ pc'[r] = "picked"
    BY <1>0, <1>9 DEF AutoPick, Serve, NoJob
  <2>2. line[e] = NoLine
    BY <1>9 DEF AutoPick
  <2>. QED
    BY <1>0, <2>1, <2>2 DEF AloneJobs, AmountCurrent
<1>10. ASSUME AutoFetch(r) PROVE AloneJobs' /\ AmountCurrent'
  <2>1. /\ job[r].op = "auto" /\ job'[r].op = "auto" /\ job'[r].exp = job[r].exp
        /\ job'[r].amt = amount[job[r].exp]
    BY <1>0, <1>10 DEF AutoFetch, Jobs, TypeInv, JobShape
  <2>2. line[job[r].exp] = NoLine
    BY <2>1 DEF AloneInv, AloneJobs
  <2>. QED
    BY <1>0, <2>1, <2>2 DEF AloneJobs, AmountCurrent
<1>11. ASSUME LinkCheck(r) PROVE AloneJobs' /\ AmountCurrent'
  <2>1. pc[r] = "read" /\ job'[r] = job[r]
    BY <1>11 DEF LinkCheck
  <2>. QED
    BY <1>4, <2>1
<1>12. ASSUME NEW e \in Expenses, NEW a \in Amounts, Exists(e),
              \A l \in Lines : line[e] = l => SqlSum(amount, On(l) \ {e}) + a <= Outflow[l],
              job'[r] = Loaded(e, a)
       PROVE  AloneJobs' /\ AmountCurrent'
  <2>1. /\ job'[r].op = "save" /\ job'[r].exp = e /\ job'[r].kind # "absent"
        /\ job'[r].amt = a /\ job'[r].line = line[e]
    BY <1>12, LoadedIsRow DEF Exists
  <2>. QED
    BY <1>0, <1>12, <2>1 DEF AloneJobs, AmountCurrent, Exists
<1>13. ASSUME NEW e \in Expenses, NEW a \in Amounts, PatchRead(r, e, a)
       PROVE  AloneJobs' /\ AmountCurrent'
  <2>1. Exists(e) /\ job'[r] = Loaded(e, a)
    BY <1>0, <1>13 DEF PatchRead, Serve
  <2>2. \A l \in Lines : line[e] = l => SqlSum(amount, On(l) \ {e}) + a <= Outflow[l]
    BY <1>13, ConstantsAssumption DEF PatchRead, AllocationFits
  <2>. QED
    BY <1>12, <2>1, <2>2
<1>14. ASSUME NEW e \in Expenses, EditRead(r, e)
       PROVE  AloneJobs' /\ AmountCurrent'
  <2>1. Exists(e) /\ job'[r] = Loaded(e, amount[e])
    BY <1>0, <1>14 DEF EditRead, Serve
  <2>2. ASSUME NEW l \in Lines, line[e] = l
        PROVE  SqlSum(amount, On(l) \ {e}) + amount[e] <= Outflow[l]
    <3>1. e \in On(l) /\ (On(l) \ {e}) \cup {e} = On(l)
      BY <2>1, <2>2 DEF On
    <3>2. SqlSum(amount, (On(l) \ {e}) \cup {e}) = SqlSum(amount, On(l) \ {e}) + amount[e]
      BY <1>0, SumAddsRow
    <3>. QED
      BY <3>1, <3>2 DEF AloneInv, AllocationsFit, AllocatedTotal
  <2>3. amount[e] \in Amounts
    BY <1>0
  <2>. QED
    BY <1>12, <2>1, <2>2, <2>3
<1>15. ASSUME NEW l \in Lines, RecurCheck(r, l)
       PROVE  AloneJobs' /\ AmountCurrent'
  <2>1. job'[r].op = "recur" /\ job'[r].line = l
    BY <1>0, <1>15 DEF RecurCheck, Serve, NoJob
  <2>2. On(l) = {}
    BY <1>15 DEF RecurCheck
  <2>. QED
    BY <1>0, <2>1, <2>2 DEF AloneJobs, AmountCurrent
<1>16. Finish(r) \/ (pc[r] = "idle" /\ UNCHANGED <<pc, job>>) => AloneJobs' /\ AmountCurrent'
  BY <1>0, <1>4, <1>5 DEF Finish
<1>17. \/ Finish(r)
       \/ pc[r] = "idle" /\ UNCHANGED <<pc, job>>
       \/ \E l \in Lines, split \in [Expenses -> Amounts] : PutCheck(r, l, split)
       \/ \E l \in Lines, e \in Expenses : LinkRead(r, l, e) \/ AutoPick(r, l, e)
       \/ AutoFetch(r) \/ LinkCheck(r)
       \/ \E e \in Expenses, a \in Amounts : PatchRead(r, e, a)
       \/ \E e \in Expenses : UnlinkRead(r, e) \/ EditRead(r, e)
       \/ \E l \in Lines : RecurCheck(r, l)
  BY DEF Step, CreateExpense, DeleteExpense, Pair, Unpair, DiscardLine, PutCommit, LinkCommit,
         UnlinkSave, PatchSave, RecurCommit, Abandon
<1>18. AloneJobs' /\ AmountCurrent'
  BY <1>6, <1>7, <1>8, <1>9, <1>10, <1>11, <1>13, <1>14, <1>15, <1>16, <1>17
<1>. QED
  BY <1>1, <1>2, <1>18 DEF AloneInv

\* The amount a PATCH saves fits the line the expense is still on.
LEMMA PatchFits ==
    ASSUME TypeInv, TypeInv', AloneInv, NEW r \in Requests, PatchSave(r), NEW l \in Lines
    PROVE  AllocatedTotal(l)' <= Outflow[l]
<1>. DEFINE e == job[r].exp
<1>1. /\ e \in Expenses /\ job[r].op = "save" /\ job[r].amt \in Amounts
      /\ amount \in [Expenses -> Amounts] /\ amount' \in [Expenses -> Amounts]
      /\ kind \in [Expenses -> Kinds] /\ line \in [Expenses -> Lines \cup {NoLine}]
      /\ On(l) \in SUBSET Expenses
  BY DEF PatchSave, TypeInv, TypeOK, JobShape, Jobs, On
<1>2. /\ Exists(e) /\ job[r].kind # "absent" /\ line[e] = job[r].line
      /\ job[r].line = l => SqlSum(amount, On(l) \ {e}) + job[r].amt <= Outflow[l]
  BY <1>1 DEF AloneInv, AloneJobs
<1>3. On(l)' = On(l)
  BY <1>1, <1>2 DEF PatchSave, WriteRow, On, Exists
<1>4. /\ amount'[e] = job[r].amt
      /\ \A d \in Expenses : d # e => amount'[d] = amount[d]
  BY <1>1 DEF PatchSave, WriteRow
<1>. HIDE DEF e
<1>5. CASE e \in On(l)
  <2>1. job[r].line = l
    BY <1>2, <1>5 DEF On
  <2>2. (On(l) \ {e}) \cup {e} = On(l) /\ On(l) \ {e} \in SUBSET Expenses
    BY <1>1, <1>5
  <2>3. SqlSum(amount', (On(l) \ {e}) \cup {e}) = SqlSum(amount', On(l) \ {e}) + amount'[e]
    BY <1>1, <2>2, SumAddsRow
  <2>4. SqlSum(amount', On(l) \ {e}) = SqlSum(amount, On(l) \ {e})
    BY <1>1, <1>4, <2>2, SqlSumAssumption
  <2>. QED
    BY <1>2, <1>3, <1>4, <2>1, <2>2, <2>3, <2>4 DEF AllocatedTotal
<1>6. CASE e \notin On(l)
  <2>1. SqlSum(amount', On(l)) = SqlSum(amount, On(l))
    BY <1>1, <1>4, <1>6, SqlSumAssumption
  <2>. QED
    BY <1>3, <2>1 DEF AllocatedTotal, AloneInv, AllocationsFit
<1>. QED
  BY <1>5, <1>6

\* An occurrence fills the empty line that confirms it.
LEMMA RecurFits ==
    ASSUME TypeInv, TypeInv', AloneInv, NEW r \in Requests, NEW e \in Expenses,
           RecurCommit(r, e), NEW l \in Lines
    PROVE  AllocatedTotal(l)' <= Outflow[l]
<1>1. /\ amount \in [Expenses -> Amounts] /\ amount' \in [Expenses -> Amounts]
      /\ kind \in [Expenses -> Kinds] /\ line \in [Expenses -> Lines \cup {NoLine}]
      /\ On(l) \in SUBSET Expenses /\ {e} \in SUBSET Expenses
      /\ job[r].op = "recur" /\ job[r].line \in Lines /\ ~Exists(e)
  BY DEF RecurCommit, Fresh, TypeInv, TypeOK, JobShape, On
<1>2. amount'[e] = Outflow[job[r].line] /\ \A d \in Expenses : d # e => amount'[d] = amount[d]
  BY <1>1 DEF RecurCommit, WriteRow
<1>3. CASE job[r].line = l
  <2>1. On(l) = {}
    BY <1>1, <1>3 DEF AloneInv, AloneJobs
  <2>2. On(l)' = {e}
    BY <1>1, <1>3, <2>1 DEF RecurCommit, WriteRow, On, Exists
  <2>3. SqlSum(amount', {e}) = amount'[e]
    BY <1>1, SqlSumAssumption
  <2>4. Outflow[l] \in Nat
    BY ConstantsAssumption
  <2>. QED
    BY <1>2, <1>3, <2>2, <2>3, <2>4 DEF AllocatedTotal
<1>4. CASE job[r].line # l
  <2>1. On(l)' = On(l) /\ e \notin On(l)
    BY <1>1, <1>4 DEF RecurCommit, WriteRow, On, Exists
  <2>2. SqlSum(amount', On(l)) = SqlSum(amount, On(l))
    BY <1>1, <1>2, <2>1, SqlSumAssumption
  <2>. QED
    BY <2>1, <2>2 DEF AllocatedTotal, AloneInv, AllocationsFit
<1>. QED
  BY <1>3, <1>4

\* No step of a request that is alone overfills a line.
LEMMA EndsAlone ==
    ASSUME OneAtATime, TypeInv, TypeInv', AloneInv, NEW r \in Requests, Step(r),
           job'[r] = NoJob
    PROVE  AloneInv'
<1>1. \A q \in Requests : job'[q].op = "none"
  <2>1. \A q \in Requests : job'[q] = NoJob
    BY DEF OneAtATime
  <2>2. NoJob.op = "none"
    BY DEF NoJob
  <2>. QED
    BY <2>1, <2>2
<1>2. AloneJobs' /\ AmountCurrent' /\ CheckHolds'
  BY <1>1 DEF AloneJobs, AmountCurrent, CheckHolds
<1>3. ASSUME NEW l \in Lines PROVE AllocatedTotal(l)' <= Outflow[l]
  <2>1. CASE PutCommit(r) /\ job[r].line = l
    BY <2>1, SplitFits DEF AloneInv
  <2>2. CASE LinkCommit(r) /\ job[r].line = l
    BY <2>2, LinkFits DEF AloneInv
  <2>3. CASE PatchSave(r)
    BY <2>3, PatchFits
  <2>4. CASE \E e \in Expenses : RecurCommit(r, e)
    BY <2>4, RecurFits
  <2>5. CASE Shrinks(l)
    <3>1. AllocatedTotal(l)' <= AllocatedTotal(l) /\ AllocatedTotal(l)' \in Nat
          /\ AllocatedTotal(l) \in Nat
      BY <2>5, ShrunkSums
    <3>2. AllocatedTotal(l) <= Outflow[l] /\ Outflow[l] \in Nat
      BY ConstantsAssumption DEF AloneInv, AllocationsFit
    <3>. QED
      BY <3>1, <3>2
  <2>. QED
    BY <2>1, <2>2, <2>3, <2>4, <2>5, OthersShrink
<1>. QED
  BY <1>2, <1>3 DEF AloneInv, AllocationsFit

LEMMA AloneInvariant ==
    ASSUME OneAtATime
    PROVE  Spec => [](TypeInv /\ AloneInv)
<1>1. Init => AloneInv
  <2>1. Init => LockedInv /\ \A r \in Requests : job[r] = NoJob
    BY InitLockedInv DEF Init
  <2>2. NoJob.op = "none"
    BY DEF NoJob
  <2>. QED
    BY <2>1, <2>2 DEF LockedInv, AloneInv, AloneJobs
<1>2. TypeInv /\ TypeInv' /\ AloneInv /\ [Next]_vars => AloneInv'
  <2>. SUFFICES ASSUME TypeInv, TypeInv', AloneInv, [Next]_vars PROVE AloneInv'
    OBVIOUS
  <2>1. CASE UNCHANGED vars
    <3>1. \A l : On(l)' = On(l) /\ OwnedOn(l)' = OwnedOn(l)
      BY <2>1 DEF vars, On, OwnedOn, Exists
    <3>. QED
      BY <2>1, <3>1
         DEF vars, AloneInv, AloneJobs, AmountCurrent, CheckHolds, AllocationsFit,
             AllocatedTotal, Exists
  <2>2. CASE Next
    BY <2>2, ReadsOrEnds, ReadsAlone, EndsAlone DEF Next
  <2>. QED
    BY <2>1, <2>2
<1>. QED
  BY <1>1, <1>2, InitTypeInv, NextTypeInv, PTL DEF Spec

\* Served one after the other, requests of every kind, those that lock nothing
\* included, never split a line for more than it holds.
THEOREM SerialSplitFits ==
    ASSUME OneAtATime
    PROVE  Spec => []AllocationsFit
<1>1. AloneInv => AllocationsFit
  BY DEF AloneInv
<1>. QED
  BY <1>1, AloneInvariant, PTL
===============================================================================
