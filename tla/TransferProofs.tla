---------------------------- MODULE TransferProofs ----------------------------
(***************************************************************************)
(* The pairing of two bank lines, for any number of lines, accounts and    *)
(* requests: what a statement brought in is never rewritten; one request   *)
(* at a time, or as long as nothing is unlinked, the legs of a movement    *)
(* point at each other and cash stays within its withdrawal.               *)
(***************************************************************************)
EXTENDS Transfers, TLAPS

(***************************************************************************)
(* Type correctness.                                                       *)
(***************************************************************************)

\* What a request starts from, and the values a line can take.
LEMMA ConstantTypes ==
    /\ NoJob \in Jobs
    /\ NoHash \in [of : Lines \cup {NoLine}, amount : Signed \cup {0}]
    /\ Amounts \subseteq Signed
  BY TransferConstants DEF NoJob, Jobs, NoHash, Signed

\* The tables are typed.
LinesType ==
    /\ cash \subseteq Accounts
    /\ account \in [Lines -> Accounts \cup {NoAccount}]
    /\ amount \in [Lines -> Signed \cup {0}]
    /\ origin \in [Lines -> {"none", "import", "typed", "generated"}]
    /\ partner \in [Lines -> Lines \cup {NoLine}]
    /\ internal \in [Lines -> BOOLEAN]
    /\ hash \in [Lines -> [of : Lines \cup {NoLine}, amount : Signed \cup {0}]]

\* The requests are typed.
RequestsType ==
    /\ pc \in [Requests -> {"idle", "read"}]
    /\ job \in [Requests -> Jobs]

\* A request that has read its rows holds the ids it needs.
JobShape ==
    \A r \in Requests :
        /\ job[r].op # "none" => job[r].line \in Lines
        /\ job[r].op \in {"link", "adjust", "unlink"} => job[r].other \in Lines
        /\ job[r].op = "withdraw" => job[r].account \in Accounts
        /\ job[r].op = "link" => job[r].line # job[r].other

\* The inductive form of TypeOK.
TypeInv == TypeOK /\ JobShape

\* TypeOK in two halves.
LEMMA TypeParts == TypeOK <=> LinesType /\ RequestsType
  BY DEF TypeOK, LinesType, RequestsType

\* The initial state is typed.
LEMMA InitTypeInv == Init => TypeInv
<1>. SUFFICES ASSUME Init PROVE TypeInv
  OBVIOUS
<1>1. LinesType
  BY ConstantTypes, TransferConstants DEF Init, LinesType
<1>2. RequestsType
  BY ConstantTypes DEF Init, RequestsType
<1>3. JobShape
  BY DEF Init, JobShape, NoJob
<1>. QED
  BY <1>1, <1>2, <1>3, TypeParts DEF TypeInv

\* A request that ends keeps the requests typed.
LEMMA DoneType ==
    ASSUME TypeInv, NEW r \in Requests,
           pc' = [pc EXCEPT ![r] = "idle"],
           job' = [job EXCEPT ![r] = NoJob]
    PROVE  RequestsType' /\ JobShape'
<1>1. RequestsType'
  BY ConstantTypes DEF TypeInv, TypeOK, RequestsType
<1>2. \A q \in Requests : job'[q] = IF q = r THEN NoJob ELSE job[q]
  BY DEF TypeInv, TypeOK
<1>3. JobShape'
  BY <1>2 DEF TypeInv, JobShape, NoJob
<1>. QED
  BY <1>1, <1>3

\* So does one that has read its rows.
LEMMA ReadType ==
    ASSUME TypeInv, NEW r \in Requests, NEW j \in Jobs, Read(r, j),
           j.op # "none",
           j.line \in Lines,
           j.op \in {"link", "adjust", "unlink"} => j.other \in Lines,
           j.op = "withdraw" => j.account \in Accounts,
           j.op = "link" => j.line # j.other
    PROVE  TypeInv'
<1>1. RequestsType'
  BY DEF TypeInv, TypeOK, RequestsType, Read
<1>2. \A q \in Requests : job'[q] = IF q = r THEN j ELSE job[q]
  BY DEF TypeInv, TypeOK, Read
<1>3. JobShape'
  BY <1>2 DEF TypeInv, JobShape
<1>4. LinesType'
  BY DEF TypeInv, TypeOK, LinesType, Read, lines
<1>. QED
  BY <1>1, <1>3, <1>4, TypeParts DEF TypeInv, TypeOK, LinesType, RequestsType

\* And one that leaves the requests alone.
LEMMA SameType ==
    ASSUME TypeInv, UNCHANGED <<pc, job>>
    PROVE  RequestsType' /\ JobShape'
  BY DEF TypeInv, TypeOK, RequestsType, JobShape

\* An inserted row is typed.
LEMMA InsertType ==
    ASSUME TypeInv, UNCHANGED cash,
           NEW l \in Lines, NEW a \in Accounts, NEW v \in Signed \cup {0},
           NEW o \in {"import", "typed", "generated"},
           NEW p \in Lines \cup {NoLine}, NEW i \in BOOLEAN,
           NEW h \in [of : Lines \cup {NoLine}, amount : Signed \cup {0}],
           Insert(l, a, v, o, p, i, h)
    PROVE  LinesType'
<1>1. partner' \in [Lines -> Lines \cup {NoLine}]
  BY TransferConstants DEF Insert, TypeInv, TypeOK
<1>2. internal' \in [Lines -> BOOLEAN]
  BY TransferConstants DEF Insert, TypeInv, TypeOK
<1>. QED
  BY <1>1, <1>2 DEF Insert, TypeInv, TypeOK, LinesType

\* Every step keeps the types.
LEMMA StepTypeInv ==
    ASSUME TypeInv, NEW r \in Requests, Step(r)
    PROVE  TypeInv'
<1>. SUFFICES LinesType' /\ RequestsType' /\ JobShape'
  BY TypeParts DEF TypeInv, TypeOK, LinesType, RequestsType
<1>. USE DEF TypeInv
<1>1. ASSUME NEW l \in Lines, NEW a \in Accounts, NEW v \in Signed, NEW i \in BOOLEAN,
             Import(r, l, a, v, i)
      PROVE  LinesType' /\ RequestsType' /\ JobShape'
  <2>1. [of |-> l, amount |-> v] \in [of : Lines \cup {NoLine}, amount : Signed \cup {0}]
    OBVIOUS
  <2>. QED
    BY <1>1, <2>1, SameType, InsertType DEF Import, Single
<1>2. ASSUME NEW l \in Lines, NEW a \in Accounts, NEW v \in Signed, Type(r, l, a, v)
      PROVE  LinesType' /\ RequestsType' /\ JobShape'
  <2>1. [of |-> l, amount |-> v] \in [of : Lines \cup {NoLine}, amount : Signed \cup {0}]
    OBVIOUS
  <2>. QED
    BY <1>2, <2>1, SameType, InsertType DEF Type, Single
<1>3. ASSUME NEW a \in Accounts, SetKind(r, a)
      PROVE  LinesType' /\ RequestsType' /\ JobShape'
  BY <1>3, SameType DEF SetKind, Single, lines, LinesType, TypeOK
<1>4. ASSUME NEW l \in Lines, NEW i \in BOOLEAN, Qualify(r, l, i)
      PROVE  LinesType' /\ RequestsType' /\ JobShape'
  BY <1>4, SameType DEF Qualify, Single, LinesType, TypeOK
<1>5. ASSUME NEW l \in Lines, NEW a \in Accounts, NEW v \in Amounts, WithdrawRead(r, l, a, v)
      PROVE  LinesType' /\ RequestsType' /\ JobShape'
  <2>. DEFINE j == [NoJob EXCEPT !.op = "withdraw", !.line = l, !.account = a, !.amount = v]
  <2>1. j \in Jobs /\ j.op = "withdraw" /\ j.line = l /\ j.account = a
    BY DEF NoJob, Jobs
  <2>2. Read(r, j)
    BY <1>5 DEF WithdrawRead
  <2>3. TypeInv'
    BY <2>1, <2>2, ReadType
  <2>. QED
    BY <2>3, TypeParts DEF TypeOK, LinesType, RequestsType
<1>6. ASSUME NEW m \in Lines, WithdrawCommit(r, m)
      PROVE  LinesType' /\ RequestsType' /\ JobShape'
  <2>. DEFINE h == [of |-> job[r].line, amount |-> job[r].amount]
  <2>1. job[r] \in Jobs /\ job[r].op = "withdraw"
    BY <1>6 DEF WithdrawCommit, Commit, TypeOK
  <2>2. job[r].line \in Lines /\ job[r].account \in Accounts
    BY <2>1 DEF JobShape
  <2>3. job[r].amount \in Amounts \cup {0}
    BY <2>1 DEF Jobs
  <2>4. h \in [of : Lines \cup {NoLine}, amount : Signed \cup {0}]
    BY <2>2, <2>3, ConstantTypes
  <2>5. Insert(m, job[r].account, job[r].amount, "generated", job[r].line, TRUE, h)
    BY <1>6 DEF WithdrawCommit
  <2>6. LinesType'
    BY <1>6, <2>2, <2>3, <2>4, <2>5, ConstantTypes, InsertType DEF WithdrawCommit, Commit
  <2>. QED
    BY <1>6, <2>6, DoneType DEF WithdrawCommit, Commit
<1>7. ASSUME NEW l \in Lines, NEW o \in Lines, LinkRead(r, l, o)
      PROVE  LinesType' /\ RequestsType' /\ JobShape'
  <2>. DEFINE j == [NoJob EXCEPT !.op = "link", !.line = l, !.other = o]
  <2>1. j \in Jobs /\ j.op = "link" /\ j.line = l /\ j.other = o
    BY DEF NoJob, Jobs
  <2>2. Read(r, j) /\ l # o
    BY <1>7 DEF LinkRead
  <2>3. TypeInv'
    BY <2>1, <2>2, ReadType
  <2>. QED
    BY <2>3, TypeParts DEF TypeOK, LinesType, RequestsType
<1>8. CASE LinkCommit(r)
  BY <1>8, DoneType DEF LinkCommit, Commit, LinesType, TypeOK, JobShape
<1>9. ASSUME NEW l \in Lines, NEW v \in Amounts, AdjustRead(r, l, v)
      PROVE  LinesType' /\ RequestsType' /\ JobShape'
  <2>. DEFINE j == [NoJob EXCEPT !.op = "adjust", !.line = l, !.other = partner[l],
                                 !.amount = v]
  <2>1. partner[l] \in Lines
    BY <1>9 DEF AdjustRead, TypeOK
  <2>2. j \in Jobs /\ j.op = "adjust" /\ j.line = l /\ j.other = partner[l]
    BY <2>1 DEF NoJob, Jobs
  <2>3. Read(r, j)
    BY <1>9 DEF AdjustRead
  <2>4. TypeInv'
    BY <2>1, <2>2, <2>3, ReadType
  <2>. QED
    BY <2>4, TypeParts DEF TypeOK, LinesType, RequestsType
<1>10. CASE AdjustCommit(r)
  <2>1. job[r].amount \in Signed \cup {0} /\ job[r].line \in Lines \cup {NoLine}
    BY ConstantTypes DEF TypeOK, Jobs
  <2>2. amount' \in [Lines -> Signed \cup {0}]
    BY <1>10, <2>1 DEF AdjustCommit, TypeOK
  <2>3. hash' \in [Lines -> [of : Lines \cup {NoLine}, amount : Signed \cup {0}]]
    BY <1>10, <2>1 DEF AdjustCommit, TypeOK
  <2>. QED
    BY <1>10, <2>2, <2>3, DoneType DEF AdjustCommit, Commit, LinesType, TypeOK
<1>11. ASSUME NEW l \in Lines, UnlinkRead(r, l)
       PROVE  LinesType' /\ RequestsType' /\ JobShape'
  <2>. DEFINE j == [NoJob EXCEPT !.op = "unlink", !.line = l, !.other = partner[l],
                                 !.ours = Generated(partner[l])]
  <2>1. partner[l] \in Lines
    BY <1>11 DEF UnlinkRead, TypeOK
  <2>2. Generated(partner[l]) \in BOOLEAN
    BY DEF Generated
  <2>3. j \in Jobs /\ j.op = "unlink" /\ j.line = l /\ j.other = partner[l]
    BY <2>1, <2>2 DEF NoJob, Jobs
  <2>4. Read(r, j)
    BY <1>11 DEF UnlinkRead
  <2>5. TypeInv'
    BY <2>1, <2>3, <2>4, ReadType
  <2>. QED
    BY <2>5, TypeParts DEF TypeOK, LinesType, RequestsType
<1>12. CASE UnlinkDetach(r)
  BY <1>12, DoneType DEF UnlinkDetach, Commit, LinesType, TypeOK
<1>13. CASE UnlinkDelete(r)
  <2>1. /\ partner' \in [Lines -> Lines \cup {NoLine}]
        /\ internal' \in [Lines -> BOOLEAN]
    BY <1>13 DEF UnlinkDelete, TypeOK
  <2>2. /\ account' \in [Lines -> Accounts \cup {NoAccount}]
        /\ amount' \in [Lines -> Signed \cup {0}]
        /\ origin' \in [Lines -> {"none", "import", "typed", "generated"}]
        /\ hash' \in [Lines -> [of : Lines \cup {NoLine}, amount : Signed \cup {0}]]
    BY <1>13, ConstantTypes DEF UnlinkDelete, TypeOK
  <2>. QED
    BY <1>13, <2>1, <2>2, DoneType DEF UnlinkDelete, Commit, LinesType, TypeOK
<1>14. CASE Abandon(r)
  BY <1>14, DoneType DEF Abandon, lines, LinesType, TypeOK
<1>. QED
  BY <1>1, <1>2, <1>3, <1>4, <1>5, <1>6, <1>7, <1>8, <1>9, <1>10, <1>11, <1>12, <1>13,
     <1>14 DEF Step

\* Nor does a stutter break them.
LEMMA NextTypeInv == TypeInv /\ [Next]_vars => TypeInv'
<1>. SUFFICES ASSUME TypeInv, [Next]_vars PROVE TypeInv'
  OBVIOUS
<1>1. CASE Next
  BY <1>1, StepTypeInv DEF Next
<1>2. CASE UNCHANGED vars
  BY <1>2 DEF vars, lines, TypeInv, TypeOK, JobShape
<1>. QED
  BY <1>1, <1>2

\* The rows of the bank lines and what the requests have read keep their types,
\* whatever is linked, adjusted, unlinked or retyped at the same time.
THEOREM TypeCorrect == Spec => []TypeOK
<1>1. TypeInv => TypeOK
  BY DEF TypeInv
<1>. QED
  BY InitTypeInv, NextTypeInv, <1>1, PTL DEF Spec

\* The stronger invariant, for the theorems below.
LEMMA TypeInvAlways == Spec => []TypeInv
  BY InitTypeInv, NextTypeInv, PTL DEF Spec

(***************************************************************************)
(* What a statement brought in stays as it came.                           *)
(***************************************************************************)

\* An id without a row is blank and nobody's counterpart, and what a request
\* is about to rewrite or delete was not imported when it looked.
FactsInv ==
    /\ \A l \in Lines : ~Exists(l) => origin[l] = "none"
    /\ \A r \in Requests :
         job[r].op = "adjust" \/ (job[r].op = "unlink" /\ job[r].ours) =>
            origin[job[r].other] # "import"

\* The property of one step.
FactsStep ==
    \A l \in Lines : origin[l] = "import" =>
        <<account'[l], amount'[l], origin'[l], hash'[l]>>
            = <<account[l], amount[l], origin[l], hash[l]>>

\* Steps that leave the facts of every line alone: only what the requests have
\* read can matter.
LEMMA FactsUntouched ==
    ASSUME TypeInv, FactsInv, UNCHANGED <<account, amount, origin, hash>>,
           NEW r \in Requests, NEW j \in Jobs,
           job' = [job EXCEPT ![r] = j],
           j.op = "adjust" \/ (j.op = "unlink" /\ j.ours) => origin[j.other] # "import"
    PROVE  FactsInv' /\ FactsStep
<1>1. \A q \in Requests : job'[q] = IF q = r THEN j ELSE job[q]
  BY DEF TypeInv, TypeOK
<1>. QED
  BY <1>1 DEF FactsInv, FactsStep, Exists

\* A row is inserted where there was none, and where no request looks.
LEMMA FactsInserted ==
    ASSUME TypeInv, FactsInv, NEW l \in Lines, NEW a \in Accounts, NEW v, NEW o,
           NEW p, NEW i, NEW h, Fresh(l), Insert(l, a, v, o, p, i, h),
           \A q \in Requests : job'[q] = job[q] \/ job'[q] = NoJob
    PROVE  FactsInv' /\ FactsStep
<1>1. origin[l] = "none"
  BY DEF Fresh, FactsInv
<1>2. \A x \in Lines : x # l =>
        /\ account'[x] = account[x] /\ amount'[x] = amount[x]
        /\ origin'[x] = origin[x] /\ hash'[x] = hash[x]
  BY DEF Insert, TypeInv, TypeOK
<1>3. account'[l] = a
  BY DEF Insert, TypeInv, TypeOK
<1>4. \A q \in Requests : job[q].op \in {"adjust", "unlink"} =>
        job[q].other \in Lines /\ job[q].other # l
  BY DEF Fresh, TypeInv, JobShape
<1>. QED
  BY <1>1, <1>2, <1>3, <1>4, TransferConstants DEF FactsInv, FactsStep, Exists, NoJob

\* No step rewrites or deletes an imported line.
LEMMA StepFacts ==
    ASSUME TypeInv, FactsInv, NEW r \in Requests, Step(r)
    PROVE  FactsInv' /\ FactsStep
<1>0. /\ NoJob \in Jobs /\ NoJob.op = "none" /\ job[r] \in Jobs
      /\ job' = [job EXCEPT ![r] = NoJob] =>
            \A q \in Requests : job'[q] = job[q] \/ job'[q] = NoJob
      /\ job = [job EXCEPT ![r] = job[r]]
      /\ job[r].op = "adjust" \/ (job[r].op = "unlink" /\ job[r].ours) =>
            origin[job[r].other] # "import"
  BY ConstantTypes DEF TypeInv, TypeOK, FactsInv, NoJob
<1>1. ASSUME NEW l \in Lines, NEW a \in Accounts, NEW v \in Signed, NEW i \in BOOLEAN,
             Import(r, l, a, v, i)
      PROVE  FactsInv' /\ FactsStep
  BY <1>1, FactsInserted DEF Import, Single
<1>2. ASSUME NEW l \in Lines, NEW a \in Accounts, NEW v \in Signed, Type(r, l, a, v)
      PROVE  FactsInv' /\ FactsStep
  BY <1>2, FactsInserted DEF Type, Single
<1>3. ASSUME NEW a \in Accounts, SetKind(r, a)
      PROVE  FactsInv' /\ FactsStep
  BY <1>3, <1>0, FactsUntouched DEF SetKind, Single, lines
<1>4. ASSUME NEW l \in Lines, NEW i \in BOOLEAN, Qualify(r, l, i)
      PROVE  FactsInv' /\ FactsStep
  BY <1>4, <1>0, FactsUntouched DEF Qualify, Single
<1>5. ASSUME NEW l \in Lines, NEW a \in Accounts, NEW v \in Amounts, WithdrawRead(r, l, a, v)
      PROVE  FactsInv' /\ FactsStep
  <2>. DEFINE j == [NoJob EXCEPT !.op = "withdraw", !.line = l, !.account = a, !.amount = v]
  <2>1. j \in Jobs /\ j.op = "withdraw"
    BY DEF NoJob, Jobs
  <2>. QED
    BY <1>5, <2>1, FactsUntouched DEF WithdrawRead, Read, lines
<1>6. ASSUME NEW m \in Lines, WithdrawCommit(r, m)
      PROVE  FactsInv' /\ FactsStep
  <2>1. job[r].op = "withdraw" /\ job[r].account \in Accounts
    BY <1>6 DEF WithdrawCommit, Commit, TypeInv, JobShape
  <2>2. \A q \in Requests : job'[q] = job[q] \/ job'[q] = NoJob
    BY <1>6, <1>0 DEF WithdrawCommit, Commit
  <2>. QED
    BY <1>6, <2>1, <2>2, FactsInserted DEF WithdrawCommit
<1>7. ASSUME NEW l \in Lines, NEW o \in Lines, LinkRead(r, l, o)
      PROVE  FactsInv' /\ FactsStep
  <2>. DEFINE j == [NoJob EXCEPT !.op = "link", !.line = l, !.other = o]
  <2>1. j \in Jobs /\ j.op = "link"
    BY DEF NoJob, Jobs
  <2>. QED
    BY <1>7, <2>1, FactsUntouched DEF LinkRead, Read, lines
<1>8. CASE LinkCommit(r)
  BY <1>8, <1>0, FactsUntouched DEF LinkCommit, Commit
<1>9. ASSUME NEW l \in Lines, NEW v \in Amounts, AdjustRead(r, l, v)
      PROVE  FactsInv' /\ FactsStep
  <2>. DEFINE j == [NoJob EXCEPT !.op = "adjust", !.line = l, !.other = partner[l],
                                 !.amount = v]
  <2>1. partner[l] \in Lines /\ origin[partner[l]] # "import"
    BY <1>9 DEF AdjustRead, Generated, TypeInv, TypeOK
  <2>2. j \in Jobs /\ j.op = "adjust" /\ j.other = partner[l]
    BY <2>1 DEF NoJob, Jobs
  <2>. QED
    BY <1>9, <2>1, <2>2, FactsUntouched DEF AdjustRead, Read, lines
<1>10. CASE AdjustCommit(r)
  <2>. DEFINE m == job[r].other
  <2>1. m \in Lines /\ origin[m] # "import"
    BY <1>10 DEF AdjustCommit, Commit, FactsInv, TypeInv, JobShape
  <2>2. /\ \A x \in Lines : x # m => amount'[x] = amount[x] /\ hash'[x] = hash[x]
        /\ UNCHANGED <<account, origin>>
    BY <1>10 DEF AdjustCommit, TypeInv, TypeOK
  <2>3. \A q \in Requests : job'[q] = job[q] \/ job'[q] = NoJob
    BY <1>10, <1>0 DEF AdjustCommit, Commit
  <2>4. FactsStep
    BY <2>1, <2>2 DEF FactsStep
  <2>5. FactsInv'
    BY <2>2, <2>3, <1>0 DEF FactsInv, Exists
  <2>. QED
    BY <2>4, <2>5
<1>11. ASSUME NEW l \in Lines, UnlinkRead(r, l)
       PROVE  FactsInv' /\ FactsStep
  <2>. DEFINE j == [NoJob EXCEPT !.op = "unlink", !.line = l, !.other = partner[l],
                                 !.ours = Generated(partner[l])]
  <2>1. partner[l] \in Lines
    BY <1>11 DEF UnlinkRead, TypeInv, TypeOK
  <2>2. Generated(partner[l]) \in BOOLEAN
    BY DEF Generated
  <2>3. Generated(partner[l]) => origin[partner[l]] # "import"
    BY DEF Generated
  <2>4. /\ j \in Jobs /\ j.op = "unlink" /\ j.other = partner[l]
        /\ j.ours = Generated(partner[l])
    BY <2>1, <2>2 DEF NoJob, Jobs
  <2>. QED
    BY <1>11, <2>3, <2>4, FactsUntouched DEF UnlinkRead, Read, lines
<1>12. CASE UnlinkDetach(r)
  BY <1>12, <1>0, FactsUntouched DEF UnlinkDetach, Commit
<1>13. CASE UnlinkDelete(r)
  <2>. DEFINE m == job[r].other
  <2>1. m \in Lines /\ origin[m] # "import"
    BY <1>13 DEF UnlinkDelete, Commit, FactsInv, TypeInv, JobShape
  <2>2. /\ \A x \in Lines : x # m => /\ account'[x] = account[x] /\ amount'[x] = amount[x]
                                     /\ origin'[x] = origin[x] /\ hash'[x] = hash[x]
        /\ origin'[m] = "none"
    BY <1>13, <2>1 DEF UnlinkDelete, TypeInv, TypeOK
  <2>3. \A q \in Requests : job'[q] = job[q] \/ job'[q] = NoJob
    BY <1>13, <1>0 DEF UnlinkDelete, Commit
  <2>4. FactsStep
    BY <2>1, <2>2 DEF FactsStep
  <2>5. \A l \in Lines : ~Exists(l)' => origin'[l] = "none"
    BY <2>2 DEF FactsInv, Exists
  <2>6. \A q \in Requests : job[q].op \in {"adjust", "unlink"} => job[q].other \in Lines
    BY DEF TypeInv, JobShape
  <2>7. FactsInv'
    BY <2>2, <2>3, <2>5, <2>6, <1>0 DEF FactsInv
  <2>. QED
    BY <2>4, <2>7
<1>14. CASE Abandon(r)
  BY <1>14, <1>0, FactsUntouched DEF Abandon, lines
<1>. QED
  BY <1>1, <1>2, <1>3, <1>4, <1>5, <1>6, <1>7, <1>8, <1>9, <1>10, <1>11, <1>12, <1>13,
     <1>14 DEF Step

\* At the start there is no line and no request.
LEMMA InitFacts == Init => FactsInv
  BY DEF Init, FactsInv, NoJob

\* An imported line is a fact of a statement: whatever requests meet, none
\* deletes it, rewrites its amount or changes what identifies it.
THEOREM ImportedLinesAreFacts == Spec => ImportedIsFact
<1>1. TypeInv /\ FactsInv /\ [Next]_vars => FactsInv' /\ [FactsStep]_vars
  <2>. SUFFICES ASSUME TypeInv, FactsInv, [Next]_vars PROVE FactsInv' /\ [FactsStep]_vars
    OBVIOUS
  <2>1. CASE Next
    BY <2>1, StepFacts DEF Next
  <2>2. CASE UNCHANGED vars
    BY <2>2 DEF vars, lines, FactsInv, Exists
  <2>. QED
    BY <2>1, <2>2
<1>. QED
  BY TypeInvAlways, InitFacts, <1>1, PTL DEF Spec, ImportedIsFact, FactsStep

(***************************************************************************)
(* The legs of a movement, served one at a time or never unlinked.         *)
(***************************************************************************)

\* Both legs point at each other, and only lines that exist have a partner.
\* The unique index is what makes this inductive: a request that pairs a line
\* from a stale read would have to point at a leg its partner still points at.
PairsInv ==
    /\ LegsPointBack
    /\ \A l \in Lines : partner[l] # NoLine => Exists(l)

\* The property of one step.
PairsStep ==
    \A r \in Requests :
        pc[r] = "read" /\ pc'[r] = "idle" /\ job[r].op \in {"link", "withdraw"} =>
            \A l \in Lines : partner[l] # NoLine => partner'[l] = partner[l]

\* A step that pairs nothing changes nothing here.
LEMMA PairsUntouched ==
    ASSUME TypeInv, PairsInv, UNCHANGED <<account, partner>>
    PROVE  PairsInv' /\ PairsStep
  BY DEF PairsInv, PairsStep, LegsPointBack, Exists

\* A line inserted without a partner is nobody's counterpart.
LEMMA PairsInserted ==
    ASSUME TypeInv, PairsInv, NEW l \in Lines, NEW a \in Accounts, NEW v, NEW o,
           NEW i, NEW h, ~Exists(l), Insert(l, a, v, o, NoLine, i, h)
    PROVE  PairsInv' /\ PairsStep
<1>1. UNCHANGED partner
  <2>1. partner[l] = NoLine
    BY DEF PairsInv
  <2>. QED
    BY <2>1, TransferConstants DEF Insert, TypeInv, TypeOK
<1>2. \A x \in Lines : Exists(x) => Exists(x)'
  BY TransferConstants DEF Insert, Exists, TypeInv, TypeOK
<1>. QED
  BY <1>1, <1>2 DEF PairsInv, PairsStep, LegsPointBack

\* A leg of a new pair has no partner yet, or is of that pair already: another
\* partner would still point at it.
LEMMA PairFree ==
    ASSUME TypeInv, PairsInv, NEW l \in Lines, NEW o \in Lines,
           UniquePartner(l, o), UniquePartner(o, l)
    PROVE  partner[l] \in {NoLine, o} /\ partner[o] \in {NoLine, l}
<1>1. ASSUME partner[l] # NoLine PROVE partner[l] = o
  <2>1. partner[l] \in Lines /\ partner[partner[l]] = l
    BY <1>1 DEF PairsInv, LegsPointBack, TypeInv, TypeOK
  <2>. QED
    BY <2>1 DEF UniquePartner
<1>2. ASSUME partner[o] # NoLine PROVE partner[o] = l
  <2>1. partner[o] \in Lines /\ partner[partner[o]] = o
    BY <1>2 DEF PairsInv, LegsPointBack, TypeInv, TypeOK
  <2>. QED
    BY <2>1 DEF UniquePartner
<1>. QED
  BY <1>1, <1>2

\* Neither leg of a new pair is the leg of another one.
LEMMA PairsMade ==
    ASSUME TypeInv, PairsInv, NEW l \in Lines, NEW o \in Lines, l # o,
           UniquePartner(l, o), UniquePartner(o, l),
           partner' = [partner EXCEPT ![l] = o, ![o] = l],
           \A x \in Lines : (Exists(x) \/ x \in {l, o}) => Exists(x)'
    PROVE  PairsInv' /\ PairsStep
<1>1. partner[l] \in {NoLine, o} /\ partner[o] \in {NoLine, l}
  BY PairFree
<1>2. \A x \in Lines : partner'[x] = IF x = l THEN o ELSE IF x = o THEN l ELSE partner[x]
  BY DEF TypeInv, TypeOK
<1>3. \A x \in Lines \ {l, o} : partner[x] \notin {l, o}
  BY DEF UniquePartner
<1>4. LegsPointBack'
  <2>. SUFFICES ASSUME NEW x \in Lines, partner'[x] # NoLine
                PROVE  partner'[partner'[x]] = x
    BY DEF LegsPointBack
  <2>1. CASE x \in {l, o}
    BY <2>1, <1>2
  <2>2. CASE x \notin {l, o}
    <3>1. partner[x] \in Lines /\ partner[x] \notin {l, o} /\ partner'[x] = partner[x]
      BY <2>2, <1>2, <1>3 DEF TypeInv, TypeOK
    <3>2. partner[partner[x]] = x
      BY <3>1, TransferConstants DEF PairsInv, LegsPointBack
    <3>. QED
      BY <3>1, <3>2, <1>2
  <2>. QED
    BY <2>1, <2>2
<1>5. \A x \in Lines : partner'[x] # NoLine => Exists(x)'
  BY <1>2 DEF PairsInv
<1>6. \A x \in Lines : partner[x] # NoLine => partner'[x] = partner[x]
  BY <1>1, <1>2
<1>. QED
  BY <1>4, <1>5, <1>6 DEF PairsInv, PairsStep

\* One request is served at a time.
OneAtATime == \A p, q \in Requests : p = q

\* An unlinking detaches the two lines that are still each other's counterpart.
UnlinkHolds ==
    \A r \in Requests : job[r].op = "unlink" =>
        /\ "unlink" \in Operations
        /\ pc[r] = "read"
        /\ partner[job[r].line] = job[r].other

\* Nobody re-pairs a line between the read and the commit of an unlinking that
\* is served alone.
LEMMA StepUnlinkHolds ==
    ASSUME OneAtATime \/ "unlink" \notin Operations, TypeInv, UnlinkHolds,
           NEW r \in Requests, Step(r)
    PROVE  UnlinkHolds'
<1>1. ASSUME job' = job, pc' = pc, pc[r] = "idle" PROVE UnlinkHolds'
  BY <1>1 DEF UnlinkHolds, OneAtATime
<1>2. ASSUME job' = [job EXCEPT ![r] = NoJob], pc' = [pc EXCEPT ![r] = "idle"]
      PROVE  UnlinkHolds'
  BY <1>2 DEF UnlinkHolds, OneAtATime, TypeInv, TypeOK, NoJob
<1>3. ASSUME NEW j \in Jobs, Read(r, j), j.op = "unlink" => partner[j.line] = j.other
      PROVE  UnlinkHolds'
  BY <1>3 DEF Read, lines, UnlinkHolds, TypeInv, TypeOK
<1>4. ASSUME \/ \E l \in Lines, a \in Accounts, v \in Signed, i \in BOOLEAN :
                     Import(r, l, a, v, i)
             \/ \E l \in Lines, a \in Accounts, v \in Signed : Type(r, l, a, v)
             \/ \E a \in Accounts : SetKind(r, a)
             \/ \E l \in Lines, i \in BOOLEAN : Qualify(r, l, i)
      PROVE  UnlinkHolds'
  BY <1>4, <1>1 DEF Import, Type, SetKind, Qualify, Single
<1>5. ASSUME NEW l \in Lines, NEW a \in Accounts, NEW v \in Amounts, WithdrawRead(r, l, a, v)
      PROVE  UnlinkHolds'
  <2>. DEFINE j == [NoJob EXCEPT !.op = "withdraw", !.line = l, !.account = a, !.amount = v]
  <2>1. j \in Jobs /\ j.op = "withdraw"
    BY DEF NoJob, Jobs
  <2>. QED
    BY <1>5, <2>1, <1>3 DEF WithdrawRead
<1>6. ASSUME NEW l \in Lines, NEW o \in Lines, LinkRead(r, l, o)
      PROVE  UnlinkHolds'
  <2>. DEFINE j == [NoJob EXCEPT !.op = "link", !.line = l, !.other = o]
  <2>1. j \in Jobs /\ j.op = "link"
    BY DEF NoJob, Jobs
  <2>. QED
    BY <1>6, <2>1, <1>3 DEF LinkRead
<1>7. ASSUME NEW l \in Lines, NEW v \in Amounts, AdjustRead(r, l, v)
      PROVE  UnlinkHolds'
  <2>. DEFINE j == [NoJob EXCEPT !.op = "adjust", !.line = l, !.other = partner[l],
                                 !.amount = v]
  <2>1. j \in Jobs /\ j.op = "adjust"
    BY DEF NoJob, Jobs, TypeInv, TypeOK
  <2>. QED
    BY <1>7, <2>1, <1>3 DEF AdjustRead
<1>8. ASSUME NEW l \in Lines, UnlinkRead(r, l)
      PROVE  UnlinkHolds'
  <2>. DEFINE j == [NoJob EXCEPT !.op = "unlink", !.line = l, !.other = partner[l],
                                 !.ours = Generated(partner[l])]
  <2>1. /\ j \in Jobs /\ j.op = "unlink" /\ j.line = l /\ j.other = partner[l]
        /\ Read(r, j)
    BY <1>8 DEF UnlinkRead, NoJob, Jobs, Generated, TypeInv, TypeOK
  <2>. QED
    BY <2>1, <1>3
<1>9. ASSUME \/ \E m \in Lines : WithdrawCommit(r, m)
             \/ LinkCommit(r)
             \/ AdjustCommit(r)
             \/ UnlinkDetach(r)
             \/ UnlinkDelete(r)
             \/ Abandon(r)
      PROVE  UnlinkHolds'
  BY <1>9, <1>2
     DEF WithdrawCommit, LinkCommit, AdjustCommit, UnlinkDetach, UnlinkDelete, Commit, Abandon
<1>. QED
  BY <1>4, <1>5, <1>6, <1>7, <1>8, <1>9 DEF Step

\* An unlinking that finds the pair it has read separates that pair only.
LEMMA PairsParted ==
    ASSUME TypeInv, PairsInv, NEW l \in Lines, NEW o \in Lines, partner[l] = o,
           \A x \in Lines : partner'[x] = IF x \in {l, o} THEN NoLine ELSE partner[x],
           \A x \in Lines \ {o} : Exists(x) => Exists(x)'
    PROVE  PairsInv'
<1>1. partner[o] = l
  BY TransferConstants DEF PairsInv, LegsPointBack
<1>2. \A x \in Lines \ {l, o} : partner[x] \notin {l, o}
  <2>. SUFFICES ASSUME NEW x \in Lines \ {l, o}, partner[x] \in {l, o} PROVE FALSE
    OBVIOUS
  <2>1. partner[partner[x]] = x
    BY TransferConstants DEF PairsInv, LegsPointBack
  <2>. QED
    BY <1>1, <2>1
<1>3. LegsPointBack'
  <2>. SUFFICES ASSUME NEW x \in Lines, partner'[x] # NoLine
                PROVE  partner'[partner'[x]] = x
    BY DEF LegsPointBack
  <2>1. x \notin {l, o} /\ partner'[x] = partner[x] /\ partner[x] \in Lines \ {l, o}
    BY <1>2 DEF TypeInv, TypeOK
  <2>. QED
    BY <2>1, TransferConstants DEF PairsInv, LegsPointBack
<1>4. \A x \in Lines : partner'[x] # NoLine => Exists(x)'
  BY DEF PairsInv
<1>. QED
  BY <1>3, <1>4 DEF PairsInv

\* No step breaks a pair, or takes a leg from one.
LEMMA StepPairs ==
    ASSUME TypeInv, PairsInv, UnlinkHolds, NEW r \in Requests, Step(r)
    PROVE  PairsInv' /\ PairsStep
<1>1. ASSUME NEW l \in Lines, NEW a \in Accounts, NEW v \in Signed, NEW i \in BOOLEAN,
             Import(r, l, a, v, i)
      PROVE  PairsInv' /\ PairsStep
  BY <1>1, PairsInserted DEF Import, Fresh
<1>2. ASSUME NEW l \in Lines, NEW a \in Accounts, NEW v \in Signed, Type(r, l, a, v)
      PROVE  PairsInv' /\ PairsStep
  BY <1>2, PairsInserted DEF Type, Fresh
<1>3. ASSUME NEW a \in Accounts, SetKind(r, a)
      PROVE  PairsInv' /\ PairsStep
  BY <1>3, PairsUntouched DEF SetKind, lines
<1>4. ASSUME NEW l \in Lines, NEW i \in BOOLEAN, Qualify(r, l, i)
      PROVE  PairsInv' /\ PairsStep
  BY <1>4, PairsUntouched DEF Qualify
<1>5. ASSUME NEW l \in Lines, NEW a \in Accounts, NEW v \in Amounts, WithdrawRead(r, l, a, v)
      PROVE  PairsInv' /\ PairsStep
  BY <1>5, PairsUntouched DEF WithdrawRead, Read, lines
<1>6. ASSUME NEW m \in Lines, WithdrawCommit(r, m)
      PROVE  PairsInv' /\ PairsStep
  <2>. DEFINE l == job[r].line
  <2>1. /\ l \in Lines /\ Exists(l) /\ ~Exists(m) /\ UniquePartner(m, l)
        /\ job[r].account \in Accounts
    BY <1>6 DEF WithdrawCommit, Commit, Fresh, TypeInv, JobShape
  <2>2. m # l
    BY <2>1
  <2>3. UniquePartner(l, m)
    <3>. SUFFICES ASSUME NEW x \in Lines, partner[x] = m PROVE FALSE
      BY DEF UniquePartner
    <3>1. partner[m] = x
      BY TransferConstants DEF PairsInv, LegsPointBack
    <3>. QED
      BY <3>1, <2>1, TransferConstants DEF PairsInv
  <2>4. /\ partner' = [partner EXCEPT ![m] = l, ![l] = m]
        /\ account' = [account EXCEPT ![m] = job[r].account]
    BY <1>6, <2>1, TransferConstants DEF WithdrawCommit, Insert
  <2>5. \A x \in Lines : (Exists(x) \/ x \in {m, l}) => Exists(x)'
    BY <2>1, <2>4, TransferConstants DEF Exists, TypeInv, TypeOK
  <2>. QED
    BY <2>1, <2>2, <2>3, <2>4, <2>5, PairsMade
<1>7. ASSUME NEW l \in Lines, NEW o \in Lines, LinkRead(r, l, o)
      PROVE  PairsInv' /\ PairsStep
  BY <1>7, PairsUntouched DEF LinkRead, Read, lines
<1>8. CASE LinkCommit(r)
  <2>1. job[r].line \in Lines /\ job[r].other \in Lines /\ job[r].line # job[r].other
    BY <1>8 DEF LinkCommit, Commit, TypeInv, JobShape
  <2>2. \A x \in Lines : (Exists(x) \/ x \in {job[r].line, job[r].other}) => Exists(x)'
    BY <1>8 DEF LinkCommit, Exists
  <2>. QED
    BY <1>8, <2>1, <2>2, PairsMade DEF LinkCommit
<1>9. ASSUME NEW l \in Lines, NEW v \in Amounts, AdjustRead(r, l, v)
      PROVE  PairsInv' /\ PairsStep
  BY <1>9, PairsUntouched DEF AdjustRead, Read, lines
<1>10. CASE AdjustCommit(r)
  BY <1>10, PairsUntouched DEF AdjustCommit
<1>11. ASSUME NEW l \in Lines, UnlinkRead(r, l)
       PROVE  PairsInv' /\ PairsStep
  BY <1>11, PairsUntouched DEF UnlinkRead, Read, lines
<1>12. CASE UnlinkDetach(r) \/ UnlinkDelete(r)
  <2>1. /\ job[r].op = "unlink"
        /\ job[r].line \in Lines
        /\ job[r].other \in Lines
        /\ partner[job[r].line] = job[r].other
    BY <1>12 DEF UnlinkDetach, UnlinkDelete, Commit, UnlinkHolds, TypeInv, JobShape
  <2>2. \A x \in Lines \ {job[r].line} : partner[x] # job[r].other
    <3>. SUFFICES ASSUME NEW x \in Lines, partner[x] = job[r].other
                  PROVE  x = job[r].line
      OBVIOUS
    <3>. QED
      BY <2>1, TransferConstants DEF PairsInv, LegsPointBack
  <2>3. \A x \in Lines :
          partner'[x] = IF x \in {job[r].line, job[r].other} THEN NoLine ELSE partner[x]
    BY <1>12, <2>1, <2>2 DEF UnlinkDetach, UnlinkDelete, TypeInv, TypeOK
  <2>4. \A x \in Lines \ {job[r].other} : Exists(x) => Exists(x)'
    BY <1>12, <2>1 DEF UnlinkDetach, UnlinkDelete, Exists, TypeInv, TypeOK
  <2>5. PairsInv'
    BY <2>1, <2>3, <2>4, PairsParted
  <2>6. PairsStep
    BY <1>12, <2>1 DEF UnlinkDetach, UnlinkDelete, Commit, PairsStep, TypeInv, TypeOK
  <2>. QED
    BY <2>5, <2>6
<1>13. CASE Abandon(r)
  BY <1>13, PairsUntouched DEF Abandon, lines
<1>. QED
  BY <1>1, <1>2, <1>3, <1>4, <1>5, <1>6, <1>7, <1>8, <1>9, <1>10, <1>11, <1>12, <1>13
     DEF Step

\* At the start nothing is paired.
LEMMA InitPairs == Init => PairsInv
  BY DEF Init, PairsInv, LegsPointBack

\* Nothing is paired one-sidedly, and no pairing takes a leg from another one.
LEMMA PairsAlways ==
    ASSUME OneAtATime \/ "unlink" \notin Operations
    PROVE  Spec => []PairsInv /\ [][PairsStep]_vars
<1>1. TypeInv /\ UnlinkHolds /\ PairsInv /\ [Next]_vars
        => UnlinkHolds' /\ PairsInv' /\ [PairsStep]_vars
  <2>. SUFFICES ASSUME TypeInv, UnlinkHolds, PairsInv, [Next]_vars
                PROVE  UnlinkHolds' /\ PairsInv' /\ [PairsStep]_vars
    OBVIOUS
  <2>1. CASE Next
    BY <2>1, StepPairs, StepUnlinkHolds DEF Next
  <2>2. CASE UNCHANGED vars
    BY <2>2, PairsUntouched DEF vars, lines, UnlinkHolds
  <2>. QED
    BY <2>1, <2>2
<1>2. Init => UnlinkHolds
  BY DEF Init, UnlinkHolds, NoJob
<1>. QED
  BY TypeInvAlways, InitPairs, <1>1, <1>2, PTL DEF Spec

\* Both legs of a movement point at each other when requests are served one at
\* a time, and, although the pairing services lock nothing, as long as nothing
\* is unlinked: the unique index is enough.
THEOREM LegsAlwaysPointBack ==
    ASSUME OneAtATime \/ "unlink" \notin Operations
    PROVE  Spec => []LegsPointBack
<1>1. PairsInv => LegsPointBack
  BY DEF PairsInv
<1>. QED
  BY PairsAlways, <1>1, PTL

\* Under the same condition no pairing makes an orphan of a third line.
THEOREM PairingStealsNothing ==
    ASSUME OneAtATime \/ "unlink" \notin Operations
    PROVE  Spec => NoLegStolen
  BY PairsAlways, PTL DEF NoLegStolen, PairsStep

(***************************************************************************)
(* Both legs of a movement are flagged internal.                           *)
(***************************************************************************)

\* A leg is flagged, and only a line that exists is one.
InternalInv ==
    /\ LegsAreInternal
    /\ \A l \in Lines : partner[l] # NoLine => Exists(l)

\* The flags and the pairs go together in every step, an unlinking made from a
\* stale read included: it clears the flags of the legs it detaches.
LEMMA StepInternal ==
    ASSUME "qualify" \notin Operations, TypeInv, InternalInv, NEW r \in Requests, Step(r)
    PROVE  InternalInv'
<1>1. ASSUME NEW l \in Lines, NEW a \in Accounts, NEW v, NEW o, NEW i, NEW h,
             Fresh(l), Insert(l, a, v, o, NoLine, i, h)
      PROVE  InternalInv'
  <2>1. /\ partner[l] = NoLine
        /\ \A x \in Lines : partner'[x] = partner[x]
        /\ \A x \in Lines \ {l} : internal'[x] = internal[x] /\ account'[x] = account[x]
    BY <1>1, TransferConstants DEF Insert, Fresh, InternalInv, TypeInv, TypeOK
  <2>. QED
    BY <2>1 DEF InternalInv, LegsAreInternal, Exists
<1>2. ASSUME NEW m \in Lines, WithdrawCommit(r, m)
      PROVE  InternalInv'
  <2>. DEFINE l == job[r].line
  <2>1. l \in Lines /\ job[r].account \in Accounts /\ Exists(l) /\ m # l
    BY <1>2 DEF WithdrawCommit, Commit, Fresh, TypeInv, JobShape
  <2>2. \A x \in Lines :
          /\ x \notin {l, m} => partner'[x] = partner[x] /\ internal'[x] = internal[x]
          /\ x \in {l, m} => internal'[x]
          /\ account'[x] = IF x = m THEN job[r].account ELSE account[x]
    BY <1>2, <2>1, TransferConstants DEF WithdrawCommit, Insert, TypeInv, TypeOK
  <2>. QED
    BY <2>1, <2>2, TransferConstants DEF InternalInv, LegsAreInternal, Exists
<1>3. CASE LinkCommit(r)
  <2>. DEFINE l == job[r].line
              o == job[r].other
  <2>1. l \in Lines /\ o \in Lines /\ Exists(l) /\ Exists(o) /\ account' = account
    BY <1>3 DEF LinkCommit, Commit, TypeInv, JobShape
  <2>2. \A x \in Lines :
          /\ x \notin {l, o} => partner'[x] = partner[x] /\ internal'[x] = internal[x]
          /\ x \in {l, o} => internal'[x]
    BY <1>3, <2>1 DEF LinkCommit, TypeInv, TypeOK
  <2>. QED
    BY <2>1, <2>2 DEF InternalInv, LegsAreInternal, Exists
<1>4. CASE UnlinkDetach(r) \/ UnlinkDelete(r)
  <2>. DEFINE l == job[r].line
              o == job[r].other
  <2>1. l \in Lines /\ o \in Lines
    BY <1>4 DEF UnlinkDetach, UnlinkDelete, Commit, TypeInv, JobShape
  <2>2. \A x \in Lines :
          /\ x \notin {l, o} => /\ partner'[x] \in {partner[x], NoLine}
                               /\ internal'[x] = internal[x]
                               /\ account'[x] = account[x]
          /\ x \in {l, o} => partner'[x] = NoLine
    BY <1>4, <2>1 DEF UnlinkDetach, UnlinkDelete, TypeInv, TypeOK
  <2>. QED
    BY <2>1, <2>2 DEF InternalInv, LegsAreInternal, Exists
<1>5. CASE UNCHANGED <<account, partner, internal>>
  BY <1>5 DEF InternalInv, LegsAreInternal, Exists
<1>6. ASSUME NEW l \in Lines, NEW i \in BOOLEAN, Qualify(r, l, i)
      PROVE  FALSE
  BY <1>6 DEF Qualify, Single
<1>. QED
  BY <1>1, <1>2, <1>3, <1>4, <1>5, <1>6
     DEF Step, Import, Type, SetKind, WithdrawRead, LinkRead, AdjustRead, AdjustCommit,
         UnlinkRead, Abandon, Read, lines

\* As long as the flag is not edited by hand, whatever is linked and unlinked at
\* the same time, every leg of a movement is flagged internal.
THEOREM LegsStayInternal ==
    ASSUME "qualify" \notin Operations
    PROVE  Spec => []LegsAreInternal
<1>1. Init => InternalInv
  BY DEF Init, InternalInv, LegsAreInternal
<1>2. TypeInv /\ InternalInv /\ [Next]_vars => InternalInv'
  <2>1. TypeInv /\ InternalInv /\ Next => InternalInv'
    BY StepInternal DEF Next
  <2>2. InternalInv /\ UNCHANGED vars => InternalInv'
    BY DEF vars, lines, InternalInv, LegsAreInternal, Exists
  <2>. QED
    BY <2>1, <2>2
<1>3. InternalInv => LegsAreInternal
  BY DEF InternalInv
<1>. QED
  BY TypeInvAlways, <1>1, <1>2, <1>3, PTL DEF Spec

(***************************************************************************)
(* The cash of a withdrawal.                                               *)
(***************************************************************************)

\* What a line is worth is an integer, and what users type is positive.
LEMMA SignedAreInt ==
    /\ Signed \cup {0} \subseteq Int
    /\ \A v \in Amounts : v \in Int /\ 0 < v
<1>1. \A v \in Amounts : v \in Nat /\ v # 0
  BY TransferConstants
<1>2. \A v \in Amounts : v \in Int /\ 0 < v
  BY <1>1
<1>. QED
  BY <1>2 DEF Signed

\* Amounts are integers, and what a line pays out is the opposite of its amount.
LEMMA AmountFacts ==
    ASSUME TypeInv
    PROVE  /\ \A l \in Lines : amount[l] \in Int
           /\ \A l \in Lines : amount[l] < 0 => Outflow(l) = -amount[l]
           /\ \A v \in Amounts : v \in Int /\ 0 < v
  BY SignedAreInt DEF TypeInv, TypeOK, Outflow

\* What a request has checked of the amounts is still true, unless the lines it
\* is about to pair were paired meanwhile: then the unique index refuses it, or
\* finds the same pair.
AmountsHold(r) ==
    LET l == job[r].line
        o == job[r].other
        Within == amount[l] < 0 /\ 0 < job[r].amount /\ job[r].amount <= -amount[l]
    IN  /\ job[r].op = "withdraw" /\ partner[l] = NoLine => Within
        /\ job[r].op = "link" /\ partner[l] = NoLine /\ partner[o] = NoLine =>
             amount[l] = -amount[o]
        /\ job[r].op = "adjust" => partner[l] = o /\ Within

CashInv == CashWithinWithdrawal /\ \A r \in Requests : AmountsHold(r)

\* A leg keeps its partner, and only the cash of a withdrawal changes amount.
KeepsAmount(l) ==
    /\ partner[l] # NoLine => partner'[l] = partner[l]
    /\ partner[l] = NoLine /\ ~Fresh(l) => amount'[l] = amount[l]
    /\ partner[l] # NoLine /\ amount[l] < 0 => amount'[l] = amount[l]

\* The line a request withdraws from when it commits has no partner.
LEMMA WithdrawnIsFree ==
    ASSUME TypeInv, PairsInv, NEW r \in Requests, NEW m \in Lines, WithdrawCommit(r, m)
    PROVE  /\ job[r].line \in Lines /\ job[r].line # m
           /\ partner[job[r].line] = NoLine /\ partner[m] = NoLine
           /\ \A x \in Lines : partner[x] \notin {m, job[r].line}
<1>. DEFINE l == job[r].line
<1>1. l \in Lines /\ l # m /\ ~Exists(m) /\ UniquePartner(m, l)
  BY DEF WithdrawCommit, Commit, Fresh, TypeInv, JobShape
<1>2. partner[m] = NoLine
  BY <1>1 DEF PairsInv
<1>3. \A x \in Lines : partner[x] # m
  BY <1>2, TransferConstants DEF PairsInv, LegsPointBack
<1>4. \A x \in Lines : partner[x] # l
  BY <1>1, <1>2, TransferConstants DEF UniquePartner
<1>5. partner[l] = NoLine
  <2>. SUFFICES ASSUME partner[l] # NoLine PROVE FALSE
    OBVIOUS
  <2>1. partner[l] \in Lines /\ partner[partner[l]] = l
    BY <1>1 DEF PairsInv, LegsPointBack, TypeInv, TypeOK
  <2>. QED
    BY <1>4, <2>1
<1>. QED
  BY <1>1, <1>2, <1>3, <1>4, <1>5

\* The rows a withdrawal writes.
LEMMA WithdrawWrites ==
    ASSUME TypeInv, PairsInv, NEW r \in Requests, NEW m \in Lines, WithdrawCommit(r, m),
           NEW x \in Lines
    PROVE  /\ partner'[x] = IF x = m THEN job[r].line
                            ELSE IF x = job[r].line THEN m ELSE partner[x]
           /\ amount'[x] = IF x = m THEN job[r].amount ELSE amount[x]
<1>1. job[r].line \in Lines /\ job[r].line # m
  BY WithdrawnIsFree
<1>. QED
  BY <1>1, TransferConstants DEF WithdrawCommit, Insert, TypeInv, TypeOK

\* The rows an adjustment writes.
LEMMA AdjustWrites ==
    ASSUME TypeInv, PairsInv, CashInv, NEW r \in Requests, AdjustCommit(r)
    PROVE  /\ job[r].line \in Lines /\ job[r].other \in Lines
           /\ partner[job[r].line] = job[r].other
           /\ partner[job[r].other] = job[r].line
           /\ amount[job[r].line] < 0 /\ 0 < amount[job[r].other]
           /\ job[r].line # job[r].other
           /\ 0 < job[r].amount /\ job[r].amount <= -amount[job[r].line]
           /\ \A x \in Lines :
                amount'[x] = IF x = job[r].other THEN job[r].amount ELSE amount[x]
           /\ UNCHANGED partner
<1>. DEFINE l == job[r].line
            o == job[r].other
<1>1. job[r].op = "adjust" /\ l \in Lines /\ o \in Lines
  BY DEF AdjustCommit, Commit, TypeInv, JobShape
<1>2. partner[l] = o /\ amount[l] < 0 /\ 0 < job[r].amount /\ job[r].amount <= -amount[l]
  BY <1>1 DEF CashInv, AmountsHold
<1>3. partner[o] = l /\ 0 < amount[o]
  BY <1>1, <1>2, TransferConstants
     DEF PairsInv, LegsPointBack, CashInv, CashWithinWithdrawal
<1>4. l # o
  <2>. SUFFICES ASSUME l = o PROVE FALSE
    OBVIOUS
  <2>1. amount[l] < 0 /\ 0 < amount[l] /\ amount[l] \in Int
    BY <1>1, <1>2, <1>3, AmountFacts
  <2>. QED
    BY <2>1
<1>5. /\ \A x \in Lines : amount'[x] = IF x = o THEN job[r].amount ELSE amount[x]
      /\ UNCHANGED partner
  BY DEF AdjustCommit, TypeInv, TypeOK
<1>. QED
  BY <1>1, <1>2, <1>3, <1>4, <1>5

\* A line inserted alone leaves every other line as it was.
LEMMA InsertWrites ==
    ASSUME TypeInv, PairsInv, NEW l \in Lines, NEW a \in Accounts, NEW v, NEW o,
           NEW i, NEW h, Fresh(l), Insert(l, a, v, o, NoLine, i, h)
    PROVE  /\ partner[l] = NoLine
           /\ \A x \in Lines : partner'[x] = partner[x] /\ partner[x] # l
           /\ \A x \in Lines \ {l} : amount'[x] = amount[x]
<1>1. partner[l] = NoLine
  BY DEF Fresh, PairsInv
<1>2. \A x \in Lines : partner[x] # l
  BY <1>1, TransferConstants DEF PairsInv, LegsPointBack
<1>. QED
  BY <1>1, <1>2, TransferConstants DEF Insert, TypeInv, TypeOK

\* Every step but an unlinking keeps the amounts the requests rely on.
LEMMA StepKeepsAmount ==
    ASSUME TypeInv, PairsInv, CashInv, NEW r \in Requests, Step(r),
           ~UnlinkDetach(r), ~UnlinkDelete(r), NEW l \in Lines
    PROVE  KeepsAmount(l)
<1>1. ASSUME NEW x \in Lines, NEW a \in Accounts, NEW v, NEW o, NEW i, NEW h,
             Fresh(x), Insert(x, a, v, o, NoLine, i, h)
      PROVE  KeepsAmount(l)
  BY <1>1, InsertWrites DEF KeepsAmount
<1>2. ASSUME NEW m \in Lines, WithdrawCommit(r, m)
      PROVE  KeepsAmount(l)
  <2>1. Fresh(m)
    BY <1>2 DEF WithdrawCommit
  <2>. QED
    BY <1>2, <2>1, WithdrawnIsFree, WithdrawWrites DEF KeepsAmount
<1>3. CASE LinkCommit(r)
  <2>1. /\ job[r].line \in Lines /\ job[r].other \in Lines
        /\ UniquePartner(job[r].line, job[r].other)
        /\ UniquePartner(job[r].other, job[r].line)
        /\ amount' = amount
        /\ partner' = [partner EXCEPT ![job[r].line] = job[r].other,
                                      ![job[r].other] = job[r].line]
    BY <1>3 DEF LinkCommit, Commit, TypeInv, JobShape
  <2>. QED
    BY <2>1, PairFree DEF KeepsAmount, TypeInv, TypeOK
<1>4. CASE AdjustCommit(r)
  <2>1. CASE l = job[r].other
    <3>1. /\ 0 < amount[l] /\ amount[l] \in Int
          /\ partner[l] \in Lines /\ UNCHANGED partner
      BY <1>4, <2>1, AdjustWrites, AmountFacts
    <3>2. ~(amount[l] < 0)
      BY <3>1
    <3>. QED
      BY <3>1, <3>2, TransferConstants DEF KeepsAmount
  <2>2. CASE l # job[r].other
    BY <1>4, <2>2, AdjustWrites DEF KeepsAmount
  <2>. QED
    BY <2>1, <2>2
<1>5. CASE UNCHANGED <<amount, partner>>
  BY <1>5 DEF KeepsAmount
<1>. QED
  BY <1>1, <1>2, <1>3, <1>4, <1>5
     DEF Step, Import, Type, SetKind, Qualify, WithdrawRead, LinkRead, AdjustRead,
         UnlinkRead, Abandon, Read, lines

\* A request that goes on keeps what it has checked.
LEMMA AmountsStillHold ==
    ASSUME TypeInv, PairsInv, CashInv, NEW q \in Requests, job'[q] = job[q],
           \A l \in Lines : KeepsAmount(l)
    PROVE  AmountsHold(q)'
<1>1. job[q].op # "none" => job[q].line \in Lines /\ ~Fresh(job[q].line)
  BY DEF Fresh, TypeInv, JobShape
<1>2. job[q].op \in {"link", "adjust"} => job[q].other \in Lines /\ ~Fresh(job[q].other)
  BY DEF Fresh, TypeInv, JobShape
<1>. QED
  BY <1>1, <1>2, TransferConstants DEF CashInv, AmountsHold, KeepsAmount

\* What the views check when they read the rows.
LEMMA OwnAmountsHold ==
    ASSUME TypeInv, PairsInv, CashInv, UnlinkHolds, NEW r \in Requests, Step(r)
    PROVE  AmountsHold(r)'
<1>1. CASE job'[r] = NoJob
  BY <1>1 DEF AmountsHold, NoJob
<1>2. ASSUME NEW l \in Lines, NEW a \in Accounts, NEW v \in Amounts, WithdrawRead(r, l, a, v)
      PROVE  AmountsHold(r)'
  <2>1. /\ job'[r].op = "withdraw" /\ job'[r].line = l /\ job'[r].amount = v
        /\ amount' = amount /\ amount[l] < 0 /\ v <= Outflow(l)
    BY <1>2 DEF WithdrawRead, Read, lines, NoJob, TypeInv, TypeOK
  <2>2. 0 < v /\ v <= -amount[l]
    BY <2>1, AmountFacts
  <2>. QED
    BY <2>1, <2>2 DEF AmountsHold
<1>3. ASSUME NEW l \in Lines, NEW o \in Lines, LinkRead(r, l, o)
      PROVE  AmountsHold(r)'
  <2>1. /\ job'[r].op = "link" /\ job'[r].line = l /\ job'[r].other = o
        /\ amount' = amount /\ amount[l] = -amount[o]
    BY <1>3 DEF LinkRead, Read, lines, NoJob, TypeInv, TypeOK
  <2>. QED
    BY <2>1 DEF AmountsHold
<1>4. ASSUME NEW l \in Lines, NEW v \in Amounts, AdjustRead(r, l, v)
      PROVE  AmountsHold(r)'
  <2>1. /\ job'[r].op = "adjust" /\ job'[r].line = l /\ job'[r].other = partner[l]
        /\ job'[r].amount = v
        /\ amount' = amount /\ partner' = partner /\ v <= Outflow(l)
    BY <1>4 DEF AdjustRead, Read, lines, NoJob, TypeInv, TypeOK
  <2>2. v \in Int /\ 0 < v /\ amount[l] \in Int
    BY AmountFacts
  <2>3. amount[l] < 0 /\ v <= -amount[l]
    BY <2>1, <2>2 DEF Outflow
  <2>. QED
    BY <2>1, <2>2, <2>3 DEF AmountsHold
<1>5. ASSUME NEW l \in Lines, UnlinkRead(r, l)
      PROVE  AmountsHold(r)'
  <2>1. job'[r].op = "unlink"
    BY <1>5 DEF UnlinkRead, Read, NoJob, TypeInv, TypeOK
  <2>. QED
    BY <2>1 DEF AmountsHold
<1>6. ASSUME job' = job, pc[r] = "idle" PROVE AmountsHold(r)'
  <2>1. ~UnlinkDetach(r) /\ ~UnlinkDelete(r)
    BY <1>6 DEF UnlinkDetach, UnlinkDelete, Commit
  <2>. QED
    BY <1>6, <2>1, StepKeepsAmount, AmountsStillHold
<1>7. job' = [job EXCEPT ![r] = NoJob] => job'[r] = NoJob
  BY DEF TypeInv, TypeOK
<1>. QED
  BY <1>1, <1>2, <1>3, <1>4, <1>5, <1>6, <1>7
     DEF Step, Import, Type, SetKind, Qualify, Single, WithdrawCommit, LinkCommit,
         AdjustCommit, UnlinkDetach, UnlinkDelete, Commit, Abandon

\* One leg of the bound.
CashFits(l) ==
    partner'[l] # NoLine /\ amount'[l] < 0 =>
        0 < amount'[partner'[l]] /\ amount'[partner'[l]] <= -amount'[l]

\* The bound survives for a leg that is not touched.
LEMMA CashStillFits ==
    ASSUME TypeInv, CashInv, NEW l \in Lines,
           partner'[l] # NoLine => /\ partner'[l] = partner[l]
                                   /\ amount'[l] = amount[l]
                                   /\ amount'[partner[l]] = amount[partner[l]]
    PROVE  CashFits(l)
  BY AmountFacts DEF CashInv, CashWithinWithdrawal, CashFits

\* Every step keeps the bound.
LEMMA StepCash ==
    ASSUME TypeInv, PairsInv, CashInv, NEW r \in Requests, Step(r), NEW l \in Lines
    PROVE  CashFits(l)
<1>1. ASSUME NEW x \in Lines, NEW a \in Accounts, NEW v, NEW o, NEW i, NEW h,
             Fresh(x), Insert(x, a, v, o, NoLine, i, h)
      PROVE  CashFits(l)
  <2>1. partner'[l] # NoLine => partner[l] # NoLine /\ partner[l] \in Lines \ {x} /\ l # x
    BY <1>1, InsertWrites DEF TypeInv, TypeOK
  <2>. QED
    BY <1>1, <2>1, InsertWrites, CashStillFits
<1>2. ASSUME NEW m \in Lines, WithdrawCommit(r, m)
      PROVE  CashFits(l)
  <2>. DEFINE u == job[r].line
  <2>1. /\ amount[u] < 0 /\ 0 < job[r].amount /\ job[r].amount <= -amount[u]
    BY <1>2, WithdrawnIsFree DEF WithdrawCommit, Commit, CashInv, AmountsHold
  <2>2. CASE l = m
    <3>1. amount'[l] = job[r].amount
      BY <1>2, <2>2, WithdrawWrites
    <3>2. job[r].amount \in Int
      BY AmountFacts DEF TypeInv, TypeOK, Jobs
    <3>3. ~(amount'[l] < 0)
      BY <2>1, <3>1, <3>2
    <3>. QED
      BY <3>3 DEF CashFits
  <2>3. CASE l = u
    BY <1>2, <2>1, <2>3, WithdrawnIsFree, WithdrawWrites DEF CashFits
  <2>4. CASE l \notin {m, u}
    <3>1. partner[l] # NoLine => partner[l] \in Lines /\ partner[l] # m
      BY <1>2, WithdrawnIsFree DEF TypeInv, TypeOK
    <3>. QED
      BY <1>2, <2>4, <3>1, WithdrawWrites, CashStillFits
  <2>. QED
    BY <2>2, <2>3, <2>4
<1>3. CASE LinkCommit(r)
  <2>. DEFINE u == job[r].line
              o == job[r].other
  <2>1. /\ job[r].op = "link"
        /\ u \in Lines /\ o \in Lines /\ u # o
        /\ UniquePartner(u, o) /\ UniquePartner(o, u)
        /\ amount' = amount
        /\ partner' = [partner EXCEPT ![u] = o, ![o] = u]
    BY <1>3 DEF LinkCommit, Commit, TypeInv, JobShape
  <2>2. partner[u] \in {NoLine, o} /\ partner[o] \in {NoLine, u}
    BY <2>1, PairFree
  <2>3. CASE partner[u] = NoLine /\ partner[o] = NoLine
    <3>1. amount[u] = -amount[o] /\ amount[u] \in Int /\ amount[o] \in Int
      BY <2>1, <2>3, AmountFacts DEF CashInv, AmountsHold
    <3>2. CASE l = u
      <4>1. partner'[l] = o /\ amount'[l] = amount[u] /\ amount'[o] = amount[o]
        BY <2>1, <3>2 DEF TypeInv, TypeOK
      <4>2. amount[u] < 0 => 0 < amount[o] /\ amount[o] <= -amount[u]
        BY <3>1
      <4>. QED
        BY <4>1, <4>2 DEF CashFits
    <3>3. CASE l = o
      <4>1. partner'[l] = u /\ amount'[l] = amount[o] /\ amount'[u] = amount[u]
        BY <2>1, <3>3 DEF TypeInv, TypeOK
      <4>2. amount[o] < 0 => 0 < amount[u] /\ amount[u] <= -amount[o]
        BY <3>1
      <4>. QED
        BY <4>1, <4>2 DEF CashFits
    <3>4. CASE l \notin {u, o}
      BY <2>1, <3>4, CashStillFits DEF TypeInv, TypeOK
    <3>. QED
      BY <3>2, <3>3, <3>4
  <2>4. CASE partner[u] = o \/ partner[o] = u
    <3>1. partner[u] = o /\ partner[o] = u
      BY <2>1, <2>4, TransferConstants DEF PairsInv, LegsPointBack
    <3>2. \A x \in Lines : partner'[x] = partner[x]
      BY <2>1, <3>1 DEF TypeInv, TypeOK
    <3>. QED
      BY <2>1, <3>2, CashStillFits
  <2>. QED
    BY <2>2, <2>3, <2>4
<1>4. CASE AdjustCommit(r)
  <2>. DEFINE u == job[r].line
              o == job[r].other
  <2>1. CASE l = u
    <3>1. /\ partner'[l] = o /\ amount'[l] = amount[u] /\ amount'[o] = job[r].amount
          /\ 0 < job[r].amount /\ job[r].amount <= -amount[u]
      BY <1>4, <2>1, AdjustWrites
    <3>. QED
      BY <3>1 DEF CashFits
  <2>2. CASE l = o
    <3>1. amount'[l] = job[r].amount /\ 0 < job[r].amount
      BY <1>4, <2>2, AdjustWrites
    <3>2. job[r].amount \in Int
      BY AmountFacts DEF TypeInv, TypeOK, Jobs
    <3>3. ~(amount'[l] < 0)
      BY <3>1, <3>2
    <3>. QED
      BY <3>3 DEF CashFits
  <2>3. CASE l \notin {u, o}
    <3>1. partner[l] # NoLine => partner[l] \in Lines /\ partner[l] # o
      <4>. SUFFICES ASSUME partner[l] # NoLine, partner[l] = o PROVE FALSE
        BY DEF TypeInv, TypeOK
      <4>. QED
        BY <1>4, <2>3, AdjustWrites DEF PairsInv, LegsPointBack
    <3>. QED
      BY <1>4, <2>3, <3>1, AdjustWrites, CashStillFits
  <2>. QED
    BY <2>1, <2>2, <2>3
<1>5. CASE UnlinkDetach(r) \/ UnlinkDelete(r)
  <2>. DEFINE u == job[r].line
              o == job[r].other
  <2>1. u \in Lines /\ o \in Lines
    BY <1>5 DEF UnlinkDetach, UnlinkDelete, Commit, TypeInv, JobShape
  <2>2. partner'[l] # NoLine => partner'[l] = partner[l] /\ l # o
    BY <1>5, <2>1 DEF UnlinkDetach, UnlinkDelete, TypeInv, TypeOK
  <2>3. partner'[l] # NoLine => amount'[l] = amount[l]
    BY <1>5, <2>1, <2>2 DEF UnlinkDetach, UnlinkDelete, TypeInv, TypeOK
  <2>4. partner'[l] # NoLine => amount'[partner[l]] = amount[partner[l]]
    <3>1. CASE UnlinkDetach(r)
      BY <3>1 DEF UnlinkDetach
    <3>2. CASE UnlinkDelete(r)
      <4>1. partner'[l] # NoLine => partner[l] # o /\ partner[l] \in Lines
        BY <3>2, <2>2 DEF UnlinkDelete, TypeInv, TypeOK
      <4>. QED
        BY <3>2, <4>1 DEF UnlinkDelete, TypeInv, TypeOK
    <3>. QED
      BY <1>5, <3>1, <3>2
  <2>. QED
    BY <2>2, <2>3, <2>4, CashStillFits
<1>6. CASE UNCHANGED <<amount, partner>>
  BY <1>6, CashStillFits
<1>. QED
  BY <1>1, <1>2, <1>3, <1>4, <1>5, <1>6
     DEF Step, Import, Type, SetKind, Qualify, WithdrawRead, LinkRead, AdjustRead,
         UnlinkRead, Abandon, Read, lines

\* Served one at a time, or as long as nothing is unlinked, the cash of a
\* withdrawal never holds more than was withdrawn, although linking and
\* adjusting work from rows read before.
THEOREM CashStaysWithin ==
    ASSUME OneAtATime \/ "unlink" \notin Operations
    PROVE  Spec => []CashWithinWithdrawal
<1>1. Init => UnlinkHolds /\ CashInv
  BY DEF Init, UnlinkHolds, CashInv, CashWithinWithdrawal, AmountsHold, NoJob
<1>2. TypeInv /\ TypeInv' /\ PairsInv /\ UnlinkHolds /\ CashInv /\ [Next]_vars
        => UnlinkHolds' /\ CashInv'
  <2>1. ASSUME TypeInv, TypeInv', PairsInv, UnlinkHolds, CashInv, NEW r \in Requests, Step(r)
        PROVE  UnlinkHolds' /\ CashInv'
    <3>1. UnlinkHolds'
      BY <2>1, StepUnlinkHolds
    <3>2. CashWithinWithdrawal'
      <4>1. \A l \in Lines : amount'[l] \in Int
        BY <2>1, SignedAreInt DEF TypeInv, TypeOK
      <4>. QED
        BY <2>1, StepCash, <4>1 DEF CashWithinWithdrawal, CashFits, Outflow
    <3>3. ASSUME NEW q \in Requests PROVE AmountsHold(q)'
      <4>1. CASE q = r
        BY <2>1, <4>1, OwnAmountsHold
      <4>2. CASE q # r
        <5>1. "unlink" \notin Operations
          BY <4>2 DEF OneAtATime
        <5>2. ~UnlinkDetach(r) /\ ~UnlinkDelete(r)
          BY <2>1, <5>1 DEF UnlinkDetach, UnlinkDelete, Commit, UnlinkHolds
        <5>3. job'[q] = job[q]
          BY <2>1, <4>2
             DEF Step, Import, Type, SetKind, Qualify, Single, WithdrawRead, WithdrawCommit,
                 LinkRead, LinkCommit, AdjustRead, AdjustCommit, UnlinkRead, UnlinkDetach,
                 UnlinkDelete, Abandon, Read, Commit, TypeInv, TypeOK
        <5>. QED
          BY <2>1, <5>2, <5>3, StepKeepsAmount, AmountsStillHold
      <4>. QED
        BY <4>1, <4>2
    <3>. QED
      BY <3>1, <3>2, <3>3 DEF CashInv
  <2>2. UnlinkHolds /\ CashInv /\ UNCHANGED vars => UnlinkHolds' /\ CashInv'
    BY DEF vars, lines, UnlinkHolds, CashInv, CashWithinWithdrawal, AmountsHold, Outflow
  <2>. QED
    BY <2>1, <2>2 DEF Next
<1>3. CashInv => CashWithinWithdrawal
  BY DEF CashInv
<1>4. Spec => []PairsInv
  BY PairsAlways, PTL
<1>. QED
  BY TypeInvAlways, <1>1, <1>2, <1>3, <1>4, PTL DEF Spec
===============================================================================
