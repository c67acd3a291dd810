------------------------------- MODULE Transfers -------------------------------
(***************************************************************************)
(* Internal movements between the accounts of a household (apps/banking):  *)
(* a withdrawal with the cash line generated for it, a transfer whose two  *)
(* legs were both imported.  The legs point at each other through          *)
(* transfer_counterpart, a nullable reference that is unique but not       *)
(* symmetric by construction, and the services that set and clear it take  *)
(* no lock: they work from the rows the view has read.                     *)
(*                                                                         *)
(* A request is cut between that read and its transaction, which commits   *)
(* as one step or, on a refused save, not at all (Abandon).                *)
(***************************************************************************)
EXTENDS Integers

CONSTANTS
    Lines,      \* ids of bank lines (BankTransaction)
    Accounts,
    CashAtStart,\* the accounts created with kind "cash"
    Requests,
    NoLine,
    NoAccount,
    Amounts,    \* absolute values; a line is worth an amount or its opposite
    Operations  \* the kinds of request this instance serves

LinkOperations == {"import", "type", "kind", "withdraw", "link", "adjust"}
AllOperations == LinkOperations \cup {"unlink", "qualify"}

ASSUME TransferConstants ==
    /\ NoLine \notin Lines
    /\ NoAccount \notin Accounts
    /\ CashAtStart \subseteq Accounts
    /\ Amounts \subseteq Nat \ {0}
    /\ Operations \subseteq AllOperations

VARIABLES
    cash,      \* the accounts whose kind is "cash"
    account,   \* account[l]: NoAccount if there is no line l
    amount,    \* amount[l]: signed; 0 if there is no line l
    origin,    \* origin[l]: "import" (it has a source_import), "typed" by the
               \* user, "generated" by a withdrawal, or "none"
    partner,   \* partner[l]: transfer_counterpart
    internal,  \* internal[l]: is_internal
    hash,      \* hash[l]: what dedup_hash was computed from, the line's own
               \* discriminant or the operation it is the cash of
    pc,        \* pc[r]: "idle", or "read" once the view has read its rows
    job        \* job[r]: what request r was asked and what it has read

lines == <<account, amount, origin, partner, internal, hash>>
vars == <<cash, lines, pc, job>>

Signed == Amounts \cup {-a : a \in Amounts}
NoHash == [of |-> NoLine, amount |-> 0]
NoJob == [op |-> "none", line |-> NoLine, other |-> NoLine, account |-> NoAccount,
          amount |-> 0, ours |-> FALSE]

Jobs == [op : {"none", "withdraw", "link", "adjust", "unlink"},
         line : Lines \cup {NoLine},
         other : Lines \cup {NoLine},
         account : Accounts \cup {NoAccount},
         amount : Amounts \cup {0},
         ours : BOOLEAN]

-----------------------------------------------------------------------------
Exists(l) == account[l] # NoAccount

\* transaction.outflow
Outflow(l) == IF amount[l] < 0 THEN -amount[l] ELSE 0

\* Mutant: an imported line on a cash account passes for one we generated.
GeneratedByAccount(l) == account[l] \in cash

\* How the services recognise the leg they generated: it has no source_import
\* and lives on a cash account.
Generated(l) == origin[l] # "import" /\ account[l] \in cash

\* Mutant: transfer_counterpart is a plain foreign key.
AnyPartner(l, p) == TRUE

\* OneToOneField: no line but l itself may point at p.
UniquePartner(l, p) == \A x \in Lines \ {l} : partner[x] # p

\* uq_bank_txn_account_dedup: no line but l has this hash on this account.
UniqueHash(l, a, h) == \A x \in Lines \ {l} : account[x] = a => hash[x] # h

Fresh(l) == /\ ~Exists(l)
            /\ \A r \in Requests : job[r].line # l /\ job[r].other # l

-----------------------------------------------------------------------------
Init ==
    /\ cash = CashAtStart
    /\ account = [l \in Lines |-> NoAccount]
    /\ amount = [l \in Lines |-> 0]
    /\ origin = [l \in Lines |-> "none"]
    /\ partner = [l \in Lines |-> NoLine]
    /\ internal = [l \in Lines |-> FALSE]
    /\ hash = [l \in Lines |-> NoHash]
    /\ pc = [r \in Requests |-> "idle"]
    /\ job = [r \in Requests |-> NoJob]

\* A request that is one statement.
Single(r, op) ==
    /\ op \in Operations
    /\ pc[r] = "idle"
    /\ UNCHANGED <<pc, job>>

\* The view of request r has read its rows.
Read(r, j) ==
    /\ j.op \in Operations
    /\ pc[r] = "idle"
    /\ pc' = [pc EXCEPT ![r] = "read"]
    /\ job' = [job EXCEPT ![r] = j]
    /\ UNCHANGED <<cash, lines>>

\* Its transaction commits.
Commit(r, op) ==
    /\ pc[r] = "read"
    /\ job[r].op = op
    /\ pc' = [pc EXCEPT ![r] = "idle"]
    /\ job' = [job EXCEPT ![r] = NoJob]
    /\ UNCHANGED cash

\* A request refused by a validation or a constraint, or dead.
Abandon(r) ==
    /\ pc[r] = "read"
    /\ pc' = [pc EXCEPT ![r] = "idle"]
    /\ job' = [job EXCEPT ![r] = NoJob]
    /\ UNCHANGED <<cash, lines>>

\* A row inserted, with a counterpart or without.
Insert(l, a, v, o, p, i, h) ==
    /\ account' = [account EXCEPT ![l] = a]
    /\ amount' = [amount EXCEPT ![l] = v]
    /\ origin' = [origin EXCEPT ![l] = o]
    /\ partner' = [partner EXCEPT ![l] = p, ![p] = IF p = NoLine THEN @ ELSE l]
    /\ internal' = [internal EXCEPT ![l] = i, ![p] = IF p = NoLine THEN @ ELSE TRUE]
    /\ hash' = [hash EXCEPT ![l] = h]

-----------------------------------------------------------------------------
(* Lines and accounts.                                                     *)

\* One line of an imported statement; its label may suggest a movement.
Import(r, l, a, v, i) ==
    /\ Single(r, "import")
    /\ Fresh(l)
    /\ Insert(l, a, v, "import", NoLine, i, [of |-> l, amount |-> v])
    /\ UNCHANGED cash

\* record_cash_expense and record_cash_deposit.
Type(r, l, a, v) ==
    /\ Single(r, "type")
    /\ Fresh(l)
    /\ a \in cash
    /\ Insert(l, a, v, "typed", NoLine, FALSE, [of |-> l, amount |-> v])
    /\ UNCHANGED cash

\* update_account: the kind of an account may be corrected.
SetKind(r, a) ==
    /\ Single(r, "kind")
    /\ cash' = IF a \in cash THEN cash \ {a} ELSE cash \cup {a}
    /\ UNCHANGED lines

\* PATCH .../qualify/
Qualify(r, l, i) ==
    /\ Single(r, "qualify")
    /\ Exists(l)
    /\ internal' = [internal EXCEPT ![l] = i]
    /\ UNCHANGED <<cash, account, amount, origin, partner, hash>>

-----------------------------------------------------------------------------
(* POST .../withdraw-to-cash/: record_cash_withdrawal.                     *)

\* Mutant: an amount above the withdrawal is accepted.
WithdrawReadAny(r, l, a, v) ==
    /\ Exists(l)
    /\ amount[l] < 0
    /\ a \in cash
    /\ partner[l] = NoLine
    /\ Read(r, [NoJob EXCEPT !.op = "withdraw", !.line = l, !.account = a, !.amount = v])

WithdrawRead(r, l, a, v) ==
    /\ Exists(l)
    /\ amount[l] < 0
    /\ a \in cash
    /\ partner[l] = NoLine
    /\ v <= Outflow(l)
    /\ Read(r, [NoJob EXCEPT !.op = "withdraw", !.line = l, !.account = a, !.amount = v])

\* m is the generated line.
WithdrawCommit(r, m) ==
    LET j == job[r]
        h == [of |-> j.line, amount |-> j.amount]
    IN  /\ Commit(r, "withdraw")
        /\ Fresh(m)
        /\ Exists(j.line)
        /\ UniquePartner(m, j.line)
        /\ UniqueHash(m, j.account, h)
        /\ Insert(m, j.account, j.amount, "generated", j.line, TRUE, h)

-----------------------------------------------------------------------------
(* POST .../link-transfer/: link_counterpart.                              *)

LinkRead(r, l, o) ==
    /\ Exists(l) /\ Exists(o)
    /\ account[l] # account[o]
    /\ partner[l] = NoLine /\ partner[o] = NoLine
    /\ amount[l] = -amount[o]
    /\ Read(r, [NoJob EXCEPT !.op = "link", !.line = l, !.other = o])

\* Mutant: only the line the request names is flagged as internal.
LinkCommitOneFlag(r) ==
    LET l == job[r].line
        o == job[r].other
    IN  /\ Commit(r, "link")
        /\ Exists(l) /\ Exists(o)
        /\ UniquePartner(l, o)
        /\ UniquePartner(o, l)
        /\ partner' = [partner EXCEPT ![l] = o, ![o] = l]
        /\ internal' = [internal EXCEPT ![l] = TRUE]
        /\ UNCHANGED <<account, amount, origin, hash>>

\* Both legs are saved from what was read; only the unique index looks at
\* what has happened since.
LinkCommit(r) ==
    LET l == job[r].line
        o == job[r].other
    IN  /\ Commit(r, "link")
        /\ Exists(l) /\ Exists(o)
        /\ UniquePartner(l, o)
        /\ UniquePartner(o, l)
        /\ partner' = [partner EXCEPT ![l] = o, ![o] = l]
        /\ internal' = [internal EXCEPT ![l] = TRUE, ![o] = TRUE]
        /\ UNCHANGED <<account, amount, origin, hash>>

-----------------------------------------------------------------------------
(* PATCH .../cash-mirror/: adjust_cash_mirror.                             *)

AdjustRead(r, l, v) ==
    /\ Exists(l)
    /\ partner[l] # NoLine
    /\ Generated(partner[l])
    /\ v <= Outflow(l)
    /\ Read(r, [NoJob EXCEPT !.op = "adjust", !.line = l, !.other = partner[l],
                             !.amount = v])

\* Mutant: the correction is added to the amount instead of replacing it.
AdjustCommitAdding(r) ==
    LET m == job[r].other
        h == [of |-> job[r].line, amount |-> job[r].amount]
    IN  /\ Commit(r, "adjust")
        /\ Exists(m)
        /\ UniqueHash(m, account[m], h)
        /\ amount' = [amount EXCEPT ![m] = @ + job[r].amount]
        /\ hash' = [hash EXCEPT ![m] = h]
        /\ UNCHANGED <<account, origin, partner, internal>>

\* The hash is computed again with the new amount.
AdjustCommit(r) ==
    LET m == job[r].other
        h == [of |-> job[r].line, amount |-> job[r].amount]
    IN  /\ Commit(r, "adjust")
        /\ Exists(m)
        /\ UniqueHash(m, account[m], h)
        /\ amount' = [amount EXCEPT ![m] = job[r].amount]
        /\ hash' = [hash EXCEPT ![m] = h]
        /\ UNCHANGED <<account, origin, partner, internal>>

-----------------------------------------------------------------------------
(* DELETE .../unlink-cash/: unlink_counterpart.                            *)

UnlinkRead(r, l) ==
    /\ Exists(l)
    /\ partner[l] # NoLine
    /\ Read(r, [NoJob EXCEPT !.op = "unlink", !.line = l, !.other = partner[l],
                             !.ours = Generated(partner[l])])

\* Mutant: an imported counterpart keeps its own pointer.
UnlinkDetachOneSide(r) ==
    LET l == job[r].line
        o == job[r].other
    IN  /\ Commit(r, "unlink")
        /\ ~job[r].ours
        /\ Exists(l) /\ Exists(o)
        /\ partner' = [partner EXCEPT ![l] = NoLine]
        /\ internal' = [internal EXCEPT ![l] = FALSE, ![o] = FALSE]
        /\ UNCHANGED <<account, amount, origin, hash>>

\* The counterpart is not ours: both legs are detached.
UnlinkDetach(r) ==
    LET l == job[r].line
        o == job[r].other
    IN  /\ Commit(r, "unlink")
        /\ ~job[r].ours
        /\ Exists(l) /\ Exists(o)
        /\ partner' = [partner EXCEPT ![l] = NoLine, ![o] = NoLine]
        /\ internal' = [internal EXCEPT ![l] = FALSE, ![o] = FALSE]
        /\ UNCHANGED <<account, amount, origin, hash>>

\* The counterpart is taken for ours: it is deleted, and with it every
\* reference to it.
UnlinkDelete(r) ==
    LET l == job[r].line
        o == job[r].other
    IN  /\ Commit(r, "unlink")
        /\ job[r].ours
        /\ Exists(l)
        /\ account' = [account EXCEPT ![o] = NoAccount]
        /\ amount' = [amount EXCEPT ![o] = 0]
        /\ origin' = [origin EXCEPT ![o] = "none"]
        /\ partner' = [x \in Lines |-> IF x \in {l, o} \/ partner[x] = o THEN NoLine
                                       ELSE partner[x]]
        /\ internal' = [internal EXCEPT ![l] = FALSE, ![o] = FALSE]
        /\ hash' = [hash EXCEPT ![o] = NoHash]

-----------------------------------------------------------------------------
Step(r) ==
    \/ \E l \in Lines, a \in Accounts, v \in Signed, i \in BOOLEAN : Import(r, l, a, v, i)
    \/ \E l \in Lines, a \in Accounts, v \in Signed : Type(r, l, a, v)
    \/ \E a \in Accounts : SetKind(r, a)
    \/ \E l \in Lines, i \in BOOLEAN : Qualify(r, l, i)
    \/ \E l \in Lines, a \in Accounts, v \in Amounts : WithdrawRead(r, l, a, v)
    \/ \E m \in Lines : WithdrawCommit(r, m)
    \/ \E l, o \in Lines : LinkRead(r, l, o)
    \/ LinkCommit(r)
    \/ \E l \in Lines, v \in Amounts : AdjustRead(r, l, v)
    \/ AdjustCommit(r)
    \/ \E l \in Lines : UnlinkRead(r, l)
    \/ UnlinkDetach(r)
    \/ UnlinkDelete(r)
    \/ Abandon(r)

Next == \E r \in Requests : Step(r)

Spec == Init /\ [][Next]_vars

-----------------------------------------------------------------------------
(* Properties.                                                             *)

TypeOK ==
    /\ cash \subseteq Accounts
    /\ account \in [Lines -> Accounts \cup {NoAccount}]
    /\ amount \in [Lines -> Signed \cup {0}]
    /\ origin \in [Lines -> {"none", "import", "typed", "generated"}]
    /\ partner \in [Lines -> Lines \cup {NoLine}]
    /\ internal \in [Lines -> BOOLEAN]
    /\ hash \in [Lines -> [of : Lines \cup {NoLine}, amount : Signed \cup {0}]]
    /\ pc \in [Requests -> {"idle", "read"}]
    /\ job \in [Requests -> Jobs]

\* Both legs of a movement point at each other, so either side can find the
\* other (record_cash_withdrawal).
LegsPointBack ==
    \A l \in Lines : partner[l] # NoLine => partner[partner[l]] = l

\* Both legs of a movement are flagged internal: money changing pocket is not
\* spending (record_cash_withdrawal, link_counterpart).
LegsAreInternal == \A l \in Lines : partner[l] # NoLine => internal[l]

\* The cash line of a withdrawal never holds more than was withdrawn, however
\* it is adjusted, unlinked or linked again (adjust_cash_mirror).
CashWithinWithdrawal ==
    \A l \in Lines : partner[l] # NoLine /\ amount[l] < 0 =>
        0 < amount[partner[l]] /\ amount[partner[l]] <= Outflow(l)

\* The two legs are on two accounts: money does not move by staying put
\* (link_counterpart).
LegsOnTwoAccounts ==
    \A l \in Lines : partner[l] # NoLine => account[partner[l]] # account[l]

\* An imported line is a fact of a statement: no request deletes it, rewrites
\* its amount or changes what identifies it on the next import
\* (unlink_counterpart, adjust_cash_mirror).
ImportedIsFact ==
    [][\A l \in Lines : origin[l] = "import" =>
         <<account'[l], amount'[l], origin'[l], hash'[l]>>
             = <<account[l], amount[l], origin[l], hash[l]>>]_vars

\* Only the leg generated for a withdrawal is ever deleted
\* (unlink_counterpart).
OnlyOursDeleted ==
    [][\A l \in Lines : Exists(l) /\ account'[l] = NoAccount => origin[l] = "generated"]_vars

\* The hash of a line is set once, when the line is created (BankTransaction).
HashSetOnce ==
    [][\A l \in Lines : Exists(l) /\ account'[l] # NoAccount => hash'[l] = hash[l]]_vars

\* A pairing never takes a leg from another movement: whoever had a partner
\* keeps it (link_counterpart).
NoLegStolen ==
    [][\A r \in Requests :
         pc[r] = "read" /\ pc'[r] = "idle" /\ job[r].op \in {"link", "withdraw"} =>
            \A l \in Lines : partner[l] # NoLine => partner'[l] = partner[l]]_vars
===============================================================================
