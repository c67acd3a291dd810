# Maisonnée: specifications of the household

Maisonnée is a register for a household: a Django 5 / DRF application on
PostgreSQL (`src/apps`), a React front end (`src/ui`), a Telegram bot, an LLM
agent and a few periodic jobs. Most of it is registers with one row per thing.
Specified here are the parts whose rules span rows, requests, screens or time:

* **the ledger**: statement lines and the expenses they are split into, refunds
  given back to envelopes, movements between the household's accounts, recurring
  expenses;
* **the schedulers**: pings and briefings, claimed before they are sent;
* **the front end's memory**: the query cache with what every write makes stale,
  deletions that can be undone, the assistant's transcript.

Contents: [inventory](#inventory),
[modules](#modules-and-how-they-follow-the-code), [runs](#what-the-runs-check),
[disagreements](#where-the-code-and-its-words-disagree),
[proofs](#what-is-proved), [limits](#what-is-not-modelled-and-why),
[plan](#plan).

Every module can be checked by hand, in this directory:

    tlc -workers 2 -config slots.cfg MCSchedulers
    tlapm SlotProofs.tla

## Inventory

For each component: the state it keeps, its operations, what is hard, and what
would make it correct.

**Split of statement lines (banking, interactions).** State: `BankTransaction`
(amount, `transfer_counterpart`, `is_internal`), `Interaction` rows of type
expense (`amount`, `kind`, `bank_transaction`, `reconciled_by`). There is no
allocation table: an expense *is* the allocation of the line it points at.
Operations: `set_allocations`, `link_interaction`, `unlink_interaction`,
`auto_reconcile`, `match_recurrences`, `delete_transaction`, and the generic
create, PATCH and DELETE of `InteractionViewSet`. Hard: three writers check the
line's total without its row lock, one of them writes back every column of an
instance it read earlier. Correct when: a line is never split for more than it
holds; saving a split replaces exactly the previous one; the link and the marker
of an expense agree; edits do not move links; the automatic pass steals nothing.

**Refund credits (banking, budget).** State: `RefundAllocation(transaction,
budget, amount)`, `inflow_nature` of receipts, `Budget.is_global`. Operations:
`set_refund_allocations`, `credit_budget_from_refund`, `qualify`,
`create/update/delete_budget`, and everything that creates, adjusts or deletes
the receipt. Hard: the sum spans rows, the nature is tested before the lock,
`qualify` is two autocommitted statements. Correct when: a receipt gives back at
most what it brought in, only refunds give anything back, only envelopes receive,
no credit outlives its two ends.

**Internal movements (banking).** State: the `transfer_counterpart` pairing, the
`is_internal` flags, account kinds. Operations: `record_cash_withdrawal`,
`adjust_cash_mirror`, `link_counterpart`, `unlink_counterpart`, `qualify`,
`update_account`. Hard: the pairing is symmetric only by discipline, no operation
locks, and "we generated this leg" is inferred from two editable facts. Correct
when: legs point at each other, nobody's leg is taken, imported lines stay what
the statement said, cash never exceeds its withdrawal.

**Recurring expenses (budget, RecurringPage).** State: `RecurringExpense`
(`next_due_date`, cadence), the expenses that name it. Operations:
`confirm_recurring_expense` by hand, `match_recurrences` by a statement,
`update_recurring_expense` from a dialog that sends every field back, the due
date included, `delete_recurring_expense`, the undo of the page. Hard: nothing
locks the schedule; the date written is the one of the instance in memory. Correct
when the date runs ahead of the journal only where a user put it, and an
occurrence is recorded once unless a user brought its date back.

**Pings and briefings (two scheduler containers).** State: `PingPreference`,
`PingLog`, `Briefing`, `BriefingSendLog`, `TelegramAccount`. Operations:
`send_due_pings`, `send_due_briefings`, every minute. A slot is claimed by a
unique row before the message is generated and sent; a refused ping gives its
claim back, a refused briefing keeps it in error. Hard: overlapping ticks, an
exception or a crash between claim and delivery, an answer lost after delivery.
Correct when a slot is delivered at most once, and is caught up with as long as
it is due.

**Query cache and invalidation (front end).** State: one entry per query (data,
invalidated, failed, a fetch in flight), shared by the screens. Operations: about
250 mutation hooks of `features/*/hooks.ts`; a mutation names the *roots* it has
written and `useInvalidate` walks the graph `DERIVED_FROM` to find every root that
reads them. Hard: a fetch in flight may carry what was read before the write; a
screen may read a table its root does not declare. Correct when nobody has to
reload the page to see what he was told is saved.

**Deletion with undo (front end).** State: `pendingRef`, timers, toasts, the
cached list or the hidden rows of a screen. Operations: `deleteWithUndo` and its
cancel button, the request after five seconds, its failure, or a deletion whose
answer is lost; other writes refetch the list meanwhile. Hard: three ways of
putting a row back, a map keyed by row. Correct when what is undone is kept, what
leaves is not shown, and the list ends as the server has it.

**Assistant (front end, agent views).** State: the conversation list, the cached
details, `ChatPanel`'s own copy of the transcript, the conversation on the server.
Operations: open, ask, retry, stream, create on the first message. Hard: the
answer comes up to three minutes after the question, wherever the panel is by
then. Correct when transcripts do not mix, an answer shown is saved, a turn ends.

**Statement import and deduplication (banking).** The unique `(account,
dedup_hash)`, `assign_discriminants`. Hard: overlapping exports, counters computed
by difference, row locks held by the reconciliation that ends an import.

**Account registry, anchors and balances; compliance and waivers; importers
(banking).** A balance is an anchor plus the sum of lines after it; a waiver holds
the fingerprint of the finding it was granted for; parsers are pure.

**Stock, games, telegram (inbound), households, tasks, projects, zones,
documents, photos, shopping, chickens, orchard, water, electricity, trackers,
equipment, insurance, directory, notifications, alerts, recap, weather, releases,
AI usage, settings.** Registers, one-row protocols and read-only aggregates. Their
hooks, what each reads, writes and invalidates, are in `HookTables`.

How they interact: a view reads rows (`get_object()`), calls one service, and the
service writes inside `transaction.atomic()`, sometimes after
`select_for_update()`. `ATOMIC_REQUESTS` is off and PostgreSQL runs at READ
COMMITTED, so what the view read may be stale when the service writes. An import
ends by calling the automatic reconciliation and the matching of recurrences; a
budget deletion cascades to credits; deleting a line nulls the references to it;
recording cash creates a line and splits it. In the browser a screen holds queries
and fires mutations; the answer of a mutation invalidates queries, whose fetches
end in other screens; the deletion hook edits the cached list of one query, which
such a fetch replaces.

## Modules and how they follow the code

| module | component | instance, proofs |
|---|---|---|
| `Allocation` | split of lines into expenses, automatic matching | `MCAllocation`, `AllocationProofs` |
| `Refunds` | credits of receipts to envelopes, budgets | `MCRefunds`, `RefundProofs` |
| `Transfers` | movements between accounts | `MCTransfers`, `TransferProofs` |
| `Recurring` | schedules, occurrences | `MCRecurring`, `RecurringProofs` |
| `RecurringUndo` | `Recurring` with the undo of a confirmation | `MCRecurringUndo` |
| `SlotPromise` | what a recipient may expect of a scheduler (abstract) | |
| `Schedulers` | the ticks of pings and briefings, implements `SlotPromise` | `MCSchedulers`, `SlotProofs` |
| `Invalidation` | the roots, the graph and its walk | |
| `HookTables` | the queries and mutations of every `hooks.ts` | |
| `HookGaps` | what those hooks overlook at this commit | |
| `QueryCache` | one cache entry under reads, writes, failures | `MCQueryCache` (with `HookGaps`), `CacheProofs` |
| `UndoDelete` | deletion with undo on one list | `UndoProofs` |
| `ShoppingClear` | `UndoDelete` with the bulk gesture of the shopping list | |
| `AgentChat` | the assistant: panel, cache, server | `MCAgentChat`, `AgentChatProofs` |

The `MC` modules only give values to constants and name the symmetric sets.

### Requests

In the ledger a request is a process with a `pc` (or an `op`) and a record of what
it was asked and what it has read. It is cut exactly where another request can get
in:

* `idle -> read`: the view has fetched its instance, and the checks the service
  makes before any lock have passed on what was fetched;
* `read -> locked`: `select_for_update()` returned and the checks made under the
  lock passed on fresh values;
* `locked -> idle`, or `read -> idle` when nothing is locked: the commit. The
  writes of a transaction become visible at once.

`Abandon` is every way out that writes nothing: a `ValidationError`, a constraint
refused at the save, a dead worker. It is always possible after the first step, so
a model with requests cut by it never has to enumerate the error paths one by one:
a check that the code makes appears as the guard of the step it protects.

A row lock makes other lockers wait, and it makes a *changed* reference to the row
wait too (the KEY SHARE lock of the foreign key conflicts with FOR UPDATE), but
not a plain save: this is the guard of `PatchSave`. The foreign keys that Django
declares are `DEFERRABLE INITIALLY DEFERRED`: a reference to a row deleted
meanwhile fails at the commit (`SetCommit`, `CreditCommit`).
`save(update_fields=...)` of a deleted row raises, `save()` of a deleted row
inserts it again (`PatchSave`, `UpdateSave`, `Recurring.SaveEdit`). A unique index
fails at once (`UniquePartner`, `UniqueHash`, `Schedulers.Created`). Ids are UUIDs:
`Fresh` never reuses an id that anything in flight remembers.

The components of the ledger share database rows in the code but are specified
apart: each module carries the effect of the others on its rows as one-statement
actions (`Pair`, `Unpair` and `DiscardLine` in `Allocation`; `Withdraw`,
`Unwithdraw` and `Adjust` in `Refunds`).

### Allocation

`kind`, `amount`, `line`, `by` are columns of `Interaction`; `kind` is reduced to
what the code distinguishes, rows owned by the split editor (`"bank"`) and the
others. `paired` is "`transfer_counterpart` is set". Amounts are small integers;
a blank amount counts 0 as `allocated_total` does.

| action | code |
|---|---|
| `PutCheck`, `PutCommit` | `set_allocations`: the lock, the checks against what the editor does not own, the deletion of what it does, the new rows. Each inserted row is checked again; only an unlocked PATCH can have moved the total by then, and it is refused (`Abandon`) if it committed before the last of these checks, unseen (`PutCommit`) if after |
| `LinkRead`, `LinkCheck`, `LinkCommit` | `POST link/`: the expense's amount is read before the lock |
| `AutoPick`, `AutoFetch`, then the same | one iteration of `auto_reconcile`; scores and thresholds are abstracted to "same amount", the pool of candidates is read at the start |
| `UnlinkRead`, `UnlinkSave` | `unlink_interaction` |
| `PatchRead` (an amount in the body), `EditRead` (none), `PatchSave` | `InteractionSerializer.validate` and `update` |
| `RecurCheck`, `RecurCommit` | `match_recurrences`, seen from the line |
| `CreateExpense`, `DeleteExpense` | the producers and the deletion of expenses that know nothing of banking |
| `Pair`, `Unpair`, `DiscardLine` | what the movements do to a line |

`record_cash_expense` is a new line followed by `set_allocations` on it: a line
that nobody has used yet is already in every run. A line that is over its amount
can no longer be saved by `set_allocations`; users unlink or edit instead.

### Refunds

`inflow` is the positive amount of a line, 0 when there is none; `credit[t][b]` is
the row of `RefundAllocation`, 0 when there is none; `envelope` says whether a
budget exists and whether it is the ceiling. `QualifyDrop` and `QualifySave` are
the two statements of `qualify`, each with its own commit. `SetRead`, `SetLock`,
`SetCommit` and `CreditRead`, `CreditLock`, `CreditCommit` are the two services;
both test the nature before their lock. `UpdateRead`, `UpdateSave` are
`update_budget`, with the partial unique index on the ceiling as `MayBe`.
`record_cash_deposit` with refund lines is `Receive` followed by a set.

### Transfers

`partner` is `transfer_counterpart`, `origin` what `source_import` and the caller
say, `hash` what `dedup_hash` is computed from. `Generated` is the code's test for
a leg it made itself: no source import, on a cash account. `cash` is a variable
because `update_account` may change the kind of an account. Every service here
reads (`...Read`) and commits (`...Commit`) with no lock in between; only the
unique index of the one-to-one field stands between two of them.

### Recurring, RecurringUndo

A date is the number of its period: a cadence adds one. A statement line lies in
the window of one due date (ten days, shorter than the shortest cadence).
`ReadConfirm`, `CommitConfirm` are `POST recurring/{id}/confirm/`: the date
saved is the one the view read plus one period, whatever the row holds by then.
`OpenForm`, `SubmitForm`, `SaveEdit` are the dialog and the save of every
column: the date sent is the one the dialog was opened with, or the one typed in
its date field (`Typed`; `Movable` bounds what is typed in an instance).
`StartMatch`, `PickPair`, `CommitPair`, `EndMatch` are `match_recurrences`: the
free lines and the schedules are read once, then the pairs are confirmed one
transaction at a time; any greedy order is possible. History: `overlapped`, a
write started from a date that was not the date any more; `waived` and
`reopened`, the periods a user moved a date past, or back over, by typing it.
`RecurringUndo` adds the toast of `RecurringPage`: two requests that leave
together, delete the expense and put the old date back, each of which may fail
alone.

### SlotPromise, Schedulers

A slot is what the unique constraint of the log names: a ping of a day, a briefing
at a time of a day. `Start` takes the instant and the queryset of the tick,
`Consider` makes the checks before the claim, `Claim` is `get_or_create`, `Judge`
the condition of a briefing (evaluated after its claim), `Send` the channels
(delivered, refused, or delivered with its answer lost), `Record` what becomes of
the claim. `Raise` is an exception caught under one row, `Crash` the end of the
container, after which another tick starts. Preferences, accounts and what there
is to say change under a running tick (`ToggleWanted`, `ToggleLinked`,
`FallSilent`).

`SlotPromise` is the abstract specification: a slot opens, is then given once or
forgone, never both and never twice. `Promised` is `Promise!Spec` under

    open    <- the slots whose time has come
    given   <- received
    forgone <- the slots with a row that no tick works on and nobody heard of

so that a tick that delivers a slot already written off, delivers early or
delivers twice is not a step of the promise.

### Invalidation, HookTables, HookGaps, QueryCache

`Invalidation` is `lib/invalidate.ts`: roots, graph, and the breadth-first walk as
three rounds of a hop, with an assumption that TLC evaluates, that three are
enough. `HookTables` has one definition per `hooks.ts` or part of one: for each
query its root and the tables its endpoint reads on the server, for each mutation
the tables its endpoint writes (read in the Django code), what it invalidates and
in which callback. A table that only labels a row (the name of a zone) is not
read. `usePing`'s update, which patches the entry itself, `HouseholdSwitcher`,
which invalidates everything, the context of a conversation, and the mutations
written inside a component are left out.

`QueryCache` is one entry under TanStack Query 5 with the options of
`queryClient.ts`. The server's rows for the view are a version counter; the
mutations, reduced to "touches the view" and "refreshes it", are read from the
tables: `Init` picks the effects that some query of the tables has, so that one
state space stands for every query. An invalidation cancels and replaces a fetch
in flight only if there is data and an observer; otherwise the fetch is joined,
and it may have read before the commit: `Unreplaced`. The library promises nothing
there, nor does the model: a first load that crosses a write of the same person is
exempt from `promised`.

`HookGaps` lists what the tables show to be overlooked in the code at this commit:
rows that `DERIVED_FROM` lacks (`UndeclaredReads`: the chickens read the journal,
the stock and the documents; the documents read the links of every kind of entity;
the zones read projects and equipment; the projects read documents; the tasks read
their notes) and hooks that name keys and forget some (`Forgotten`: of each hook
only the roots it does not refresh, so that buying hens is still checked against
the chickens and the journal, which `usePurchaseChicken` names). The run
`cache` checks everything else, for every pair of a query and a mutation, so that
a hook added to the tables is checked against every screen. An entry is removed
from `HookGaps` when the code is mended, and the run says if it was.

The walk follows the graph transitively. With the tables as they are, one hop
would do: `DERIVED_FROM` already lists, for each root, all the roots it reads
directly. What the run tells apart is the direction and the completeness of rows.

### UndoDelete, ShoppingClear

`gesture[g]` is one call of `deleteWithUndo`, `pending` is `pendingRef`, which
holds the last gesture of a key. `Restore` names the three ways the screens put
a row back: append to the cached list, refetch it, or hide rows without touching
the cache. `Undo` is `cancel`: it looks its *key* up, and puts back the rows of
its own gesture. A toast does not outlive its timer: `toast.ts` sets its own, of
the same 5000 ms, right after the hook's. It can go earlier: the user closes it,
or its button closes it without finding an entry (`CloseToast`). A request may
be refused (`DeleteFails`), served (`ServeDelete`), or deleted by the server and
never answered (`DeleteLost`); the last also runs `onRestore()`, and refetches
nothing on the screens that hide or append. History: `clashed`, the gestures
that waited together under one key; `lost`, the rows deleted without an answer;
`behind`, those of them no list has come without. `ShoppingClear` adds "clear
checked": several rows under one key, with the ids in a ref that is read when
the timer fires.

### AgentChat

`current` is `HouseholdChat`'s selection, `loaded` is `loadedRef`, `shown` the
transcript the panel keeps, `detail` the cached conversation, `turn` the call of
`submit` in flight, `jobs` what the server does of each request. `Open` runs the
two effects of `ChatPanel` (reset, seed); the first returns before its reset when
`loadedRef` equals the selection, and `null === null` when the blank page is opened
from a conversation whose detail has not loaded (`ResetSkipped`): what was on
screen then stays. `Created` is what `ensureConversation`
does, through the change of the selection it causes; `Persist` is `persist_turns`,
question and answer in one transaction before the `done` event; `Break` is a
failure of the model, or nobody listening, after which tools may have written.
`home`, `left` and `carried` are history: where a question was last asked, whether
another conversation was opened while its turn ran, and whether it was on screen
when a blank page was opened over it.

A transcript is a set of bubbles, on the server, in the cache and on screen: who
speaks and of which question. The order of a transcript is the order in which its
bubbles were added, which no property is about; which bubbles are there is what
switches, failures and stale details change. `home` moves with a retry because the
error bubble of a turn that was left lands in the conversation open by then, and
its button asks the question there: with the place where it was first typed,
`OnlyLeftOrCarriedStray` fails at the third attempt at one question, which the two
attempts of the run do not reach.

### Mutants

The operators whose comment begins with "Mutant" are plausible mistakes (a
dropped lock, a forgotten exclusion, one side of two). Each property of a passing
run is violated when the operator they stand beside is replaced by them. They are
not part of any specification.

## What the runs check

| run | instance | shows |
|---|---|---|
| `alloc_serial` | 2 lines of 2 and 1 (one a cash line), 3 expenses, 1 request, every operation; 600 000 states | `TypeOK`; `AllocationsFit` one request at a time: the validations are complete, what breaks it later is only concurrency |
| `alloc_locked` | the same, 2 requests, the operations that create, attach and detach under the lock (`SplitOperations`); 128 000 states | `LockedInv`, the inductive form of `AllocationsFit`; `MarkerAgrees`; `SplitReplaces`: a saved split is what is left on the line, and what the editor does not own is untouched |
| `refund_serial` | a receipt and a cash counterpart of 2, 2 budgets, 1 request, every operation; 12 000 states | `TypeOK`; `CreditsOnRefunds` through reclassification, adjustment, unlinking |
| `refund_locked` | a receipt of 2 and a counterpart of 1, 2 budgets, 2 requests, no adjustment; 380 000 states | `CreditsFit` and `RefundInv`; `NoOrphanCredit`: a credit saved while its budget or line is being deleted does not survive it |
| `transfer_serial` | 3 lines, 2 accounts, amounts 1 and 2, 1 request, every operation; 685 000 states | `TypeOK`, `LegsPointBack`, `ImportedIsFact` through linking, adjusting, retyping accounts, unlinking; `CashWithinWithdrawal` when a withdrawal is unlinked and recorded again |
| `transfer_links` | the same, 2 requests, no unlinking and no qualifying; 84 000 states | `LegsPointBack`, `LegsAreInternal`, `CashWithinWithdrawal`, `NoLegStolen` although pairing locks nothing |
| `recur` | 2 schedules of one amount, 2 lines near successive due dates of one of them, 2 requests, 3 periods, 2 occurrences recorded, users move the date of one schedule to the first or the last period; 3 100 000 states | `NoPeriodSkipped`: whatever overlaps, the date passes an occurrence that is not in the journal only if a user moved it there; `OnlyStaleDatesRepeat`: an occurrence is recorded twice only by a write that started from a date that had moved, or after a user brought the date back |
| `slots` | a ping and a briefing, 2 ticks, 1 refusal or lost answer (of a briefing), 1 exception or crash, 2 gestures of users, the briefing's day ends; 630 000 states | `TypeOK`, `NeverTwice`, `OneOwner`, `HistoryIsTrue`, `PingsAreRetried`; `Promised`, the refinement of `SlotPromise`; `CaughtUp`: a slot that is due, wanted and reachable does not wait for ever |
| `cache` | every query and every mutation of the tables, 2 mutations in flight, 1 write of another member; 234 000 states | `NoReloadNeeded`: a screen with nothing on its way and no error shown has everything its member was told is saved; `CatchesUp`: one that is behind catches up without a gesture |
| `undo` | 2 rows on a screen that hides what it deletes, 4 gestures, 2 other writes, refusals and lost answers; 92 000 states | `TypeOK`, `UndoneIsKept`, `LeavingIsHidden`, `CanBeUndone`; `Settles`: in the end the list is what the server has, but for a row deleted without an answer that no list has come without |
| `chat` | 2 conversations (one existing), 2 questions, 2 requests; 1 960 000 states | `TypeOK`; `OnlyLeftOrCarriedStray`: transcripts mix only through a turn left in flight or a blank page opened over a conversation that had not loaded; `TypedStays`; `AnswersAreSaved`; `EveryTurnEnds` |
| `clear_twice` | 2 rows, 2 gestures of the shopping list | expected to end in a counterexample to `UndoneIsKept`, see the next section |

### The bounds

For the sums, three expenses are the smallest number with one owned row, one
foreign row and one in flight on the same line. Two lines let an expense move from
one to the other. An amount of 2 lets a line hold two expenses of 1 and be overshot
by 3 of them or by 2 + 1. Pairing can only make the checks refuse more; it is in
`alloc_serial` and in the theorem, but not in `alloc_locked`. Two requests suffice
for each race of the ledger, because each is between one stale reader and one
writer. Three lines let one leg be taken from a pair by a third.

`recur`: three periods let a date be advanced twice and stale copies of the
first two be in flight; two records are a duplicate, and the date they leave can
still be moved, saved or confirmed from by what is in flight. The date of one
schedule is moved by users, to the first or the last period and any number of
times, so that it goes ahead, back, and over one or two; the other's only moves
by confirmations, and both share the lines. `slots`: two ticks are what
overlaps, a third could only do what one of the two has not done; one refusal
separates "tried again" from "given up", and the clock has an instant before, in
and after the briefing's day, while the ping's day never ends, so that waiting
for ever is possible. `cache`: two mutations make one overtake the other, more
add only later versions of the same; one foreign write tells "behind what I was
told" from "behind the server". The number of queries is that of the code:
queries do not interact, so one entry stands for each, and those on which the
mutations have the same effects are merged. `undo`: four gestures allow the same
row to leave, come back without an answer and leave again, twice, or while
another leaves; two writes allow a refetch before and one after. `chat`: two
requests are a turn and its retry, or a turn in each conversation; the second
conversation is created during the run.

Rows, ids and requests are interchangeable, hence the symmetry sets; lines of
different amounts and accounts of different kinds are not in them, and no run with
a liveness property uses symmetry. What a run bounds is named in its CONSTANTS
(`MaxGestures`, `Horizon`, `MaxFaults`, ...) and appears as a guard of the action
that counts it. `CHECK_DEADLOCK FALSE` is used where the system may rest: a
browser tab whose user has used up the gestures of the instance.

The ledger runs restrict `Operations` only where the code really breaks the
property with the rest, and each such break is described in the next section.

### Fairness

The ledger states none: a request may always be abandoned.

* `Schedulers.FairSpec`: weak fairness of `TickNext(t)` for each tick. The command
  of the container is an endless loop with a sleep, restarted by the supervisor: a
  tick that runs goes on, one that is over or dead is followed by another. Neither
  the clock, nor a user, nor a fault is owed; in particular no delivery is owed
  success, `CaughtUp` follows from the bound on refusals.
* `QueryCache.FairSpec`: weak fairness of `ServeRead` and `Arrive`: the server
  answers what it was asked. `FetchFails` may come instead, and is then shown.
* `UndoDelete.Fairness`: the tab stays open, so timers fire, fetches answer, and a
  request ends, in success, in failure, or in the failure the browser reports when
no answer comes. Nobody has to click.
* `AgentChat.FairSpec`: weak fairness of `Create \/ CreateFails` (a request of the
  browser ends) and of `Answer \/ StreamFails` (`AGENT_MESSAGE_TIMEOUT_MS` aborts
  the stream after 180 s). Nothing is assumed of the server, so `EveryTurnEnds`
  rests on the panel's own timeout.

## Where the code and its words disagree

One is a run of the project, expected to end in a counterexample.

`clear_twice`: `useDeleteWithUndo` promises "Si l'utilisateur clique "Annuler" →
`onRestore()` est appelé, l'API n'est pas touchée", and `ShoppingListPage` says of
its bulk gesture "The ids to drop are snapshotted at trigger time
(clearedIdsRef)". The ref is shared by all the gestures and read when a timer
fires. Clear `{A}`; within five seconds clear `{B}`; undo the second: the button
cancels the second timer, the first fires and deletes `{B}`, which has just been
put back, and never `{A}`.

The same modules show the following. The configurations are kept beside the
modules for whoever changes this code; where only a property differs from a run's
configuration, the table names the configuration to take and the property to put
in the place of its properties.

| configuration | property | what happens |
|---|---|---|
| `race_patch_fits` | `AllocationsFit` | a PATCH raises an amount, or a link uses the amount read before its lock, while the other commits: the line is overfilled. `validators.py` promises "a service that locks the transaction row before summing" |
| the same, `Operations = {"put", "recur"}` | `AllocationsFit` | `match_recurrences` attaches the whole outflow after an unlocked check |
| `race_edit_link` | `EditKeepsLink` | an edit of the subject loads the row, a link commits, `instance.save()` writes the old link back. The serializer declares the link read-only: owned by allocate, link and unlink |
| `race_auto_steals` | `AutoTakesFreeOnly` | `auto_reconcile` links an expense a user has linked elsewhere since the pool was read |
| `pair_allocated` | `InternalNotAllocated` | a line is split, then paired: `assert_allocation_fits` refuses the reverse order because "allocating it would double it" |
| `discard_marker` | `MarkerAgrees` | deleting a cash line through its other leg nulls the links and leaves the markers |
| `refund_adjusted` | `CreditsFit` | a cash counterpart credits envelopes, then is adjusted below them |
| `race_refund_nature` | `CreditsOnRefunds` | credits are saved on a receipt reclassified between the test of its nature and the lock |
| `credit_global` | `CreditsOnEnvelopes` | a credited envelope is promoted to the ceiling |
| `unlink_typed` | `OnlyOursDeleted` | a typed cash line is linked to a transfer; unlinking takes it for a generated one and deletes it |
| `race_unlink` | `LegsPointBack` | an unlink clears a counterpart that has been paired again |
| `adjust_hash` | `HashSetOnce` | `adjust_cash_mirror` recomputes a hash that is "set once at creation" |
| `transfer_serial` | `LegsAreInternal` | `qualify` unflags the leg of a movement |
| `withdraw_in_place` | `LegsOnTwoAccounts` | cash withdrawn from a cash account onto itself |
| `recur` | `OnePerPeriod` | a statement and a user confirm the same due date: "already" compares days, and nothing locks the schedule |
| `recur` | `DeletedStaysDeleted` | the save of an edit inserts a schedule deleted since it was read |
| `recur_undo` | `UndoIsExact` | the undo of a confirmation is two requests: if the restore gets through alone, or another confirmation came between, the date and the journal part. `budget/views.py` calls it "an exact undo" |
| `ping_twice` | `NeverTwice` | the answer of a delivered ping is lost, its claim is released, the next tick sends it again ("jamais de doublon") |
| `slots` | `NoPingGivenUp` | a crash, or an exception, under the claim of a ping loses it for the day |
| `cache_gap` | `NoReloadNeeded` | with `HookGaps` emptied: hens are bought, the expense is in the journal; the chickens and the journal are refreshed, the budgets and the other money screens keep their old totals |
| `undo_copies` | `ShownOnce` | a refetch brings a row back before "Annuler" appends it: the row is there twice |
| `undo_copies` | `UndoneIsKept` | a refetch brings a leaving row back on screen, it is deleted again under the same key, and the one button that works cancels only the second timer |
| `undo` | `SettlesExactly` | a deletion is committed and its answer lost: `onRestore()` shows a row that is gone, and nothing fetches the list |
| `clear_twice` | `ClearsWhatItTook` | the ids a clear deletes are those of the next one |
| `chat` | `ShownBelongs` | an answer lands in the transcript of another conversation |
| `chat` | `NewIsBlank` | "New" is clicked in a conversation whose detail has not loaded: `null === null`, the transcript is not reset and its bubbles stay on the blank page. `ChatPanel.tsx:162` says "select / new": reset the transcript |
| `chat` | `TypedAlwaysStays` | a question typed while the conversation loads is wiped by the transcript that arrives |
| `chat` | `AnswersStay` | coming back to a conversation seeds the transcript from the detail cached before its last turn, and the refetch is ignored |
| `chat`, `Orders = {q1}` | `WrittenOnce` | a turn fails on its way back, its retry asks again, and what its tools wrote is written twice |

## What is proved

TLC looks at small instances; these hold for any number of lines, expenses,
budgets, accounts, schedules, slots, ticks, rows, gestures, conversations, questions
and requests in flight. Every invariant and every action property that a passing
run checks is stated by one of them; only the liveness properties are not.

| module | theorem | says |
|---|---|---|
| `AllocationProofs` | `TypeCorrect` | `Spec => []TypeOK` |
| | `MarkerAlwaysAgrees` | if no line is deleted (`"discard" \notin Operations`), `MarkerAgrees` always, unlocked writers included |
| | `LockedWritersHold`, `LockedSplitFits`, `SplitsReplaceTheirOwn` | if every operation locks (`Operations \subseteq LockedOperations`): `LockedInv`, `AllocationsFit`, `SplitReplaces` |
| | `SerialSplitFits` | one request at a time (`OneAtATime`), with every operation of the code: `AllocationsFit` |
| `RefundProofs` | `TypeCorrect` | `Spec => []TypeOK` |
| | `ChecksHold`, `RefundsFit` | if nothing is adjusted: `RefundInv`, `CreditsFit` |
| | `CreditsHaveTheirRows` | `NoOrphanCredit`, for every operation and any interleaving |
| | `CreditsStayOnRefunds` | `CreditsOnRefunds`, one request at a time or if nothing is qualified |
| `TransferProofs` | `TypeCorrect` | `Spec => []TypeOK` |
| | `ImportedLinesAreFacts` | `ImportedIsFact`, for every operation and any interleaving |
| | `LegsAlwaysPointBack`, `PairingStealsNothing` | `LegsPointBack`, `NoLegStolen`: one request at a time, or any number if nothing is unlinked, although pairing takes no lock |
| | `LegsStayInternal` | `LegsAreInternal` if nothing is qualified, concurrent unlinking included |
| | `CashStaysWithin` | `CashWithinWithdrawal`, one request at a time or if nothing is unlinked |
| `RecurringProofs` | `TypeCorrect` | `Spec => []TypeOK` |
| | `NothingIsSkipped` | `NoPeriodSkipped`, for any overlap of confirmations, dialogs and statements, and any date typed in a dialog |
| | `RepeatsAreStale` | `OnlyStaleDatesRepeat`, likewise |
| | `OnceInTurn` | one request at a time, `OnePerPeriod`: a due date is recorded twice only if a user brought it back |
| `SlotProofs` | `TypeCorrect`, `ClaimsAreExclusive`, `HistoryHolds`, `RefusalsAreRetried` | `TypeOK`, `OneOwner`, `HistoryIsTrue`, `PingsAreRetried`, whatever answers are lost |
| | `TicksNeverRepeat` | if no answer of a delivered ping is lost (`PingsAnswer`), `NeverTwice` |
| | `TicksKeepThePromise` | under the same assumption, `Spec => Promised`: the ticks implement `SlotPromise` |
| `CacheProofs` | `CoverMeansNoReload` | for *any* tables in which every mutation refreshes the queries that read what it writes (`Covered`), `NoReloadNeeded` always |
| `UndoProofs` | `TypeCorrect`, `ButtonStopsItsOwn` | `TypeOK`, `CanBeUndone`, on every kind of screen: a toast that shows has its timer, and its button finds it unless two removals waited under one key |
| | `UndoneStays`, `HiddenWhileLeaving` | on the screens that hide (`Restore = "hide"`), `UndoneIsKept`, `LeavingIsHidden` |
| `AgentChatProofs` | `TypeCorrect` | `Spec => []TypeOK` |
| | `StrayOnlyWhenLeftOrCarried`, `TypedQuestionsStay`, `AnswersShownAreSaved` | `OnlyLeftOrCarriedStray`, `TypedStays`, `AnswersAreSaved`, for any number of retries |

Assumptions. The named ones of each module (`ConstantsAssumption`,
`RefundConstants`, `TransferConstants`, `RecurringConstants`, `SlotKinds`,
`SlotTimes`, `SlotBounds`, `CacheConstants`, `UndoConstants`, `ClearIsNoItem`,
`ExistingAreConversations`, `MarkersAreNotData`: ids are ids, amounts and times are
naturals), and what the ledger relies on in SQL's `SUM`: it is a natural, it
adds up over disjoint rows and depends on the summed rows only
(`SqlSumAssumption`, `CreditSumAssumption`). TLC evaluates all of them in every
run. The other conditions are hypotheses of the theorems, not assumptions of the
modules; the configurations of the previous section show that they are needed.

`OneAtATime` is `\A p, q \in Requests : p = q`. It is not what the deployment
guarantees: it says that what the theorem states is broken by concurrency only,
and never by the checks of one request being incomplete. Where only one
operation breaks a property when it overlaps another, the hypothesis is a
disjunction, one at a time *or* without that operation, and a single proof
covers both: the operation's own premise (`UnlinkHolds`, `ReadHolds`) is the one
thing that differs. The run `transfer_links` leaves qualifying out because
`LegsAreInternal` does not survive it, and unlinking because `LegsPointBack`
does not survive it with two requests.

The arguments.

* `LockedSplitFits`: `AllocationsFit` is not inductive, a commit knows nothing of
  the check that let it through. `LockedInv` adds who holds the lock (`LockHeld`),
  that what was checked stays true until the commit (`CheckHolds`: others may only
  take rows off a locked line), that the rows a split will insert are nobody
  else's (`RowsReserved`), and that the amount a link was checked with is still
  the expense's (`AmountCurrent`), which is exactly what PATCH breaks.
* `SplitsReplaceTheirOwn` needs one more fact than `LockedInv`: the rows a split has
  marked for deletion are rows the editor owns (`DoomedAreOwned`), from the check
  that picks them to the commit that deletes them.
* `SerialSplitFits`: `AloneInv` says of the
  one request what the locks say of many: what it remembers of an expense is what
  the row holds (`AloneJobs`, `AmountCurrent`), and what it checked still fits
  (`CheckHolds`). The operations without a lock enter here, PATCH included.
* `MarkerAlwaysAgrees`: `MarkerInv` adds that a stale copy in flight agrees with
  itself; no property of interleavings is needed, and that is why it survives
  unlocked writers.
* `RefundsFit`: `RefundInv` is lock ownership and the persistence of the check;
  the sums are handled once, in lemmas on what a credit does to the total.
* `CreditsHaveTheirRows`: the commit of a credit checks its budget through the
  deferred foreign key, and its receipt cannot go while it is locked; `OrphanInv`
  adds exactly that (`LockHeld`, `LockedIsReceived`). No check of the services is
  used, which is why nothing has to be assumed of the operations.
* `CreditsStayOnRefunds`: the nature is tested before the lock, so what `NatureInv`
  carries is that a test which passed still holds (`ReadHolds`): true if nobody
  qualifies, and true of the only request there is.
* `LegsAlwaysPointBack`: the pairing is an involution, and a stale pairing is
  refused by the unique index on one of its two writes; the invariant records that
  a request that has read two lines still names existing lines. An unlink writes
  back what it read; `UnlinkHolds` says that this is still so, which another
  request would break (`race_unlink`).
* `LegsStayInternal`: `InternalInv` needs neither symmetry nor freshness: an unlink,
  stale or not, clears the counterpart of every line whose flag it clears.
* `CashStaysWithin`: an adjustment writes an amount it compared with the withdrawal
  it read. `AmountsHold` says what each request in flight knows of the two amounts
  it is about to relate; the bound itself is about pairs, so `PairsInv` comes first.
* `ImportedLinesAreFacts`: a request in flight that will adjust or delete a line
  only remembers lines that were not imported, and an id keeps its origin for as
  long as someone remembers it.
* `NothingIsSkipped`: a date in memory is a date the schedule has had, with every
  period before it in the journal or moved past by a user (`ReadingsAreBehind`). A
  stale write moves the date back; only a typed one moves it ahead of the journal,
  and `waived` then holds what it passes.
* `RepeatsAreStale`: while no write has started from a stale date
  (`~overlapped`), the journal holds only periods before the date, or that a typed
  date was moved back over (`JournalBehind`), so that a confirmation records a
  period that is new or `reopened`. `OnceInTurn` adds that the one request has read
  the current date (`ReadingsAreCurrent`): `overlapped` stays false.
* `SlotProofs`: `SlotInv` adds to the properties that a tick past its claim
  holds a claimed slot that is open (`Working`, `InTime`), what was received at
  each of its steps (`Counted`), and that a free row was never delivered
  (`FreeMeansUnsent`). A lost answer of a ping breaks the last one, so it is
  claimed of the slots whose answers are not lost (`Answered`) and the invariant
  holds without a hypothesis; `PingsAnswer` makes `Answered` every slot. The
  step simulation then splits on what a step does to the slots written off:
  nothing, one more (a `Forgo`), or a delivery (a `Give`).
* `CoverMeansNoReload`: `CacheInv` says that data behind the promise is marked
  (`BehindIsMarked`), that what is marked on screen is on its way or shown as
  failed (`MarkedIsFetched`), and that whoever read after the promise knows it
  (`ReadsPromised`); the tables enter only through `Covered`. The run `cache`
  checks the tables, the theorem everything else.
* `UndoProofs`: `HideInv` says that a gesture that waits or is on its way keeps its
  rows hidden, that a row is on its way in one gesture only, and that `pending`
  names that gesture; the second is what fails on the screens that edit the cache,
  where a refetch shows the row again and lets it be deleted twice. A row deleted
  without an answer is on screen and gone: what the invariant says of `server` it
  says of `server \cup lost`. `TypeCorrect` and `ButtonStopsItsOwn` hold on every
  screen: an entry of `pendingRef` is a removal that was made under its own key
  (`EntriesAreMade`), so the timer of one key leaves the others' entries, and two
  gestures that wait under one key have been counted when the later one was made
  (`Clashes`), so a gesture not counted is the one its key names.
* `AgentChatProofs`: `ChatInv` follows a question through the turn. The turn in
  flight, its question and its job name one conversation (`TurnIsAsked`), it is
  the open one unless the turn was left (`TurnIsHere`), whatever a detail holds
  was saved (`CacheIsSaved`), and every bubble on the server or on screen is at
  home, of a turn that was left, or was carried onto a blank page (`PlaceInv`).
  The blank page (`BlankIsOwn`) is the case a first reading forgets: nothing is
  loaded there, and but for what was carried the transcript belongs to a
  conversation that does not exist yet.

Only model-checked: the liveness properties (`CaughtUp`, `CatchesUp`, `Settles`,
`EveryTurnEnds`), because fairness and `ENABLED` are beyond the prover; and what the
theorems take as hypotheses about data: that the tables satisfy `Covered` (a finite
check, done by `cache` for every query and mutation), and that real sums satisfy the
two assumptions on `SUM` (whose reference definition is recursive). The properties
that the code breaks have counterexamples instead, in the previous section.

## What is not modelled and why

* Names, labels, dates, categories, notes, currencies (compared for equality only),
  households (every query is scoped to one), permissions.
* The PATCH of an expense's `kind`, bulk updates, and the seeding commands.
* Scores, thresholds and the order of the greedy passes: any exact match may be
  picked, which includes what the code picks.
* `delete_transaction`: no endpoint calls it; `DiscardLine` is the deletion that
  requests can reach.
* The branch of budgets with children (`parent` is deprecated and never set).
* Month lengths (`advance_due_date` clamps the 31st, `catch_up_due_date` feeds
  suggestions), a change of cadence, a typed date that is no due date of the
  cadence, and the creation of a schedule.
* The editing of a ping's hour or a briefing's times and days between two ticks:
  the hours of a slot are constants of an instance.
* In the front end: optimistic snapshots (an `onError` that puts back a list read
  before another mutation), the mutations written inside components, navigation,
  forms, a tab that is closed (its pending deletions are dropped), offline mode.
* Parsers, feeds, storage, presentation and deployment have no protocol of their
  own. Most of the repository's TypeScript is that: the generated clients of
  `src/ui/src/gen`, the hand-written ones of `lib/api` (one function, one request),
  and screens, dialogs and charts whose state is what their hooks hold. The models
  stand for the files that decide something across components (`lib/*.ts`, the
  `hooks.ts`, the pages that keep a state of their own); modelling a screen's
  markup would say nothing that could be wrong.

Hazards met in code that is not modelled, for whoever takes it up: `created_count`
is a difference of two counts around a bulk insert that ignores conflicts
(`banking/services.py:340`); a waiver keeps the fingerprint of a finding that may
have moved before it is saved (`:1005`); a stock purchase is undone by its delta
although an inventory may have been counted since (`stock/services.py:382`), and
quantities are computed from an unlocked item (`:130`); abandoning a hunt does not
take the lock of a scan (`games/services.py:72`); two Telegram updates can open a
conversation each (`telegram/service.py:90`), and a redelivered one is recognised
by a per-process cache only (`:129`); one join link opened by two people
(`households/services.py:169`); the rollback of an optimistic status change
(`tasks/hooks.ts:91`).

## Plan

Done: the split, the refunds, the movements, the schedules, the schedulers and
their promise, the query cache with every hook, the undo of deletions, the
assistant, and a theorem for every safety property of the runs. Next:

1. `SpendingCap`: "parts of a whole never exceed it", as an abstract specification
   that `Allocation` and `Refunds` both implement, with the step simulations proved
   from `LockedInv` and `RefundInv`.
2. `Import`: `assign_discriminants` as an operator, two overlapping files,
   idempotence, and the union of files as the abstract promise.
3. `Stock`: quantity against readings through undo. `Compliance`: waivers and
   fingerprints.
4. Optimistic snapshots in `QueryCache`: two overlapping mutations, one rolled
   back.
