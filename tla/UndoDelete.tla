------------------------------ MODULE UndoDelete -------------------------------
(***************************************************************************)
(* "Delete with undo" (ui/src/lib/useDeleteWithUndo.ts) on one list of the *)
(* front end: the row leaves the screen at once, the request leaves five   *)
(* seconds later unless the toast's button is clicked, and in the meantime *)
(* the list may be fetched again.                                          *)
(*                                                                         *)
(* Some thirty screens use the hook and they put a row back in three ways, *)
(* which Restore names:                                                    *)
(*   "append"   the row is taken out of the cached list and appended to it *)
(*              again (tasks, shopping, documents, briefings, ...);        *)
(*   "refetch"  taken out of the cached list, then the list is invalidated *)
(*              (zones, conversations);                                    *)
(*   "hide"     the cached list is left alone, the screen keeps a set of   *)
(*              hidden rows (renovation, budgets, accounts, chores, ...).  *)
(* A gesture may take several rows away under one key: ShoppingClear.      *)
(***************************************************************************)
EXTENDS Integers, FiniteSets

CONSTANTS
    Items,
    Restore,      \* "append" | "refetch" | "hide"
    MaxGestures,  \* bound: removals in one behaviour
    MaxWrites,    \* bound: other writes that fetch the list again
    NoGesture

ASSUME UndoConstants ==
    /\ Restore \in {"append", "refetch", "hide"}
    /\ MaxGestures \in Nat \ {0}
    /\ MaxWrites \in Nat
    /\ NoGesture \notin Nat

CLEAR == "clear-checked"    \* the key of a gesture on several rows

ASSUME ClearIsNoItem == CLEAR \notin Items

Keys == Items \cup {CLEAR}
Gestures == 1 .. MaxGestures

VARIABLES
    server,     \* the rows that exist
    cache,      \* copies of each row in the cached list
    hidden,     \* rows hidden by the screen
    fetch,      \* a fetch of the list: "idle", "asked", or "read" with what it saw
    gesture,    \* gesture[g]: its key, the rows it took away, where it is, the
                \* rows its request deletes, its toast
    made,       \* gestures made so far
    pending,    \* pendingRef: the last gesture of each key
    writes,     \* other writes made so far
    saving,     \* other writes in flight
    undone,     \* history: rows whose last removal was undone
    clashed,    \* history: gestures that waited with another of their key
    lost,       \* history: rows deleted by a request whose answer was lost
    behind      \* history: those of lost no list has arrived without since

list == <<cache, hidden, fetch>>
past == <<clashed, lost, behind>>
vars == <<server, list, gesture, made, pending, writes, saving, undone, past>>

Unmade == [phase |-> "unmade", key |-> CLEAR, rows |-> {}, deletes |-> {},
           toast |-> FALSE]
Settled == [phase |-> "idle", saw |-> {}]

\* Copies of a row that the screen shows.
Shown(i) == IF i \in hidden THEN 0 ELSE cache[i]
OnScreen == {i \in Items : Shown(i) > 0}

Init ==
    /\ server = Items
    /\ cache = [i \in Items |-> 1]
    /\ hidden = {}
    /\ fetch = Settled
    /\ gesture = [g \in Gestures |-> Unmade]
    /\ made = 0
    /\ pending = [k \in Keys |-> NoGesture]
    /\ writes = 0
    /\ saving = 0
    /\ undone = {}
    /\ clashed = {} /\ lost = {} /\ behind = {}

-----------------------------------------------------------------------------
\* The list.

\* invalidateQueries: the mounted list is asked again, a fetch in flight dropped.
Invalidate == fetch' = [phase |-> "asked", saw |-> {}]

\* Mutant: the row is only taken out of the cache, whatever the screen.
TakeOut(rows) == /\ cache' = [i \in Items |-> IF i \in rows THEN 0 ELSE cache[i]]
                 /\ UNCHANGED hidden

\* onRemove.
Remove(rows) ==
    IF Restore = "hide"
    THEN hidden' = hidden \cup rows /\ UNCHANGED cache
    ELSE /\ cache' = [i \in Items |-> IF i \in rows THEN 0 ELSE cache[i]]
         /\ UNCHANGED hidden

\* onRestore of a gesture.  Only "clear checked" looks whether a row is back.
PutBack(g) ==
    CASE Restore = "hide" ->
            hidden' = hidden \ gesture[g].rows /\ UNCHANGED <<cache, fetch>>
      [] Restore = "refetch" -> Invalidate /\ UNCHANGED <<cache, hidden>>
      [] Restore = "append" ->
            /\ cache' = [i \in Items |->
                 CASE i \notin gesture[g].rows -> cache[i]
                   [] gesture[g].key = CLEAR /\ cache[i] > 0 -> cache[i]
                   [] OTHER -> cache[i] + 1]
            /\ UNCHANGED <<hidden, fetch>>

ServeList ==
    /\ fetch.phase = "asked"
    /\ fetch' = [phase |-> "read", saw |-> server]
    /\ UNCHANGED <<server, cache, hidden, gesture, made, pending,
                   writes, saving, undone, past>>

ListArrives ==
    /\ fetch.phase = "read"
    /\ cache' = [i \in Items |-> IF i \in fetch.saw THEN 1 ELSE 0]
    /\ fetch' = Settled
    /\ behind' = behind \cap fetch.saw
    /\ UNCHANGED <<server, hidden, gesture, made, pending, writes,
                   saving, undone, clashed, lost>>

\* Another gesture on the list (check a row, edit one) saves something and
\* invalidates it, without changing which rows there are.
Write ==
    /\ writes < MaxWrites
    /\ writes' = writes + 1
    /\ saving' = saving + 1
    /\ UNCHANGED <<server, list, gesture, made, pending, undone, past>>

WriteSaved ==
    /\ saving > 0
    /\ saving' = saving - 1
    /\ Invalidate
    /\ UNCHANGED <<server, cache, hidden, gesture, made, pending,
                   writes, undone, past>>

-----------------------------------------------------------------------------
\* The hook.

\* The gestures of a key whose timer runs.
Waiting(key) == {g \in Gestures : gesture[g].phase = "waiting" /\ gesture[g].key = key}

\* deleteWithUndo(key, ...): out of the screen, a timer, a toast.
Start(key, rows) ==
    /\ made < MaxGestures
    /\ made' = made + 1
    /\ Remove(rows)
    /\ gesture' = [gesture EXCEPT ![made + 1] =
                     [phase |-> "waiting", key |-> key, rows |-> rows,
                      deletes |-> {}, toast |-> TRUE]]
    /\ pending' = [pending EXCEPT ![key] = made + 1]
    /\ undone' = undone \ rows
    /\ clashed' = IF Waiting(key) = {} THEN clashed
                  ELSE clashed \cup Waiting(key) \cup {made + 1}
    /\ UNCHANGED <<server, fetch, writes, saving, lost, behind>>

Delete(i) == i \in OnScreen /\ Start(i, {i})

\* The timers are of one duration: they fire in the order they were set.
Due(g) == gesture[g].phase = "waiting"
            /\ \A h \in Gestures : h < g => gesture[h].phase # "waiting"

\* The five seconds are over: the entry goes, the request leaves.  The toast's own
\* timer, of the same duration, was set right after and takes it away.
FireOn(g, rows) ==
    /\ Due(g)
    /\ pending' = [pending EXCEPT ![gesture[g].key] = NoGesture]
    /\ gesture' = [gesture EXCEPT ![g].phase = "sent", ![g].deletes = rows,
                                  ![g].toast = FALSE]
    /\ UNCHANGED <<server, list, made, writes, saving, undone, past>>

\* Mutant: the timer leaves its entry in pendingRef.
TimerKeepsEntry(g) ==
    /\ Due(g)
    /\ gesture' = [gesture EXCEPT ![g].phase = "sent", ![g].deletes = gesture[g].rows,
                                  ![g].toast = FALSE]
    /\ UNCHANGED <<server, list, made, pending, writes, saving, undone, past>>

TimerFires(g) == FireOn(g, gesture[g].rows)

\* The user closes the toast, by its cross, or by a button that no longer finds an
\* entry: the removal goes on.
CloseToast(g) ==
    /\ gesture[g].toast
    /\ gesture' = [gesture EXCEPT ![g].toast = FALSE]
    /\ UNCHANGED <<server, list, made, pending, writes, saving, undone, past>>

\* Mutant: cancel forgets clearTimeout.
CancelKeepsTimer(g) == [gesture EXCEPT ![g].toast = FALSE]

\* The entry is cancelled: its timer cleared, its toast dismissed.
Cancelled(g) == [gesture EXCEPT ![g].phase = "over", ![g].toast = FALSE]

\* The button of g's toast, which closes it: cancel() reads the last gesture of the
\* key, whose toast it may not be.
Undo(g) ==
    LET entry == pending[gesture[g].key] IN
    /\ gesture[g].toast
    /\ entry # NoGesture
    /\ gesture' = [Cancelled(entry) EXCEPT ![g].toast = FALSE]
    /\ pending' = [pending EXCEPT ![gesture[g].key] = NoGesture]
    /\ PutBack(g)
    /\ undone' = undone \cup gesture[g].rows
    /\ UNCHANGED <<server, made, writes, saving, past>>

\* A row that is gone is a 404, except in a bulk deletion.
Refused(g) == gesture[g].key # CLEAR /\ ~(gesture[g].deletes \subseteq server)

ServeDelete(g) ==
    /\ gesture[g].phase = "sent"
    /\ ~Refused(g)
    /\ server' = server \ gesture[g].deletes
    /\ gesture' = [gesture EXCEPT ![g].phase = "over"]
    /\ Invalidate
    /\ UNCHANGED <<cache, hidden, made, pending, writes, saving, undone, past>>

\* Mutant: the rejection is swallowed.
FailureIgnored(g) == UNCHANGED list

RestoreOnFailure(g) == PutBack(g)

\* The request is refused or does not get through: the row is put back.
DeleteFails(g) ==
    /\ gesture[g].phase = "sent"
    /\ gesture' = [gesture EXCEPT ![g].phase = "over"]
    /\ RestoreOnFailure(g)
    /\ UNCHANGED <<server, made, pending, writes, saving, undone, past>>

\* The rows are deleted and the answer does not come back: the screen takes it for
\* a failure too, and fetches nothing.
DeleteLost(g) ==
    /\ gesture[g].phase = "sent"
    /\ ~Refused(g)
    /\ server' = server \ gesture[g].deletes
    /\ gesture' = [gesture EXCEPT ![g].phase = "over"]
    /\ RestoreOnFailure(g)
    /\ lost' = lost \cup gesture[g].deletes
    /\ behind' = behind \cup gesture[g].deletes
    /\ UNCHANGED <<made, pending, writes, saving, undone, clashed>>

Answered(g) == ServeDelete(g) \/ DeleteFails(g) \/ DeleteLost(g)

-----------------------------------------------------------------------------
Next ==
    \/ ServeList \/ ListArrives \/ Write \/ WriteSaved
    \/ \E i \in Items : Delete(i)
    \/ \E g \in Gestures : \/ TimerFires(g) \/ CloseToast(g) \/ Undo(g)
                           \/ ServeDelete(g) \/ DeleteFails(g) \/ DeleteLost(g)

\* Nobody has to click; the tab stays open, so timers fire and requests end.
Fairness ==
    /\ WF_vars(ServeList) /\ WF_vars(ListArrives) /\ WF_vars(WriteSaved)
    /\ \A g \in Gestures : /\ WF_vars(TimerFires(g))
                           /\ WF_vars(Answered(g))

Spec == Init /\ [][Next]_vars
FairSpec == Spec /\ Fairness

-----------------------------------------------------------------------------
GestureStates ==
    [phase : {"unmade", "waiting", "sent", "over"}, key : Keys,
     rows : SUBSET Items, deletes : SUBSET Items, toast : BOOLEAN]

\* The shape of the state, and the hook's own order: what pendingRef names still
\* has its timer.
TypeOK ==
    /\ server \subseteq Items
    /\ cache \in [Items -> Nat]
    /\ hidden \subseteq Items
    /\ fetch \in [phase : {"idle", "asked", "read"}, saw : SUBSET Items]
    /\ gesture \in [Gestures -> GestureStates]
    /\ made \in 0 .. MaxGestures
    /\ pending \in [Keys -> Gestures \cup {NoGesture}]
    /\ \A k \in Keys : pending[k] # NoGesture => gesture[pending[k]].phase = "waiting"
    /\ writes \in Nat /\ saving \in Nat
    /\ undone \subseteq Items
    /\ clashed \subseteq Gestures
    /\ behind \subseteq lost /\ lost \subseteq Items

Leaving(i) == \E g \in Gestures :
                 gesture[g].phase \in {"waiting", "sent"} /\ i \in gesture[g].rows

\* "Si l'utilisateur clique Annuler, onRestore() est appelé, l'API n'est pas
\* touchée": a row whose removal was undone is not deleted.  Rows a lost answer
\* left on screen were gone before.
UndoneIsKept == undone \ lost \subseteq server

\* "Retire l'item de l'état immédiatement": a row on its way out is not shown,
\* whatever is fetched meanwhile.
LeavingIsHidden == \A i \in Items : Leaving(i) => Shown(i) = 0

\* A row is not on screen twice.
ShownOnce == \A i \in Items : Shown(i) <= 1

\* A toast that shows still has its timer, and the button of a removal that had
\* its key to itself stops that removal: pendingRef holds one entry for a key.
CanBeUndone ==
    \A g \in Gestures :
        /\ gesture[g].toast => gesture[g].phase = "waiting"
        /\ gesture[g].phase = "waiting" /\ g \notin clashed => pending[gesture[g].key] = g

\* Once the gestures are over the screen shows the rows that exist, each once; what
\* else it shows was deleted by a request whose answer was lost, and no list has
\* come since.
Settles ==
    <>[](\A i \in Items : IF i \in server THEN Shown(i) = 1
                          ELSE Shown(i) = 0 \/ i \in behind)

\* Once the gestures are over the screen shows the rows that exist and no other.
SettlesExactly == <>[](\A i \in Items : Shown(i) = IF i \in server THEN 1 ELSE 0)
===============================================================================
