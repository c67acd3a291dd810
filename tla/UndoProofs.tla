------------------------------ MODULE UndoProofs -------------------------------
(***************************************************************************)
(* Whatever a screen does to put a row back, pendingRef only names removals *)
(* whose timer runs, and misses one only for another of the same key.  On  *)
(* the screens that hide the rows being deleted, an undone deletion never  *)
(* reaches the server, however the list is fetched meanwhile.              *)
(***************************************************************************)
EXTENDS UndoDelete, TLAPS

Active(g) == gesture[g].phase \in {"waiting", "sent"}

\* A gesture that was made is about the one row that is its key.
Typed ==
    /\ gesture \in [Gestures -> GestureStates]
    /\ made \in 0 .. MaxGestures
    /\ pending \in [Keys -> Gestures \cup {NoGesture}]
    /\ hidden \subseteq Items /\ server \subseteq Items /\ undone \subseteq Items
    /\ \A g \in Gestures : g > made => gesture[g] = Unmade
    /\ \A g \in Gestures : gesture[g].phase # "unmade" =>
          /\ gesture[g].key \in Items
          /\ gesture[g].rows = {gesture[g].key}
    /\ \A g \in Gestures : gesture[g].phase = "sent" =>
          gesture[g].deletes = gesture[g].rows
    /\ \A g \in Gestures : gesture[g].toast => gesture[g].phase = "waiting"

\* A row has one removal in progress at most; pendingRef knows it until it leaves.
OneRemoval ==
    \A g, h \in Gestures :
        Active(g) /\ Active(h) /\ gesture[g].key = gesture[h].key => g = h
Listed ==
    /\ \A g \in Gestures : gesture[g].phase = "waiting" => pending[gesture[g].key] = g
    /\ \A k \in Keys : pending[k] # NoGesture =>
          gesture[pending[k]].phase = "waiting" /\ gesture[pending[k]].key = k

\* The hidden rows are those being removed and those that are gone, but for those
\* whose end the screen was not told.
ActiveHidden == \A g \in Gestures :
    Active(g) => gesture[g].key \in hidden /\ gesture[g].key \in server \cup lost
GoneHidden == \A i \in Items : i \notin server => i \in hidden \cup lost

UndoneKept == \A i \in undone :
    i \in server \cup lost /\ \A g \in Gestures : Active(g) => gesture[g].key # i

HideInv ==
    /\ Typed /\ OneRemoval /\ Listed /\ ActiveHidden /\ GoneHidden /\ UndoneKept

LEMMA GesturesAreNumbers == Gestures \subseteq Nat /\ NoGesture \notin Gestures
  BY UndoConstants DEF Gestures

LEMMA HideInit ==
    ASSUME Init PROVE HideInv
<1>1. Typed
  BY UndoConstants DEF Init, Typed, Unmade, GestureStates, Keys, Gestures
<1>2. OneRemoval /\ Listed /\ ActiveHidden
  BY DEF Init, OneRemoval, Listed, ActiveHidden, Active, Unmade
<1> QED
  BY <1>1, <1>2 DEF Init, HideInv, GoneHidden, UndoneKept

\* The list: what the removals depend on does not move.
LEMMA ListSteps ==
    ASSUME HideInv,
           UNCHANGED <<server, hidden, gesture, made, pending, undone, lost>>
    PROVE  HideInv'
BY DEF HideInv, Typed, OneRemoval, Listed, ActiveHidden, GoneHidden, UndoneKept, Active

LEMMA CloseStep ==
    ASSUME HideInv, NEW g \in Gestures, CloseToast(g)
    PROVE  HideInv'
<1>1. /\ gesture' = [gesture EXCEPT ![g].toast = FALSE]
      /\ gesture[g].phase = "waiting"
  BY DEF CloseToast, HideInv, Typed
<1>2. UNCHANGED <<server, hidden, made, pending, undone, lost>>
  BY DEF CloseToast, list, past
<1>3. gesture[g] \in GestureStates
  BY DEF HideInv, Typed
<1>4. /\ gesture' \in [Gestures -> GestureStates]
      /\ \A h \in Gestures : /\ gesture'[h].phase = gesture[h].phase
                             /\ gesture'[h].key = gesture[h].key
                             /\ gesture'[h].rows = gesture[h].rows
                             /\ gesture'[h].deletes = gesture[h].deletes
                             /\ gesture'[h].toast => gesture[h].toast
                             /\ h # g => gesture'[h] = gesture[h]
  BY <1>1, <1>3 DEF GestureStates, HideInv, Typed
<1>5. g <= made
  BY <1>1, GesturesAreNumbers DEF HideInv, Typed, Unmade
<1>6. Typed'
  BY <1>1, <1>2, <1>4, <1>5, GesturesAreNumbers DEF HideInv, Typed
<1> QED
  BY <1>1, <1>2, <1>4, <1>6
  DEF HideInv, OneRemoval, Listed, ActiveHidden, GoneHidden, UndoneKept, Active

LEMMA DeleteStep ==
    ASSUME HideInv, Restore = "hide", NEW i \in Items, Delete(i)
    PROVE  HideInv'
<1> DEFINE g == made + 1
           new == [phase |-> "waiting", key |-> i, rows |-> {i}, deletes |-> {},
                   toast |-> TRUE]
<1>1. g \in Gestures /\ g \in Nat /\ made \in Nat /\ made' = g
  BY UndoConstants DEF Delete, Start, HideInv, Typed, Gestures
<1>2. i \notin hidden
  BY DEF Delete, OnScreen, Shown
<1>3. /\ gesture' = [gesture EXCEPT ![g] = new]
      /\ pending' = [pending EXCEPT ![i] = g]
      /\ undone' = undone \ {i}
      /\ server' = server
      /\ hidden' = hidden \cup {i}
      /\ lost' = lost
  BY DEF Delete, Start, Remove
<1>4. \A h \in Gestures : Active(h) => gesture[h].key # i
  BY <1>2 DEF HideInv, ActiveHidden
<1>5. gesture[g] = Unmade
  BY <1>1 DEF HideInv, Typed
<1>6. i \in server \cup lost
  BY <1>2 DEF HideInv, GoneHidden
<1>7. /\ gesture'[g] = new
      /\ \A h \in Gestures : h # g => gesture'[h] = gesture[h]
  BY <1>1, <1>3 DEF HideInv, Typed
<1>8. Typed'
  <2>1. new \in GestureStates
    BY DEF GestureStates, Keys
  <2>2. gesture' \in [Gestures -> GestureStates]
    BY <1>3, <2>1 DEF HideInv, Typed
  <2>3. ASSUME NEW h \in Gestures, h > made'
        PROVE  gesture'[h] = Unmade
    <3>1. h \in Nat /\ h > made /\ h # g
      BY <1>1, <2>3, GesturesAreNumbers
    <3>2. gesture[h] = Unmade
      BY <3>1 DEF HideInv, Typed
    <3> QED
      BY <1>7, <3>1, <3>2
  <2>4. made' \in 0 .. MaxGestures
    BY <1>1 DEF Delete, Start, HideInv, Typed, Gestures
  <2>5. pending' \in [Keys -> Gestures \cup {NoGesture}]
    BY <1>1, <1>3 DEF HideInv, Typed, Keys
  <2> QED
    BY <1>3, <1>7, <2>2, <2>3, <2>4, <2>5 DEF HideInv, Typed
<1>9. OneRemoval'
  BY <1>4, <1>7 DEF HideInv, OneRemoval, Active
<1>10. Listed'
  <2>1. /\ pending'[i] = g
        /\ \A k \in Keys : k # i => pending'[k] = pending[k]
    BY <1>3 DEF HideInv, Typed, Keys
  <2>2. \A h \in Gestures : h # g /\ gesture[h].phase = "waiting" => gesture[h].key # i
    BY <1>4 DEF Active
  <2>3. \A k \in Keys : pending[k] # NoGesture => pending[k] \in Gestures /\ pending[k] # g
    BY <1>5 DEF HideInv, Typed, Listed, Unmade
  <2>4. \A h \in Gestures : gesture[h].key \in Keys
    BY DEF HideInv, Typed, GestureStates
  <2> QED
    BY <1>7, <2>1, <2>2, <2>3, <2>4 DEF HideInv, Listed
<1>11. ActiveHidden' /\ GoneHidden'
  BY <1>3, <1>6, <1>7 DEF HideInv, ActiveHidden, GoneHidden, Active
<1>12. UndoneKept'
  BY <1>3, <1>7 DEF HideInv, UndoneKept, Active
<1> QED
  BY <1>8, <1>9, <1>10, <1>11, <1>12 DEF HideInv

\* A gesture that moves on, keeping its key and its row.
LEMMA FireStep ==
    ASSUME HideInv, NEW g \in Gestures, TimerFires(g)
    PROVE  HideInv'
<1>1. /\ gesture[g].phase = "waiting"
      /\ gesture' = [gesture EXCEPT ![g].phase = "sent", ![g].deletes = gesture[g].rows,
                                    ![g].toast = FALSE]
      /\ pending' = [pending EXCEPT ![gesture[g].key] = NoGesture]
      /\ UNCHANGED <<server, hidden, made, undone, lost>>
  BY DEF TimerFires, FireOn, Due, list, past
<1>2. gesture[g] \in GestureStates
  BY DEF HideInv, Typed
<1>3. /\ gesture' \in [Gestures -> GestureStates]
      /\ gesture'[g].phase = "sent"
      /\ gesture'[g].deletes = gesture[g].rows
      /\ ~gesture'[g].toast
      /\ \A h \in Gestures : /\ gesture'[h].key = gesture[h].key
                             /\ gesture'[h].rows = gesture[h].rows
                             /\ h # g => gesture'[h] = gesture[h]
  BY <1>1, <1>2 DEF GestureStates, HideInv, Typed
<1>4. /\ pending' \in [Keys -> Gestures \cup {NoGesture}]
      /\ pending'[gesture[g].key] = NoGesture
      /\ \A k \in Keys : k # gesture[g].key => pending'[k] = pending[k]
  BY <1>1, <1>2 DEF HideInv, Typed, GestureStates
<1>5. g <= made
  BY <1>1, GesturesAreNumbers DEF HideInv, Typed, Unmade
<1>6. Typed'
  BY <1>1, <1>3, <1>4, <1>5, GesturesAreNumbers DEF HideInv, Typed
<1>7. \A h \in Gestures : Active(h) <=> Active(h)'
  BY <1>1, <1>3 DEF Active
<1>8. OneRemoval' /\ ActiveHidden' /\ GoneHidden' /\ UndoneKept'
  BY <1>1, <1>3, <1>7 DEF HideInv, OneRemoval, ActiveHidden, GoneHidden, UndoneKept
<1>9. Listed'
  <2>1. \A h \in Gestures : h # g /\ gesture[h].phase = "waiting"
            => gesture[h].key # gesture[g].key
    BY <1>1 DEF HideInv, OneRemoval, Active
  <2>2. \A h \in Gestures : gesture[h].key \in Keys
    BY DEF HideInv, Typed, GestureStates
  <2>3. \A k \in Keys : k # gesture[g].key /\ pending[k] # NoGesture
            => pending[k] \in Gestures /\ pending[k] # g
    BY DEF HideInv, Typed, Listed
  <2> QED
    BY <1>3, <1>4, <2>1, <2>2, <2>3 DEF HideInv, Listed
<1> QED
  BY <1>6, <1>8, <1>9 DEF HideInv

\* The end of a removal g: its row is back on screen, or gone for good.
LEMMA OverStep ==
    ASSUME HideInv, NEW g \in Gestures, Active(g),
           gesture'[g].phase = "over", ~gesture'[g].toast,
           gesture' \in [Gestures -> GestureStates],
           \A h \in Gestures : /\ gesture'[h].key = gesture[h].key
                               /\ gesture'[h].rows = gesture[h].rows
                               /\ gesture'[h].deletes = gesture[h].deletes
                               /\ h # g => gesture'[h] = gesture[h],
           pending' = [pending EXCEPT ![gesture[g].key] = NoGesture],
           made' = made,
           \/ /\ hidden' = hidden \ {gesture[g].key}
              /\ server' = server /\ lost' = lost
              /\ undone' \subseteq undone \cup {gesture[g].key}
           \/ /\ hidden' = hidden
              /\ server' = server \ {gesture[g].key} /\ lost' = lost
              /\ undone' = undone
           \/ /\ hidden' = hidden \ {gesture[g].key}
              /\ server' = server \ {gesture[g].key}
              /\ lost' = lost \cup {gesture[g].key}
              /\ undone' = undone
    PROVE  HideInv'
<1> DEFINE k == gesture[g].key
<1>1. k \in Items /\ k \in server \cup lost /\ k \in hidden /\ k \in Keys /\ k \notin undone
  BY DEF HideInv, Typed, ActiveHidden, Active, Keys, UndoneKept
<1>2. \A h \in Gestures : h # g /\ Active(h) => gesture[h].key # k
  BY DEF HideInv, OneRemoval
<1>3. \A h \in Gestures : Active(h)' <=> h # g /\ Active(h)
  BY DEF Active
<1>4. /\ pending' \in [Keys -> Gestures \cup {NoGesture}]
      /\ pending'[k] = NoGesture
      /\ \A j \in Keys : j # k => pending'[j] = pending[j]
  BY <1>1 DEF HideInv, Typed
<1>5. g <= made
  BY GesturesAreNumbers DEF HideInv, Typed, Unmade, Active
<1>6. Typed'
  <2>1. hidden' \subseteq Items /\ server' \subseteq Items /\ undone' \subseteq Items
    BY <1>1 DEF HideInv, Typed
  <2>2. \A h \in Gestures : h > made' => gesture'[h] = Unmade
    BY <1>5, GesturesAreNumbers DEF HideInv, Typed
  <2>3. \A h \in Gestures : gesture'[h].phase # "unmade" => gesture[h].phase # "unmade"
    BY DEF Active
  <2>4. \A h \in Gestures : gesture'[h].phase = "sent" => gesture[h].phase = "sent"
    OBVIOUS
  <2>5. \A h \in Gestures : gesture'[h].toast => gesture'[h].phase = "waiting"
    BY DEF HideInv, Typed
  <2> QED
    BY <1>4, <2>1, <2>2, <2>3, <2>4, <2>5 DEF HideInv, Typed
<1>7. OneRemoval'
  BY <1>3 DEF HideInv, OneRemoval
<1>8. ActiveHidden'
  BY <1>2, <1>3 DEF HideInv, ActiveHidden
<1>9. GoneHidden'
  BY <1>1 DEF HideInv, GoneHidden
<1>10. UndoneKept'
  BY <1>1, <1>2, <1>3 DEF HideInv, UndoneKept
<1>11. Listed'
  <2>1. \A h \in Gestures : gesture[h].key \in Keys
    BY DEF HideInv, Typed, GestureStates
  <2>2. \A h \in Gestures : gesture'[h].phase = "waiting"
            => /\ h # g
               /\ gesture[h].phase = "waiting"
               /\ gesture[h].key # k
    BY <1>2 DEF Active
  <2>3. \A j \in Keys : j # k /\ pending[j] # NoGesture
            => pending[j] \in Gestures /\ pending[j] # g
    BY DEF HideInv, Typed, Listed
  <2> QED
    BY <1>4, <2>1, <2>2, <2>3 DEF HideInv, Listed
<1> QED
  BY <1>6, <1>7, <1>8, <1>9, <1>10, <1>11 DEF HideInv

LEMMA UndoStep ==
    ASSUME HideInv, Restore = "hide", NEW g \in Gestures, Undo(g)
    PROVE  HideInv'
<1> DEFINE k == gesture[g].key
<1>1. gesture[g].phase = "waiting" /\ pending[k] = g
  BY DEF Undo, HideInv, Typed, Listed
<1>2. gesture[g].rows = {k} /\ gesture[g] \in GestureStates
  BY <1>1 DEF HideInv, Typed
<1>3. /\ gesture' = [gesture EXCEPT ![g].phase = "over", ![g].toast = FALSE]
      /\ pending' = [pending EXCEPT ![k] = NoGesture]
      /\ hidden' = hidden \ {k}
      /\ undone' = undone \cup {k}
      /\ UNCHANGED <<server, made, lost>>
  <2>1. gesture' = [Cancelled(g) EXCEPT ![g].toast = FALSE]
    BY <1>1 DEF Undo
  <2>2. gesture' = [gesture EXCEPT ![g].phase = "over", ![g].toast = FALSE]
    BY <1>2, <2>1 DEF Cancelled, HideInv, Typed, GestureStates
  <2> QED
    BY <1>2, <2>2 DEF Undo, PutBack, past
<1>4. /\ gesture' \in [Gestures -> GestureStates]
      /\ gesture'[g].phase = "over" /\ ~gesture'[g].toast
      /\ \A h \in Gestures : /\ gesture'[h].key = gesture[h].key
                             /\ gesture'[h].rows = gesture[h].rows
                             /\ gesture'[h].deletes = gesture[h].deletes
                             /\ h # g => gesture'[h] = gesture[h]
  BY <1>2, <1>3 DEF GestureStates, HideInv, Typed
<1> QED
  BY <1>1, <1>3, <1>4, OverStep DEF Active

LEMMA AnswerSteps ==
    ASSUME HideInv, Restore = "hide", NEW g \in Gestures,
           Answered(g)
    PROVE  HideInv'
<1> DEFINE k == gesture[g].key
<1>1. gesture[g].phase = "sent" /\ Active(g) /\ ~gesture[g].toast
  BY DEF Answered, ServeDelete, DeleteFails, DeleteLost, Active, HideInv, Typed
<1>2. k \in Items /\ gesture[g].rows = {k} /\ gesture[g].deletes = {k}
  BY <1>1 DEF HideInv, Typed
<1>3. gesture[g] \in GestureStates
  BY DEF HideInv, Typed
<1>4. /\ gesture' = [gesture EXCEPT ![g].phase = "over"]
      /\ UNCHANGED <<made, pending>>
  BY DEF Answered, ServeDelete, DeleteFails, DeleteLost
<1>5. /\ gesture' \in [Gestures -> GestureStates]
      /\ gesture'[g].phase = "over" /\ ~gesture'[g].toast
      /\ \A h \in Gestures : /\ gesture'[h].key = gesture[h].key
                             /\ gesture'[h].rows = gesture[h].rows
                             /\ gesture'[h].deletes = gesture[h].deletes
                             /\ h # g => gesture'[h] = gesture[h]
  BY <1>1, <1>3, <1>4 DEF GestureStates, HideInv, Typed
<1>6. pending' = [pending EXCEPT ![k] = NoGesture]
  <2>1. k \in Keys
    BY <1>2 DEF Keys
  <2>2. pending[k] = NoGesture
    <3>1. SUFFICES ASSUME pending[k] # NoGesture PROVE FALSE
      OBVIOUS
    <3>2. /\ pending[k] \in Gestures
          /\ gesture[pending[k]].phase = "waiting"
          /\ gesture[pending[k]].key = k
      BY <2>1, <3>1 DEF HideInv, Typed, Listed
    <3>3. pending[k] = g
      BY <1>1, <3>2 DEF HideInv, OneRemoval, Active
    <3> QED
      BY <1>1, <3>2, <3>3
  <2> QED
    BY <1>4, <2>1, <2>2 DEF HideInv, Typed
<1>7. \/ /\ hidden' = hidden \ {k}
         /\ server' = server /\ lost' = lost
         /\ undone' \subseteq undone \cup {k}
      \/ /\ hidden' = hidden
         /\ server' = server \ {k} /\ lost' = lost
         /\ undone' = undone
      \/ /\ hidden' = hidden \ {k}
         /\ server' = server \ {k}
         /\ lost' = lost \cup {k}
         /\ undone' = undone
  <2>1. CASE ServeDelete(g)
    BY <1>2, <2>1 DEF ServeDelete, past
  <2>2. CASE DeleteFails(g)
    BY <1>2, <2>2 DEF DeleteFails, RestoreOnFailure, PutBack, past
  <2>3. CASE DeleteLost(g)
    BY <1>2, <2>3 DEF DeleteLost, RestoreOnFailure, PutBack
  <2> QED
    BY <2>1, <2>2, <2>3 DEF Answered
<1> QED
  BY <1>1, <1>4, <1>5, <1>6, <1>7, OverStep

LEMMA HideStep ==
    ASSUME HideInv, Restore = "hide", [Next]_vars
    PROVE  HideInv'
<1>1. CASE UNCHANGED vars
  BY <1>1, ListSteps DEF vars, list, past
<1>2. CASE ServeList \/ ListArrives \/ Write \/ WriteSaved
  BY <1>2, ListSteps DEF ServeList, ListArrives, Write, WriteSaved, list, past
<1>3. CASE \E i \in Items : Delete(i)
  BY <1>3, DeleteStep
<1>4. ASSUME NEW g \in Gestures,
             TimerFires(g) \/ CloseToast(g) \/ Undo(g) \/ Answered(g)
      PROVE  HideInv'
  BY <1>4, FireStep, CloseStep, UndoStep, AnswerSteps
<1> QED
  BY <1>1, <1>2, <1>3, <1>4 DEF Next, Answered

THEOREM HideInvariant ==
    ASSUME Restore = "hide"
    PROVE  Spec => []HideInv
<1>1. Init => HideInv
  BY HideInit
<1>2. HideInv /\ [Next]_vars => HideInv'
  BY HideStep
<1> QED
  BY <1>1, <1>2, PTL DEF Spec

\* On the screens that hide what is being deleted, a row whose deletion was undone
\* is never deleted (useDeleteWithUndo: "l'API n'est pas touchée"), unless an earlier
\* request, whose answer was lost, had deleted it.
THEOREM UndoneStays ==
    ASSUME Restore = "hide"
    PROVE  Spec => []UndoneIsKept
<1>1. HideInv => UndoneIsKept
  BY DEF HideInv, UndoneKept, UndoneIsKept
<1> QED
  BY <1>1, HideInvariant, PTL

\* There a row on its way out is never shown again by a fetch of the list
\* (useDeleteWithUndo: "Retire l'item de l'état immédiatement").
THEOREM HiddenWhileLeaving ==
    ASSUME Restore = "hide"
    PROVE  Spec => []LeavingIsHidden
<1>1. HideInv => LeavingIsHidden
  BY DEF HideInv, Typed, ActiveHidden, Active, LeavingIsHidden, Leaving, Shown
<1> QED
  BY <1>1, HideInvariant, PTL

-----------------------------------------------------------------------------
\* The hook's own bookkeeping, on every screen.

\* An entry of pendingRef is a removal that was made, under its own key: it is
\* what lets the timer of one key leave the entries of the others alone.
EntriesAreMade ==
    \A k \in Keys : pending[k] # NoGesture =>
        pending[k] <= made /\ gesture[pending[k]].key = k

\* What the one entry of a key cannot hold: gestures of one key that wait together
\* have been counted as clashing.
Clashes ==
    \A g, h \in Gestures :
        /\ gesture[g].phase = "waiting" /\ gesture[h].phase = "waiting"
        /\ gesture[g].key = gesture[h].key
        => g = h \/ g \in clashed

TypeInv == TypeOK /\ EntriesAreMade /\ CanBeUndone /\ Clashes

LEMMA TypeInit ==
    ASSUME Init PROVE TypeInv
<1>1. Unmade \in GestureStates
  BY DEF Unmade, GestureStates, Keys
<1>2. gesture \in [Gestures -> GestureStates] /\ made \in 0 .. MaxGestures
  BY <1>1, UndoConstants DEF Init
<1>3. \A k \in Keys : pending[k] = NoGesture
  BY DEF Init
<1>4. CanBeUndone /\ Clashes
  BY DEF Init, CanBeUndone, Clashes, Unmade
<1> QED
  BY <1>2, <1>3, <1>4 DEF Init, TypeInv, TypeOK, EntriesAreMade, Settled

\* The list is written in four ways, each of which leaves it well formed.
ListTyped ==
    /\ cache \in [Items -> Nat]
    /\ hidden \subseteq Items
    /\ fetch \in [phase : {"idle", "asked", "read"}, saw : SUBSET Items]

LEMMA RemoveTyped ==
    ASSUME ListTyped, NEW rows \in SUBSET Items, Remove(rows), fetch' = fetch
    PROVE  ListTyped'
BY DEF ListTyped, Remove

LEMMA PutBackTyped ==
    ASSUME ListTyped, NEW g \in Gestures, gesture[g] \in GestureStates, PutBack(g)
    PROVE  ListTyped'
<1>1. CASE Restore = "hide"
  BY <1>1 DEF ListTyped, PutBack
<1>2. CASE Restore = "refetch"
  BY <1>2 DEF ListTyped, PutBack, Invalidate
<1>3. CASE Restore = "append"
  <2>1. UNCHANGED <<hidden, fetch>>
    BY <1>3 DEF PutBack
  <2>2. cache' = [i \in Items |->
           CASE i \notin gesture[g].rows -> cache[i]
             [] gesture[g].key = CLEAR /\ cache[i] > 0 -> cache[i]
             [] OTHER -> cache[i] + 1]
    BY <1>3 DEF PutBack
  <2>3. cache' \in [Items -> Nat]
    BY <2>2 DEF ListTyped
  <2> QED
    BY <2>1, <2>3 DEF ListTyped
<1> QED
  BY <1>1, <1>2, <1>3, UndoConstants

\* A fetch, a save, a toast that is closed: nothing the entries depend on moves.
LEMMA QuietStep ==
    ASSUME TypeInv, ListTyped', UNCHANGED <<made, pending, undone, clashed>>,
           server' \subseteq Items, writes' \in Nat, saving' \in Nat,
           behind' \subseteq lost', lost' \subseteq Items,
           gesture' \in [Gestures -> GestureStates],
           \A h \in Gestures : /\ gesture'[h].key = gesture[h].key
                               /\ gesture[h].phase = "waiting"
                                     <=> gesture'[h].phase = "waiting"
                               /\ gesture'[h].toast => gesture[h].toast
    PROVE  TypeInv'
<1>1. \A k \in Keys : pending[k] # NoGesture => pending[k] \in Gestures
  BY DEF TypeInv, TypeOK
<1>2. EntriesAreMade'
  BY <1>1 DEF TypeInv, EntriesAreMade
<1>3. CanBeUndone' /\ Clashes'
  BY DEF TypeInv, CanBeUndone, Clashes
<1>4. TypeOK'
  BY <1>1 DEF TypeInv, TypeOK, ListTyped
<1> QED
  BY <1>2, <1>3, <1>4 DEF TypeInv

LEMMA FetchTyped ==
    ASSUME TypeInv, ServeList \/ ListArrives \/ Write \/ WriteSaved
    PROVE  TypeInv'
<1>1. ListTyped
  BY DEF TypeInv, TypeOK, ListTyped
<1>2. ListTyped'
  <2>1. CASE ServeList
    BY <1>1, <2>1 DEF ServeList, ListTyped, TypeInv, TypeOK
  <2>2. CASE ListArrives
    BY <1>1, <2>2 DEF ListArrives, ListTyped, Settled
  <2>3. CASE Write
    BY <1>1, <2>3 DEF Write, ListTyped, list
  <2>4. CASE WriteSaved
    BY <1>1, <2>4 DEF WriteSaved, ListTyped, Invalidate
  <2> QED
    BY <2>1, <2>2, <2>3, <2>4
<1>3. /\ UNCHANGED <<server, gesture, made, pending, undone, clashed>>
      /\ behind' \subseteq lost' /\ lost' \subseteq Items
  BY DEF ServeList, ListArrives, Write, WriteSaved, past, TypeInv, TypeOK
<1>4. writes' \in Nat /\ saving' \in Nat
  BY DEF ServeList, ListArrives, Write, WriteSaved, TypeInv, TypeOK
<1> QED
  BY <1>2, <1>3, <1>4, QuietStep DEF TypeInv, TypeOK

LEMMA StartTyped ==
    ASSUME TypeInv, NEW key \in Keys, NEW rows \in SUBSET Items, Start(key, rows)
    PROVE  TypeInv'
<1> DEFINE g == made + 1
           new == [phase |-> "waiting", key |-> key, rows |-> rows, deletes |-> {},
                   toast |-> TRUE]
<1>1. g \in Gestures /\ g \in Nat /\ made \in Nat /\ made' = g /\ g \in 0 .. MaxGestures
  BY UndoConstants DEF Start, TypeInv, TypeOK, Gestures
<1>2. ListTyped'
  BY RemoveTyped DEF Start, TypeInv, TypeOK, ListTyped
<1>3. /\ gesture' = [gesture EXCEPT ![g] = new]
      /\ pending' = [pending EXCEPT ![key] = g]
      /\ undone' = undone \ rows
      /\ UNCHANGED <<server, writes, saving, lost, behind>>
  BY DEF Start
<1>4. new \in GestureStates
  BY DEF GestureStates
<1>5. /\ gesture' \in [Gestures -> GestureStates]
      /\ gesture'[g] = new
      /\ \A h \in Gestures : h # g => gesture'[h] = gesture[h]
  BY <1>1, <1>3, <1>4 DEF TypeInv, TypeOK
<1>6. /\ pending' \in [Keys -> Gestures \cup {NoGesture}]
      /\ pending'[key] = g
      /\ \A k \in Keys : k # key => pending'[k] = pending[k]
  BY <1>1, <1>3 DEF TypeInv, TypeOK
<1>7. \A k \in Keys : pending[k] # NoGesture =>
         pending[k] \in Gestures /\ pending[k] \in Nat /\ pending[k] # g
  <2> SUFFICES ASSUME NEW k \in Keys, pending[k] # NoGesture
               PROVE  pending[k] \in Gestures /\ pending[k] \in Nat /\ pending[k] # g
    OBVIOUS
  <2>1. pending[k] \in Gestures /\ pending[k] <= made
    BY DEF TypeInv, TypeOK, EntriesAreMade
  <2>2. pending[k] \in Nat
    BY <2>1, GesturesAreNumbers
  <2> QED
    BY <1>1, <2>1, <2>2
<1>8. ASSUME NEW k \in Keys, pending'[k] # NoGesture
      PROVE  /\ pending'[k] <= made'
             /\ gesture'[pending'[k]].key = k
             /\ gesture'[pending'[k]].phase = "waiting"
  <2>1. CASE k = key
    BY <1>1, <1>5, <1>6, <2>1
  <2>2. CASE k # key
    <3>1. pending'[k] = pending[k] /\ gesture'[pending[k]] = gesture[pending[k]]
      BY <1>5, <1>6, <1>7, <1>8, <2>2
    <3>2. pending[k] <= made' /\ pending[k] <= made
      BY <1>1, <1>7, <1>8, <3>1 DEF TypeInv, EntriesAreMade
    <3> QED
      BY <1>8, <3>1, <3>2 DEF TypeInv, TypeOK, EntriesAreMade
  <2> QED
    BY <2>1, <2>2
<1>9. ASSUME NEW h \in Gestures, h # g, gesture'[h].phase = "waiting",
             gesture'[h].key = key
      PROVE  g \in clashed' /\ h \in clashed'
  <2>1. gesture[h].phase = "waiting" /\ gesture[h].key = key
    BY <1>5, <1>9
  <2>2. h \in Waiting(key)
    BY <2>1 DEF Waiting
  <2> QED
    BY <2>2 DEF Start
<1>10. clashed \subseteq clashed' /\ clashed' \subseteq Gestures
  BY <1>1 DEF Start, TypeInv, TypeOK, Waiting
<1>11. CanBeUndone'
  <2> SUFFICES ASSUME NEW h \in Gestures
               PROVE  /\ gesture'[h].toast => gesture'[h].phase = "waiting"
                      /\ gesture'[h].phase = "waiting" /\ h \notin clashed'
                           => pending'[gesture'[h].key] = h
    BY DEF CanBeUndone
  <2>1. CASE h = g
    BY <1>5, <1>6, <2>1
  <2>2. CASE h # g
    <3>1. gesture'[h] = gesture[h] /\ gesture[h].key \in Keys
      BY <1>5, <2>2 DEF TypeInv, TypeOK, GestureStates
    <3>2. gesture[h].phase = "waiting" /\ h \notin clashed' => gesture[h].key # key
      BY <1>9, <2>2, <3>1
    <3> QED
      BY <1>6, <1>10, <3>1, <3>2 DEF TypeInv, CanBeUndone
  <2> QED
    BY <2>1, <2>2
<1>12. Clashes'
  BY <1>5, <1>9, <1>10 DEF TypeInv, Clashes
<1>13. TypeOK'
  BY <1>1, <1>2, <1>3, <1>5, <1>6, <1>8, <1>10 DEF TypeInv, TypeOK, ListTyped
<1>14. EntriesAreMade'
  BY <1>8 DEF EntriesAreMade
<1> QED
  BY <1>11, <1>12, <1>13, <1>14 DEF TypeInv

\* The entry e of key k goes: its timer has fired or was cleared.
LEMMA EntryGoes ==
    ASSUME TypeInv, ListTyped', NEW k \in Keys, NEW e \in Gestures,
           gesture[e].key = k, gesture[e].phase = "waiting",
           pending' = [pending EXCEPT ![k] = NoGesture],
           gesture' \in [Gestures -> GestureStates],
           gesture'[e].phase # "waiting", ~gesture'[e].toast,
           \A h \in Gestures : /\ gesture'[h].key = gesture[h].key
                               /\ gesture'[h].toast => gesture[h].toast
                               /\ h # e => gesture'[h].phase = gesture[h].phase,
           \A j \in Keys : pending[j] = e => j = k,
           UNCHANGED <<server, made, writes, saving, clashed, lost, behind>>,
           undone' \subseteq Items
    PROVE  TypeInv'
<1>1. /\ pending' \in [Keys -> Gestures \cup {NoGesture}]
      /\ pending'[k] = NoGesture
      /\ \A j \in Keys : j # k => pending'[j] = pending[j]
  BY DEF TypeInv, TypeOK
<1>2. ASSUME NEW j \in Keys, pending'[j] # NoGesture
      PROVE  /\ pending'[j] = pending[j] /\ pending[j] # NoGesture
             /\ pending[j] \in Gestures
             /\ gesture'[pending[j]].key = gesture[pending[j]].key
             /\ gesture'[pending[j]].phase = gesture[pending[j]].phase
  <2>1. j # k /\ pending'[j] = pending[j] /\ pending[j] # NoGesture
    BY <1>1, <1>2
  <2>2. pending[j] \in Gestures /\ pending[j] # e
    BY <2>1 DEF TypeInv, TypeOK
  <2> QED
    BY <2>1, <2>2
<1>3. CanBeUndone'
  <2> SUFFICES ASSUME NEW h \in Gestures
               PROVE  /\ gesture'[h].toast => gesture'[h].phase = "waiting"
                      /\ gesture'[h].phase = "waiting" /\ h \notin clashed'
                           => pending'[gesture'[h].key] = h
    BY DEF CanBeUndone
  <2>1. CASE h = e
    BY <2>1
  <2>2. CASE h # e
    <3>1. gesture[h].key \in Keys
      BY DEF TypeInv, TypeOK, GestureStates
    <3>2. gesture[h].phase = "waiting" /\ h \notin clashed => gesture[h].key # k
      BY <2>2 DEF TypeInv, Clashes
    <3> QED
      BY <1>1, <2>2, <3>1, <3>2 DEF TypeInv, CanBeUndone
  <2> QED
    BY <2>1, <2>2
<1>4. Clashes'
  BY DEF TypeInv, Clashes
<1>5. EntriesAreMade'
  BY <1>2 DEF TypeInv, EntriesAreMade
<1>6. TypeOK'
  BY <1>1, <1>2 DEF TypeInv, TypeOK, ListTyped
<1> QED
  BY <1>3, <1>4, <1>5, <1>6 DEF TypeInv

LEMMA GestureTyped ==
    ASSUME TypeInv, NEW g \in Gestures,
           TimerFires(g) \/ CloseToast(g) \/ Undo(g) \/ Answered(g)
    PROVE  TypeInv'
<1> DEFINE k == gesture[g].key
           e == pending[k]
<1>1. ListTyped
  BY DEF TypeInv, TypeOK, ListTyped
<1>2. gesture[g] \in GestureStates /\ k \in Keys /\ gesture[g].rows \in SUBSET Items
  BY DEF TypeInv, TypeOK, GestureStates
<1>3. CASE TimerFires(g)
  <2>1. /\ gesture' = [gesture EXCEPT ![g].phase = "sent",
                         ![g].deletes = gesture[g].rows, ![g].toast = FALSE]
        /\ gesture[g].phase = "waiting"
    BY <1>3 DEF TimerFires, FireOn, Due
  <2>2. /\ gesture' \in [Gestures -> GestureStates]
        /\ gesture'[g].phase # "waiting" /\ ~gesture'[g].toast
        /\ \A h \in Gestures : /\ gesture'[h].key = gesture[h].key
                               /\ gesture'[h].toast => gesture[h].toast
                               /\ h # g => gesture'[h].phase = gesture[h].phase
    BY <1>2, <2>1 DEF TypeInv, TypeOK, GestureStates
  <2>3. ListTyped'
    BY <1>1, <1>3 DEF TimerFires, FireOn, list, ListTyped
  <2>4. \A j \in Keys : pending[j] = g => j = k
    BY GesturesAreNumbers DEF TypeInv, EntriesAreMade
  <2>5. /\ UNCHANGED <<server, made, writes, saving, clashed, lost, behind>>
        /\ undone' \subseteq Items
        /\ pending' = [pending EXCEPT ![k] = NoGesture]
    BY <1>3 DEF TimerFires, FireOn, past, TypeInv, TypeOK
  <2>6. gesture[g].key = k /\ gesture[g].phase = "waiting"
    BY <2>1
  <2> HIDE DEF k
  <2> QED
    BY <1>2, <2>2, <2>3, <2>4, <2>5, <2>6, EntryGoes, Zenon
<1>4. CASE CloseToast(g)
  <2>1. /\ gesture' \in [Gestures -> GestureStates]
        /\ \A h \in Gestures : /\ gesture'[h].key = gesture[h].key
                               /\ gesture'[h].phase = gesture[h].phase
                               /\ gesture'[h].toast => gesture[h].toast
    BY <1>2, <1>4 DEF CloseToast, TypeInv, TypeOK, GestureStates
  <2>2. ListTyped'
    BY <1>1, <1>4 DEF CloseToast, list, ListTyped
  <2> QED
    BY <1>4, <2>1, <2>2, QuietStep DEF CloseToast, past, TypeInv, TypeOK
<1>5. CASE Undo(g)
  <2>1. /\ e \in Gestures /\ gesture[e].key = k /\ gesture[e] \in GestureStates
        /\ gesture[e].phase = "waiting"
    BY <1>2, <1>5 DEF Undo, TypeInv, TypeOK, EntriesAreMade
  <2>2. gesture' = [Cancelled(e) EXCEPT ![g].toast = FALSE]
    BY <1>5 DEF Undo
  <2>3. /\ Cancelled(e) \in [Gestures -> GestureStates]
        /\ Cancelled(e)[e].phase = "over" /\ ~Cancelled(e)[e].toast
        /\ \A h \in Gestures : /\ Cancelled(e)[h].key = gesture[h].key
                               /\ Cancelled(e)[h].toast => gesture[h].toast
                               /\ h # e => Cancelled(e)[h].phase = gesture[h].phase
    BY <2>1 DEF Cancelled, TypeInv, TypeOK, GestureStates
  <2> HIDE DEF e
  <2>4. Cancelled(e)[g] \in GestureStates
    BY <2>3
  <2>5. /\ gesture' \in [Gestures -> GestureStates]
        /\ \A h \in Gestures : /\ gesture'[h].key = Cancelled(e)[h].key
                               /\ gesture'[h].phase = Cancelled(e)[h].phase
                               /\ gesture'[h].toast => Cancelled(e)[h].toast
    BY <2>2, <2>3, <2>4 DEF GestureStates
  <2>6. ListTyped'
    BY <1>1, <1>2, <1>5, PutBackTyped DEF Undo
  <2>7. /\ undone' \subseteq Items
        /\ UNCHANGED <<server, made, writes, saving, clashed, lost, behind>>
        /\ pending' = [pending EXCEPT ![k] = NoGesture]
    BY <1>2, <1>5 DEF Undo, past, TypeInv, TypeOK
  <2>8. \A j \in Keys : pending[j] = e => j = k
    BY <2>1, GesturesAreNumbers DEF TypeInv, EntriesAreMade
  <2>9. /\ gesture'[e].phase # "waiting" /\ ~gesture'[e].toast
        /\ \A h \in Gestures : /\ gesture'[h].key = gesture[h].key
                               /\ gesture'[h].toast => gesture[h].toast
                               /\ h # e => gesture'[h].phase = gesture[h].phase
    BY <2>1, <2>3, <2>5
  <2> QED
    BY <1>2, <2>1, <2>5, <2>6, <2>7, <2>8, <2>9, EntryGoes, Zenon
<1>6. CASE Answered(g)
  <2>1. /\ gesture[g].phase = "sent"
        /\ gesture' = [gesture EXCEPT ![g].phase = "over"]
    BY <1>6 DEF Answered, ServeDelete, DeleteFails, DeleteLost
  <2>2. /\ gesture' \in [Gestures -> GestureStates]
        /\ \A h \in Gestures : /\ gesture'[h].key = gesture[h].key
                               /\ gesture[h].phase = "waiting"
                                     <=> gesture'[h].phase = "waiting"
                               /\ gesture'[h].toast => gesture[h].toast
    BY <1>2, <2>1 DEF TypeInv, TypeOK, GestureStates
  <2>3. ListTyped'
    <3>1. CASE ServeDelete(g)
      BY <1>1, <3>1 DEF ServeDelete, Invalidate, ListTyped
    <3>2. CASE DeleteFails(g)
      BY <1>1, <1>2, <3>2, PutBackTyped DEF DeleteFails, RestoreOnFailure
    <3>3. CASE DeleteLost(g)
      BY <1>1, <1>2, <3>3, PutBackTyped DEF DeleteLost, RestoreOnFailure
    <3> QED
      BY <1>6, <3>1, <3>2, <3>3 DEF Answered
  <2>4. gesture[g].deletes \subseteq Items
    BY <1>2 DEF GestureStates
  <2>5. /\ server' \subseteq Items
        /\ UNCHANGED <<made, pending, undone, clashed, writes, saving>>
        /\ behind' \subseteq lost' /\ lost' \subseteq Items
    <3>1. CASE ServeDelete(g)
      BY <3>1 DEF ServeDelete, past, TypeInv, TypeOK
    <3>2. CASE DeleteFails(g)
      BY <3>2 DEF DeleteFails, past, TypeInv, TypeOK
    <3>3. CASE DeleteLost(g)
      BY <2>4, <3>3 DEF DeleteLost, TypeInv, TypeOK
    <3> QED
      BY <1>6, <3>1, <3>2, <3>3 DEF Answered
  <2> QED
    BY <2>2, <2>3, <2>5, QuietStep DEF TypeInv, TypeOK
<1> QED
  BY <1>3, <1>4, <1>5, <1>6

LEMMA TypeStep ==
    ASSUME TypeInv, [Next]_vars
    PROVE  TypeInv'
<1>1. CASE UNCHANGED vars
  BY <1>1, QuietStep DEF vars, list, past, TypeInv, TypeOK, ListTyped
<1>2. CASE ServeList \/ ListArrives \/ Write \/ WriteSaved
  BY <1>2, FetchTyped
<1>3. ASSUME NEW i \in Items, Delete(i) PROVE TypeInv'
  BY <1>3, StartTyped DEF Delete, Keys
<1>4. ASSUME NEW g \in Gestures,
             TimerFires(g) \/ CloseToast(g) \/ Undo(g) \/ Answered(g)
      PROVE  TypeInv'
  BY <1>4, GestureTyped
<1> QED
  BY <1>1, <1>2, <1>3, <1>4 DEF Next, Answered

\* On every kind of screen the state keeps its shape, and what pendingRef names
\* still has its timer: no click on a toast can cancel a removal that was sent
\* (useDeleteWithUndo: cancel() does nothing once the timer has fired).
THEOREM TypeCorrect == Spec => []TypeOK
<1>1. Init => TypeInv
  BY TypeInit
<1>2. TypeInv /\ [Next]_vars => TypeInv'
  BY TypeStep
<1>3. TypeInv => TypeOK
  BY DEF TypeInv
<1> QED
  BY <1>1, <1>2, <1>3, PTL DEF Spec

\* On every kind of screen a toast goes with its timer, and the button of a removal
\* that waits alone under its key stops that very removal (useDeleteWithUndo:
\* cancel() takes the one entry pendingRef has for the key).
THEOREM ButtonStopsItsOwn == Spec => []CanBeUndone
<1>1. Init => TypeInv
  BY TypeInit
<1>2. TypeInv /\ [Next]_vars => TypeInv'
  BY TypeStep
<1>3. TypeInv => CanBeUndone
  BY DEF TypeInv
<1> QED
  BY <1>1, <1>2, <1>3, PTL DEF Spec
===============================================================================
