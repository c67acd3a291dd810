----------------------------- MODULE ShoppingClear -----------------------------
(***************************************************************************)
(* "Clear checked" of the shopping list (ShoppingListPage.tsx): several    *)
(* rows leave in one gesture.  Every such gesture has the same key, and    *)
(* the rows to delete are read in a ref when the timer fires.              *)
(***************************************************************************)
EXTENDS UndoDelete

VARIABLE clearedIds  \* clearedIdsRef

shopVars == <<vars, clearedIds>>

ShopInit == Init /\ clearedIds = {}

\* The checked rows are any of those on screen.
ClearChecked ==
    \E checked \in SUBSET OnScreen \ {{}} :
        /\ Start(CLEAR, checked)
        /\ clearedIds' = checked

\* A clear deletes the rows the ref holds by then.
ShopTimerFires(g) ==
    /\ FireOn(g, IF gesture[g].key = CLEAR THEN clearedIds ELSE gesture[g].rows)
    /\ UNCHANGED clearedIds

ShopNext ==
    \/ ClearChecked
    \/ \E g \in Gestures : ShopTimerFires(g)
    \/ /\ UNCHANGED clearedIds
       /\ \/ ServeList \/ ListArrives \/ Write \/ WriteSaved
          \/ \E i \in Items : Delete(i)
          \/ \E g \in Gestures : \/ CloseToast(g) \/ Undo(g) \/ ServeDelete(g)
                                \/ DeleteFails(g) \/ DeleteLost(g)

ShopSpec == ShopInit /\ [][ShopNext]_shopVars

\* "The ids to drop are snapshotted at trigger time (clearedIdsRef)": the rows a
\* clear deletes are the ones it took off the screen.
ClearsWhatItTook ==
    \A g \in Gestures : gesture[g].phase = "sent" => gesture[g].deletes = gesture[g].rows
===============================================================================
