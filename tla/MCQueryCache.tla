----------------------------- MODULE MCQueryCache ------------------------------
(***************************************************************************)
(* The hooks of the front end over the cache: every query, every mutation. *)
(***************************************************************************)
EXTENDS HookGaps, QueryCache

\* Money on the flock: what buying a bird writes, and the totals that read it.
FlockPurchase == {m \in ChickenMutations : m.name = "usePurchaseChicken"}
MoneyViews == {v \in HookViews : v.root \in MONEY_ROOTS}
NoneLeftOut(m, v) == FALSE
===============================================================================
