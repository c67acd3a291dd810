----------------------------- MODULE Invalidation ------------------------------
(***************************************************************************)
(* What a write of the front end makes stale (ui/src/lib/invalidate.ts).   *)
(* The cache of TanStack Query is cut by roots, the first segment of every *)
(* query key.  The module declares which roots are derived from which, and *)
(* a hook that writes names the roots it writes: everything that reads     *)
(* them, directly or through others, is marked stale.                      *)
(***************************************************************************)
EXTENDS Naturals, FiniteSets

QUERY_ROOTS ==
    {"agent", "alerts", "banking", "briefings", "budget", "chickens",
     "compliance", "contacts", "dashboard", "digest", "documents",
     "electricity", "equipment", "expenses", "games", "household-members",
     "households", "insurance", "interactions", "notifications", "orchard",
     "photos", "projects", "recap", "renovation", "settings", "shopping",
     "stock", "structures", "tasks", "trackers", "water", "zones"}

\* The five caches that money shares.
MONEY_ROOTS == {"banking", "interactions", "expenses", "budget", "compliance"}

\* What each root reads of the others; a root that is not there reads none.
DERIVED_FROM ==
    [dashboard  |-> {"tasks", "interactions", "projects", "orchard"},
     alerts     |-> {"tasks", "equipment", "stock", "chickens", "orchard"},
     projects   |-> {"interactions", "tasks"},
     renovation |-> {"interactions"},
     zones      |-> {"interactions", "tasks", "photos", "orchard"},
     photos     |-> {"documents"},
     documents  |-> {"photos"},
     shopping   |-> {"stock"},
     stock      |-> {"shopping", "interactions"},
     equipment  |-> {"interactions"},
     banking      |-> MONEY_ROOTS,
     interactions |-> MONEY_ROOTS,
     expenses     |-> MONEY_ROOTS,
     budget       |-> MONEY_ROOTS,
     compliance   |-> MONEY_ROOTS]

\* Mutant: the graph is followed the way it is written.
SourcesOf(root) == IF root \in DOMAIN DERIVED_FROM THEN DERIVED_FROM[root] ELSE {}

\* READERS: the graph the other way round, one hop.
ReadersOf(root) == {d \in DOMAIN DERIVED_FROM : root \in DERIVED_FROM[d]}

\* One round of the breadth-first walk.
Hop(seen) == seen \cup UNION {ReadersOf(r) : r \in seen}

\* The transitive closure: the walk is over after three rounds, which TLC
\* checks, so that a row that would lengthen it is noticed.
StaleAfterWriting(root) == Hop(Hop(Hop({root})))

ASSUME WalkIsOver ==
    \A root \in QUERY_ROOTS : Hop(StaleAfterWriting(root)) = StaleAfterWriting(root)

RootsInvalidatedBy(written) == UNION {StaleAfterWriting(root) : root \in written}
===============================================================================
