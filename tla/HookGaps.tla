------------------------------ MODULE HookGaps ---------------------------------
(***************************************************************************)
(* What the tables of HookTables say is overlooked at this commit: the     *)
(* reads the graph of lib/invalidate.ts has no row for, and the hooks that *)
(* do not name all that they write.  Each is written down here, so that a  *)
(* run checks everything else, and a view or a hook that is added to the   *)
(* tables is checked with it.                                              *)
(***************************************************************************)
EXTENDS HookTables

\* Rows that DERIVED_FROM lacks: what each root reads beyond what it declares.
UndeclaredReads ==
    {<<"chickens", t>> : t \in {"journal", "stock", "document"}}
    \cup {<<"documents", t>> : t \in LinkTables \cup {"journal"}}
    \cup {<<"photos", t>> : t \in LinkTables}
    \cup {<<"zones", t>> : t \in {"project", "equipment"}}
    \cup {<<"projects", "document">>, <<"tasks", "taskNote">>}

\* The readers of the journal that a hook outside the graph must name itself, but
\* those it does name.
JournalReadersBut(named) ==
    (RootsInvalidatedBy({"interactions"}) \cup {"documents", "chickens"}) \ named

\* The hooks that name keys and forget some: the roots, or queries, forgotten.
Forgotten ==
    {<<{"useLogEggs", "useDeleteEggLog", "useDeleteChicken", "useUpdateChickenEvent",
        "useDeleteChickenEvent", "agent:egg_log", "agent:chicken_chore",
        "agent:tree", "agent:tree_event"}, {"alerts"}>>,
     <<{"agent:task", "useCreateChickenEvent"},
       {"alerts", "dashboard", "projects", "zones"}>>,
     <<{"agent:note"}, JournalReadersBut({"interactions"})>>,
     <<{"agent:renovation"}, JournalReadersBut({"interactions", "renovation", "zones"})>>,
     <<{"usePurchaseChicken"}, JournalReadersBut({"interactions", "chickens"})>>,
     <<{"agent:stock_purchase"},
       JournalReadersBut({"interactions", "stock"}) \cup {"alerts", "shopping"}>>,
     <<{"useCommitToStock"}, JournalReadersBut({"stock", "shopping"}) \cup {"alerts"}>>,
     <<{"agent:stock_item"}, {"alerts", "shopping", "chickens"}>>,
     <<{"useCreateTracker", "useUpdateTracker", "useArchiveTracker", "useCreateEntry",
        "useUpdateEntry", "useDeleteEntry", "agent:tracker", "agent:tracker_entry"},
       {"projects"}>>,
     <<{"useAttachDocumentToInteraction"}, {"interactions", "photos"}>>,
     <<{"useAttachEntityDocument", "useDetachEntityDocument"}, {"photos"}>>,
     <<{"useCreateDocument", "useUpdateDocument", "useDeleteDocument",
        "useReprocessDocumentOcr", "useDeletePhoto"},
       {"projects", "chickens", "tasks", "interactions", "orchard"}>>,
     <<{"useUpdateDocument", "useDeleteDocument", "useReprocessDocumentOcr"}, {"photos"}>>,
     <<{"useCreateShoppingItem", "useUpdateShoppingItem", "useDeleteShoppingItem",
        "useBulkDeleteShoppingItems"}, {"shopping.suggestions"}>>,
     <<{"useDeleteUsagePoint"}, {"electricity.links"}>>,
     <<{"useCreateHousehold", "useArchiveHousehold", "useLeaveHousehold",
        "useAcceptInvitation"}, {"households.list", "household-members"}>>,
     <<{"useScanZoneToken"}, {"games"}>>}

LeftOut(m, v) ==
    \/ /\ m.by = "graph"
       /\ \E t \in m.writes \cap v.reads : <<v.root, t>> \in UndeclaredReads
    \/ \E f \in Forgotten : m.name \in f[1] /\ {v.root, v.name} \cap f[2] # {}
===============================================================================
