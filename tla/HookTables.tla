------------------------------ MODULE HookTables -------------------------------
(***************************************************************************)
(* The queries and the mutations of the front end (ui/src/features/*/      *)
(* hooks.ts), one definition per file or part of a file: for a query, the  *)
(* root of its key and the tables its endpoint reads; for a mutation, the  *)
(* tables its endpoint writes, what it invalidates and in which callback.  *)
(*                                                                         *)
(* A table is read when its rows are listed, counted or summed.  The name  *)
(* of a row that a reference points at (the zone of a task, the author) is *)
(* a label and is left out.  A line of DocumentLink belongs to the kind of *)
(* entity it is attached to.                                               *)
(***************************************************************************)
EXTENDS Invalidation

Q(name, root, reads) == [name |-> name, root |-> root, reads |-> reads]

\* A hook that declares the roots it writes, through useInvalidate.
Declared(name, writes, roots, on) ==
    [name |-> name, writes |-> writes, hits |-> RootsInvalidatedBy(roots),
     on |-> on, by |-> "graph"]

\* A hook that lists the keys to invalidate: a root, or one query of it.
Direct(name, writes, keys) ==
    [name |-> name, writes |-> writes, hits |-> keys, on |-> "success",
     by |-> "keys"]

\* useInvalidateMoney: whoever touches money has written interactions.
Money(name, writes) == Declared(name, writes, {"interactions"}, "success")

LinkTables == {"projectDoc", "equipmentDoc", "zoneDoc", "taskDoc", "chickenDoc",
               "journalDoc", "treeDoc"}

-----------------------------------------------------------------------------
\* Tasks.  The delete archives.

\* Mutant: the rollback hooks forget onSettled for onSuccess.
TaskStatusOnSuccess(name) == Declared(name, {"task"}, {"tasks"}, "success")

OptimisticTask(name) == Declared(name, {"task"}, {"tasks"}, "settled")

TaskViews == {Q("tasks.list", "tasks", {"task", "taskDoc", "taskNote"}),
              Q("tasks.detail", "tasks", {"task", "taskDoc", "taskNote"})}

TaskMutations ==
    {OptimisticTask(h) : h \in {"useUpdateTaskStatus", "useUpdateTaskAssignee"}}
    \cup {Declared(h, {"task"}, {"tasks"}, "success") :
            h \in {"useCreateTask", "useUpdateTask", "useDeleteTask"}}

TaskLinks ==
    [views |-> {Q("tasks.project", "tasks", {"task", "taskDoc", "taskNote"}),
                Q("tasks.documents", "tasks", {"taskDoc"}),
                Q("tasks.interactions", "tasks", {"taskNote"})},
     mutations |->
        {Declared(h, {"taskDoc"}, {"tasks"}, "success") :
            h \in {"useLinkDocument", "useUnlinkDocument"}}
        \cup {Declared(h, {"taskNote"}, {"tasks"}, "success") :
            h \in {"useLinkInteraction", "useUnlinkInteraction"}}]

\* The journal.  A deletion takes with it the links that name the entry.
Interactions ==
    [views |-> {Q("interactions.list", "interactions", {"journal", "journalDoc"}),
                Q("interactions.detail", "interactions", {"journal", "journalDoc"}),
                Q("interactions.suppliers", "interactions", {"journal"})},
     mutations |->
        {Money("useCreateInteraction", {"journal", "journalDoc"}),
         Money("useUpdateInteraction", {"journal"}),
         Money("useBulkUpdateExpenses", {"journal"}),
         Money("useDeleteInteraction",
               {"journal", "journalDoc", "taskNote", "equipmentNote"}),
         Direct("useAttachDocumentToInteraction", {"journalDoc"}, {"documents"})}]

\* Projects.  The list carries the actual cost, the detail counts its tabs.
ProjectViews ==
    {Q("projects.list", "projects", {"project", "pin", "journal"}),
     Q("projects.detail", "projects",
       {"project", "pin", "journal", "task", "tracker", "projectDoc", "document"}),
     Q("projects.interactions", "projects", {"journal"}),
     Q("projects.groups", "projects", {"group", "project"})}

ProjectMutations ==
    {Declared(h, {"project"}, {"projects"}, "success") :
        h \in {"useCreateProject", "useUpdateProject", "useDeleteProject"}}
    \cup {Declared(h, {"group"}, {"projects"}, "success") :
        h \in {"useCreateGroup", "useUpdateGroup", "useDeleteGroup"}}
    \cup {Declared("useRegisterProjectPurchase", {"journal"},
                   {"projects", "interactions"}, "success"),
          Declared("usePinProject", {"pin"}, {"projects"}, "settled"),
          Declared("useCreateProjectFromPlan",
                   {"project", "task", "journal", "projectDoc", "budget"},
                   {"projects", "tasks", "interactions"}, "success")}

Dashboard ==
    [views |-> {Q("dashboard.myWeek", "dashboard", {"task"}),
                Q("dashboard.activity", "dashboard", {"journal"}),
                Q("dashboard.projects", "dashboard", {"project", "journal"})},
     mutations |-> {Declared("useSetTaskStatus", {"task"}, {"tasks"}, "settled")}]

\* The seven builders; the weather and household_has_content are left out.
AlertViews ==
    {Q("alerts.summary", "alerts",
       {"task", "equipment", "stock", "egg", "chore", "chickenEvent", "careRule",
        "treeEvent", "tree"})}

Renovation ==
    [views |-> {Q("renovation.byZone", "renovation", {"journal"})},
     mutations |-> {Declared(h, {"journal"}, {"renovation", "interactions"}, "success") :
        h \in {"useCreateRenovation", "useUpdateRenovation", "useDeleteRenovation"}}]

Equipment ==
    [views |-> {Q("equipment.list", "equipment", {"equipment"}),
                Q("equipment.detail", "equipment", {"equipment"}),
                Q("equipment.attention", "equipment", {"equipment"}),
                Q("equipment.history", "equipment", {"journal", "equipmentNote"})},
     mutations |->
        {Declared(h, {"equipment"}, {"equipment"}, "success") :
            h \in {"useCreateEquipment", "useUpdateEquipment", "useDeleteEquipment"}}
        \cup {Declared("useLogEquipmentService",
                       {"equipment", "journal", "equipmentNote"},
                       {"equipment", "interactions"}, "success"),
              Declared("useRegisterEquipmentPurchase", {"journal"},
                       {"equipment", "interactions"}, "success")}]

-----------------------------------------------------------------------------
\* Stock.  A purchase is an expense of the journal; an edited quantity is an
\* inventory; the item takes its readings and its dismissal with it.
StockViews ==
    {Q("stock.items", "stock", {"stock"}), Q("stock.detail", "stock", {"stock"}),
     Q("stock.history", "stock", {"journal"}),
     Q("stock.consumption", "stock", {"level"})}

StockMutations ==
    {Declared(h, {"stock", "level"}, {"stock"}, "success") :
        h \in {"useCreateStockItem", "useUpdateStockItem", "useRecordInventory"}}
    \cup {Declared("useDeleteStockItem", {"stock", "level", "shopping", "dismissal"},
                   {"stock"}, "success"),
          Declared("usePurchaseStockItem", {"stock", "level", "journal"},
                   {"stock", "interactions"}, "success")}

StockReadings ==
    [views |-> {Q("stock.readings", "stock", {"level"}),
                Q("stock.categories", "stock", {"stockCategory"})},
     mutations |->
        {Declared(h, {"stock", "level"}, {"stock"}, "success") :
            h \in {"useUpdateStockReading", "useDeleteStockReading"}}
        \cup {Declared("useUndoStockPurchase", {"stock", "level", "journal"},
                       {"stock", "interactions"}, "success")}
        \cup {Declared(h, {"stockCategory"}, {"stock"}, "success") :
            h \in {"useCreateCategory", "useUpdateCategory", "useDeleteCategory"}}]

\* The shopping list and what is suggested for it.
Shopping ==
    [views |-> {Q("shopping.list", "shopping", {"shopping", "stock"}),
                Q("shopping.suggestions", "shopping", {"stock", "shopping", "dismissal"})},
     mutations |->
        {Direct(h, {"shopping"}, {"shopping.list"}) :
            h \in {"useCreateShoppingItem", "useUpdateShoppingItem",
                   "useDeleteShoppingItem", "useBulkDeleteShoppingItems"}}
        \cup {Direct("useAddStockItemToList", {"shopping"},
                     {"shopping.list", "shopping.suggestions"}),
              Direct("useDismissSuggestion", {"dismissal"}, {"shopping.suggestions"}),
              Direct("useCommitToStock", {"shopping", "stock", "level", "journal"},
                     {"shopping.list", "shopping.suggestions", "stock"})}]

-----------------------------------------------------------------------------
\* Documents and photos: two faces of one table.  A deletion takes the links.
Documents ==
    [views |-> {Q("documents.list", "documents", {"document"} \cup LinkTables),
                Q("documents.detail", "documents", {"document", "journal"} \cup LinkTables)},
     mutations |->
        UNION {{Direct("useAttachEntityDocument", {e.links}, {"documents", e.root}),
                Direct("useDetachEntityDocument", {e.links}, {"documents", e.root})} :
               e \in {[links |-> "projectDoc", root |-> "projects"],
                      [links |-> "equipmentDoc", root |-> "equipment"],
                      [links |-> "zoneDoc", root |-> "zones"],
                      [links |-> "taskDoc", root |-> "tasks"],
                      [links |-> "chickenDoc", root |-> "chickens"]}}
        \cup {Direct("useCreateDocument", {"document"}, {"documents", "photos"}),
              Direct("useUpdateDocument", {"document"}, {"documents"}),
              Direct("useDeleteDocument", {"document"} \cup LinkTables, {"documents"}),
              Direct("useReprocessDocumentOcr", {"document"}, {"documents"})}]

Photos ==
    [views |-> {Q("photos.list", "photos", {"document"} \cup LinkTables),
                Q("photos.triage", "photos", {"document"}),
                Q("photos.purposeCounts", "photos", {"document"})},
     mutations |-> {Declared(h, {"document"}, {"photos"}, "success") :
        h \in {"useSetPhotosPurpose", "useSetPhotoPurpose", "useRenamePhoto"}}]

PhotoLinks ==
    [views |-> {Q("photos.entity", "photos", {"document"} \cup LinkTables)},
     mutations |->
        {Direct("useDeletePhoto", {"document"} \cup LinkTables, {"photos", "documents"})}
        \cup {Direct(h, {"zoneDoc"}, {"photos", "documents", "zones"}) :
            h \in {"useSetPhotoZones", "useAddPhotosZones"}}
        \cup {Direct(h, {"projectDoc"}, {"photos", "documents", "projects"}) :
            h \in {"useAttachEntityPhoto", "useDetachEntityPhoto", "useSetPhotoPhase"}}]

-----------------------------------------------------------------------------
\* Registers that nothing else reads.
Plain(root, table, hooks) == {Direct(h, {table}, {root}) : h \in hooks}

Insurance ==
    [views |-> {Q("insurance.list", "insurance", {"insurance"}),
                Q("insurance.detail", "insurance", {"insurance"})},
     mutations |-> Plain("insurance", "insurance",
        {"useCreateInsurance", "useUpdateInsurance", "useDeleteInsurance"})]

\* A tracker caches its last entry and the summary of its entries.
Trackers ==
    [views |-> {Q("trackers.list", "trackers", {"tracker"}),
                Q("trackers.detail", "trackers", {"tracker"}),
                Q("trackers.entries", "trackers", {"entry"})},
     mutations |->
        Plain("trackers", "tracker",
              {"useCreateTracker", "useUpdateTracker", "useArchiveTracker"})
        \cup {Direct(h, {"tracker", "entry"}, {"trackers"}) :
            h \in {"useCreateEntry", "useUpdateEntry", "useDeleteEntry"}}]

Directory ==
    [views |-> {Q("contacts.list", "contacts", {"contact"}),
                Q("structures.list", "structures", {"structure"})},
     mutations |->
        Plain("contacts", "contact",
              {"useCreateContact", "useUpdateContact", "useDeleteContact"})
        \cup Plain("structures", "structure",
              {"useCreateStructure", "useUpdateStructure", "useDeleteStructure"})]

Water ==
    [views |-> {Q("water.readings", "water", {"waterReading"}),
                Q("water.summary", "water", {"waterReading"})},
     mutations |-> Plain("water", "waterReading",
        {"useCreateWaterReading", "useUpdateWaterReading", "useDeleteWaterReading"})]

Notifications ==
    [views |-> {Q("notifications.list", "notifications", {"notification"}),
                Q("notifications.unreadCount", "notifications", {"notification"})},
     mutations |-> Plain("notifications", "notification",
        {"useMarkRead", "useMarkAllRead"})]

Games ==
    [views |-> {Q("games.list", "games", {"hunt"}), Q("games.detail", "games", {"hunt"}),
                Q("games.active", "games", {"hunt"}), Q("games.play", "games", {"hunt"})},
     mutations |-> {Declared(h, {"hunt"}, {"games"}, "success") :
        h \in {"useCreateHunt", "useUpdateHunt", "useDeleteHunt", "useStartHunt",
               "useReplayHunt", "useAbandonHunt"}}]

\* Zones.  The list counts the equipment, the open tasks and the active projects
\* of each zone; a deletion sets the references to it to null.
ZoneViews ==
    {Q("zones.list", "zones", {"zone", "equipment", "task", "project"}),
     Q("zones.detail", "zones", {"zone", "equipment", "task", "project"}),
     Q("zones.equipment", "zones", {"equipment"}),
     Q("zones.tasks", "zones", {"task"}),
     Q("zones.activity", "zones", {"journal"}),
     Q("zones.projects", "zones", {"project"})}

ZoneMutations ==
    Plain("zones", "zone", {"useCreateZone", "useUpdateZone", "useDeleteZone",
                            "useMoveZone", "useReorderZones"})

-----------------------------------------------------------------------------
\* Money: accounts, imports and lines; then what is done with a line.
BankAccounts ==
    [views |-> {Q("banking.accounts", "banking", {"account", "line", "import"}),
                Q("banking.coverage", "banking", {"account", "line", "import"}),
                Q("banking.balanceHistory", "banking", {"account", "line"}),
                Q("banking.householdBalanceHistory", "banking", {"account", "line"}),
                Q("banking.anchor", "banking", {"account"})},
     mutations |-> {Money(h, {"account"}) :
        h \in {"useCreateBankAccount", "useUpdateBankAccount", "useArchiveBankAccount",
               "useRestoreBankAccount", "useSetBalanceAnchor"}}]

BankLines ==
    [views |-> {Q("banking.imports", "banking", {"import"}),
                Q("banking.transactions", "banking", {"line", "journal", "credit"}),
                Q("banking.flow", "banking", {"line"}),
                Q("banking.balance", "banking", {"account", "line"})},
     mutations |->
        {Money("useImportStatementFile", {"import", "line", "journal", "recurring"}),
         Money("useQualifyTransaction", {"line", "credit"})}]

BankSplits ==
    [views |-> {Q("banking.transferCandidates", "banking", {"line"}),
                Q("banking.allocations", "banking", {"line", "journal"})},
     mutations |->
        {Money(h, {"line", "credit"}) :
            h \in {"useWithdrawToCash", "useUnlinkCashCounterpart",
                   "useLinkTransferCounterpart", "useSetRefundAllocations",
                   "useCreditBudgetFromRefund"}}
        \cup {Money("useSetAllocations", {"journal"})}]

BankLinks ==
    [views |-> {Q("banking.suggestions", "banking", {"line", "journal"})},
     mutations |->
        {Money(h, {"journal"}) : h \in {"useUnlinkAllocation", "useLinkInteraction"}}
        \cup {Money(h, {"line", "credit"}) :
            h \in {"useRecordCashDeposit", "useAdjustCashMirror"}}
        \cup {Money("useReconcile", {"journal", "recurring"}),
              Money("useRecordCashExpense", {"line", "journal"})}]

Compliance ==
    [views |-> {Q(n, "compliance", {"account", "line", "import", "journal", "credit",
                                    "waiver"}) :
                n \in {"compliance.summary", "compliance.group"}},
     mutations |-> {Money(h, {"waiver"}) : h \in {"useWaiveFinding", "useRevokeWaiver"}}]

Expenses ==
    [views |-> {Q("expenses.summary", "expenses", {"journal"})},
     mutations |-> {Money("useCreateManualExpense", {"journal"})}]

BudgetViews ==
    {Q("budget.list", "budget", {"budget"}),
     Q("budget.overview", "budget", {"budget", "category", "journal", "credit"})}

BudgetMutations ==
    {Money(h, {"budget"}) : h \in {"useCreateBudget", "useUpdateBudget"}}
    \cup {Money("useDeleteBudget", {"budget", "journal", "credit"})}
    \cup {Money(h, {"category"}) :
            h \in {"useCreateBudgetCategory", "useUpdateBudgetCategory"}}
    \cup {Money("useDeleteBudgetCategory", {"category", "budget"})}

RecurringHooks ==
    [views |-> {Q("budget.categories", "budget", {"category"}),
                Q("budget.recurring", "budget", {"recurring"}),
                Q("budget.recurringDue", "budget", {"recurring"}),
                Q("budget.projection", "budget", {"recurring", "account", "line"}),
                Q("budget.analysis", "budget", {"budget", "journal", "credit"}),
                Q("budget.insights", "budget", {"budget", "category", "journal"})},
     mutations |->
        {Money(h, {"recurring"}) :
            h \in {"useCreateRecurringExpense", "useUpdateRecurringExpense",
                   "useRestoreRecurringSchedule"}}
        \cup {Money("useDeleteRecurringExpense", {"recurring", "journal"}),
              Money("useConfirmRecurringOccurrence", {"recurring", "journal"})}]

-----------------------------------------------------------------------------
\* The flock.  Its summary adds up the expenses and shows the feed in stock.
ChickenViews ==
    {Q("chickens.list", "chickens", {"chicken"}),
     Q("chickens.detail", "chickens", {"chicken", "chickenEvent", "chickenDoc", "document"}),
     Q("chickens.eggLogs", "chickens", {"egg"}),
     Q("chickens.eggStats", "chickens", {"egg"}),
     Q("chickens.events", "chickens", {"chickenEvent"}),
     Q("chickens.settings", "chickens", {"chickenSettings"}),
     Q("chickens.summary", "chickens", {"chicken", "egg", "chickenSettings", "stock", "journal"})}

ChickenMutations ==
    {Direct(h, {"chicken"}, {"chickens"}) : h \in {"useCreateChicken", "useUpdateChicken"}}
    \cup {Direct("useDeleteChicken", {"chicken", "chickenEvent"}, {"chickens"}),
          Direct("usePurchaseChicken", {"journal"}, {"chickens", "interactions"}),
          Direct("useCreateChickenEvent", {"chickenEvent", "task"}, {"chickens", "tasks"}),
          Direct("useUpdateChickenSettings", {"chickenSettings"}, {"chickens"})}
    \cup {Direct(h, {"egg"}, {"chickens"}) : h \in {"useLogEggs", "useDeleteEggLog"}}
    \cup {Direct(h, {"chickenEvent"}, {"chickens"}) :
            h \in {"useUpdateChickenEvent", "useDeleteChickenEvent"}}

Chores ==
    [views |-> {Q("chickens.chores", "chickens", {"chore", "chickenEvent"})},
     mutations |->
        {Declared(h, {"chore"}, {"chickens"}, "success") :
            h \in {"useCreateChore", "useUpdateChore"}}
        \cup {Declared("useDeleteChore", {"chore", "chickenEvent"}, {"chickens"}, "success"),
              Declared("useCompleteChore", {"chickenEvent"}, {"chickens"}, "success")}]

\* The orchard.  A tree takes its events, harvests and rules with it.
OrchardViews ==
    {Q("orchard.list", "orchard", {"tree"}),
     Q("orchard.detail", "orchard", {"tree", "treeEvent", "harvest", "treeDoc"}),
     Q("orchard.events", "orchard", {"treeEvent"}),
     Q("orchard.harvests", "orchard", {"harvest"}),
     Q("orchard.series", "orchard", {"harvest"})}

OrchardMutations ==
    {Declared(h, {"tree"}, {"orchard"}, "success") : h \in {"useCreateTree", "useUpdateTree"}}
    \cup {Declared("useDeleteTree", {"tree", "treeEvent", "harvest", "careRule", "treeDoc"},
                   {"orchard"}, "success")}
    \cup {Declared(h, {"treeEvent"}, {"orchard"}, "success") :
            h \in {"useCreateTreeEvent", "useUpdateTreeEvent", "useDeleteTreeEvent"}}
    \cup {Declared(h, {"harvest"}, {"orchard"}, "success") :
            h \in {"useCreateHarvest", "useUpdateHarvest", "useDeleteHarvest"}}

OrchardCare ==
    [views |-> {Q(n, "orchard", {"careRule", "tree", "treeEvent"}) :
                n \in {"orchard.rules", "orchard.season"}},
     mutations |->
        {Declared(h, {"careRule"}, {"orchard"}, "success") :
            h \in {"useCreateCareRule", "useUpdateCareRule"}}
        \cup {Declared("useDeleteCareRule", {"careRule", "treeEvent"}, {"orchard"}, "success"),
              Declared("useCompleteCareRule", {"treeEvent"}, {"orchard"}, "success"),
              Declared("useCreateCareTask", {"task"}, {"tasks"}, "success"),
              Declared("usePurchaseTree", {"journal"}, {"orchard", "interactions"}, "success")}]

-----------------------------------------------------------------------------
\* Electricity: the plan of the boards, then the meters.
PlanViews ==
    {Q("electricity.boards", "electricity", {"board"}),
     Q("electricity.devices", "electricity", {"device"}),
     Q("electricity.circuits", "electricity", {"circuit"}),
     Q("electricity.usagePoints", "electricity", {"usagePoint"}),
     Q("electricity.links", "electricity", {"plugLink"})}

BoardMutations ==
    {Direct(h, {"board"}, {"electricity.boards"}) : h \in {"useCreateBoard", "useUpdateBoard"}}
    \cup {Direct("useDeleteBoard", {"board", "device", "circuit", "plugLink"}, {"electricity"})}
    \cup {Direct(h, {"device"}, {"electricity"}) :
            h \in {"useCreateDevice", "useUpdateDevice", "useDeleteDevice"}}
    \cup {Direct(h, {"circuit"}, {"electricity"}) :
            h \in {"useCreateCircuit", "useUpdateCircuit"}}
    \cup {Direct("useDeleteCircuit", {"circuit", "plugLink"}, {"electricity"})}

UsagePointMutations ==
    {Direct(h, {"usagePoint"}, {"electricity.usagePoints"}) :
        h \in {"useCreateUsagePoint", "useBulkCreateUsagePoints", "useUpdateUsagePoint"}}
    \cup {Direct("useDeleteUsagePoint", {"usagePoint", "plugLink"}, {"electricity.usagePoints"})}
    \cup {Direct(h, {"plugLink"}, {"electricity"}) : h \in {"useCreateLink", "useDeactivateLink"}}

Meters ==
    [views |-> {Q("electricity.meters", "electricity", {"meter"}),
                Q("electricity.readings", "electricity", {"meterReading"}),
                Q("electricity.summary", "electricity", {"meterRecord", "tariff"}),
                Q("electricity.imports", "electricity", {"meterImport"})},
     mutations |->
        {Direct(h, {"meter"}, {"electricity"}) : h \in {"useCreateMeter", "useUpdateMeter"}}
        \cup {Direct("useDeleteMeter",
                     {"meter", "meterReading", "meterRecord", "tariff", "meterImport"},
                     {"electricity"})}
        \cup {Direct(h, {"meterReading", "meterRecord"}, {"electricity"}) :
            h \in {"useCreateMeterReading", "useUpdateMeterReading", "useDeleteMeterReading"}}]

Tariffs ==
    [views |-> {Q("electricity.tariffs", "electricity", {"tariff"})},
     mutations |->
        {Direct(h, {"tariff"}, {"electricity"}) :
            h \in {"useCreateMeterTariff", "useUpdateMeterTariff", "useDeleteMeterTariff"}}
        \cup {Direct("useUploadConsumptionImport", {"meterImport", "meterRecord"},
                     {"electricity"})}]

-----------------------------------------------------------------------------
\* What the agent has created (UNDO_HANDLERS): the same keys are invalidated
\* when the toast appears and when its undo has removed the entity.
AgentWrites ==
    {Direct("agent:task", {"task"}, {"tasks"}),
     Direct("agent:tree", {"tree"}, {"orchard"}),
     Direct("agent:tree_event", {"treeEvent"}, {"orchard"}),
     Direct("agent:harvest", {"harvest"}, {"orchard"}),
     Direct("agent:note", {"journal"}, {"interactions"}),
     Direct("agent:renovation", {"journal"}, {"interactions", "renovation", "zones"}),
     Direct("agent:meter_reading", {"meterReading", "meterRecord"}, {"electricity"}),
     Direct("agent:water_reading", {"waterReading"}, {"water"}),
     Direct("agent:tracker", {"tracker"}, {"trackers"}),
     Direct("agent:tracker_entry", {"tracker", "entry"}, {"trackers"}),
     Direct("agent:chicken", {"chicken"}, {"chickens"}),
     Direct("agent:chicken_chore", {"chore"}, {"chickens"}),
     Direct("agent:chicken_chore_done", {"chickenEvent"}, {"chickens", "alerts"}),
     Direct("agent:egg_log", {"egg"}, {"chickens"}),
     Direct("agent:stock_item", {"stock"}, {"stock"}),
     Direct("agent:stock_purchase", {"stock", "level", "journal"}, {"stock", "interactions"}),
     Direct("agent:budget", {"budget"}, {"budget"}),
     Direct("agent:recurring_expense", {"recurring"}, {"budget"}),
     Direct("agent:shopping_item", {"shopping"}, {"shopping"})}

-----------------------------------------------------------------------------
\* Settings: the profile (the tutorials ticked are in it), what is linked to it,
\* and the households.  An invitation is one row, seen by those who sent it or by
\* the one it is addressed to; members are those of the active household.
Profile ==
    [views |-> {Q("settings.me", "settings", {"user"}),
                Q("settings.telegram", "settings", {"telegramAccount"}),
                Q("settings.devices", "settings", {"deviceToken"})},
     mutations |->
        {Direct(h, {"user"}, {"settings.me"}) :
            h \in {"useUpdateProfile", "useUploadAvatar", "useDeleteAvatar"}}
        \cup {[Direct("useToggleTutorial", {"user"}, {"settings.me"}) EXCEPT !.on = "settled"],
              Direct("useUnlinkTelegram", {"telegramAccount"}, {"settings.telegram"})}
        \cup {Direct(h, {"deviceToken"}, {"settings.devices"}) :
            h \in {"useCreateDeviceToken", "useRevokeDeviceToken"}}]

Households ==
    [views |-> {Q("settings.households", "settings", {"household", "member"}),
                Q("households.list", "households", {"household", "member"}),
                Q("household-members.list", "household-members", {"member"})},
     mutations |->
        {Direct("useUpdateHousehold", {"household"},
                {"settings.households", "households.list"}),
         Direct("useCreateHousehold", {"household"}, {"settings.households"}),
         Direct("useArchiveHousehold", {"household"}, {"settings.households"}),
         Direct("useLeaveHousehold", {"member"}, {"settings.households"})}]

Invitations ==
    [views |-> {Q("settings.pendingInvitations", "settings", {"received"}),
                Q("settings.householdInvitations", "settings", {"sent"})},
     mutations |->
        {Direct("useInviteMember", {"sent"},
                {"settings.households", "settings.householdInvitations"}),
         Direct("useRevokeInvitation", {"sent"}, {"settings.householdInvitations"}),
         Direct("useAcceptInvitation", {"received", "member"},
                {"settings.pendingInvitations", "settings.households"}),
         Direct("useDeclineInvitation", {"received"}, {"settings.pendingInvitations"})}]

Briefings ==
    [views |-> {Q("briefings.list", "briefings", {"briefing"}),
                Q("briefings.history", "briefings", {"sendLog"})},
     mutations |-> {Direct(h, {"briefing"}, {"briefings.list"}) :
        h \in {"useCreateBriefing", "useUpdateBriefing", "useDeleteBriefing"}}]

\* The list of conversations (AgentChat.tla has their messages), the memory.
Conversations ==
    [views |-> {Q("agent.conversations", "agent", {"conversation"})},
     mutations |-> {Direct(h, {"conversation"}, {"agent.conversations"}) :
        h \in {"useCreateConversation", "usePostMessage", "useStreamMessage",
               "useRenameConversation", "useDeleteConversation"}}]

Memories ==
    [views |-> {Q("agent.memories", "agent", {"memory"})},
     mutations |-> {Direct(h, {"memory"}, {"agent.memories"}) :
        h \in {"useUpdateMemory", "useDeleteMemory", "useClearMemories",
               "useAgentMemoryEvents"}}]

\* The labels of the rooms; scanning one during a hunt is a move of the game.
ZoneLabels ==
    [views |-> {Q("zones.printSheet", "zones", {"zone", "label"})},
     mutations |-> {Direct("useRotateZoneQr", {"label"}, {"zones.printSheet"}),
                    Direct("useScanZoneToken", {"hunt"}, {})}]

-----------------------------------------------------------------------------
Files ==
    {TaskLinks, Interactions, Dashboard, Renovation, Equipment, StockReadings,
     Shopping, Documents, Photos, PhotoLinks, Insurance, Trackers, Directory,
     Water, Notifications, Games, BankAccounts, BankLines, BankSplits,
     BankLinks, Compliance, Expenses, RecurringHooks, Chores, OrchardCare,
     Meters, Tariffs,
     Profile, Households, Invitations, Briefings, Conversations, Memories,
     ZoneLabels}

HookViews ==
    UNION {f.views : f \in Files} \cup TaskViews \cup ProjectViews \cup AlertViews
    \cup StockViews \cup ZoneViews \cup BudgetViews \cup ChickenViews
    \cup OrchardViews \cup PlanViews

HookMutations ==
    UNION {f.mutations : f \in Files} \cup TaskMutations \cup ProjectMutations
    \cup StockMutations \cup ZoneMutations \cup BudgetMutations
    \cup ChickenMutations \cup OrchardMutations \cup BoardMutations
    \cup UsagePointMutations \cup AgentWrites
===============================================================================
