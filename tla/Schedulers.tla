----------------------------- MODULE Schedulers -----------------------------
(* The ticks of the two scheduler containers: send_due_pings               *)
(* (apps/pings/services.py) and send_due_briefings                         *)
(* (apps/briefings/scheduler.py).  A slot is what the unique constraint of *)
(* its log names: (household, user, ping type, local day) for a ping,      *)
(* (briefing, user, local day, time) for a briefing.  Ticks may overlap (a *)
(* deployment starts a second container, the command is run by hand), die  *)
(* between two steps, and lose the answer of a message that was delivered. *)
EXTENDS Naturals, FiniteSets

CONSTANTS
    Pings, Briefings,   \* the slots of each kind
    Ticks,              \* processes that may run a tick at the same time
    OpensAt,            \* [slot -> instant from which it is due]
    ClosesAt,           \* [slot -> instant from which its local day is over]
    Pushed,             \* slots whose recipient has a web push subscription
    LosesAnswers,       \* slots whose delivery may be reported as failed
    Horizon,            \* bound: instants of the clock
    MaxRefusals,        \* bound: deliveries reported as failed
    MaxFaults,          \* bound: exceptions and crashes
    MaxTurns,           \* bound: what users do
    NoSlot

Slots == Pings \cup Briefings

ASSUME SlotKinds == Pings \cap Briefings = {} /\ NoSlot \notin Slots
ASSUME SlotTimes ==
    /\ OpensAt \in [Slots -> Nat \ {0}]
    /\ ClosesAt \in [Slots -> Nat]
ASSUME SlotBounds == {Horizon, MaxRefusals, MaxFaults, MaxTurns} \subseteq Nat

VARIABLES
    now,        \* the instant the server clock shows
    wanted,     \* slots whose preference is enabled, or whose briefing is active
    linked,     \* slots whose recipient has a TelegramAccount
    quiet,      \* slots with nothing to say: data already entered, false condition
    log,        \* the row of PingLog or BriefingSendLog, "free" when there is none
    received,   \* how often the recipient got the message
    step,       \* where each tick is
    at,         \* the instant a tick took as now
    todo,       \* the rows its queryset returned and it has not reached
    slot,       \* the slot it works on
    refusals, faults, turns

userVars == <<wanted, linked, quiet, turns>>
tickVars == <<step, at, todo, slot>>
faultVars == <<refusals, faults>>
vars == <<now, userVars, log, received, tickVars, faultVars>>

Steps == {"idle", "pick", "claim", "judge", "send", "sent", "unsent"}

TypeOK ==
    /\ now \in 0 .. Horizon
    /\ wanted \subseteq Slots /\ linked \subseteq Slots /\ quiet \subseteq Slots
    /\ log \in [Slots -> {"free", "row", "error", "skipped", "sent"}]
    /\ received \in [Slots -> Nat]
    /\ step \in [Ticks -> Steps]
    /\ at \in [Ticks -> 0 .. Horizon]
    /\ todo \in [Ticks -> SUBSET Slots]
    /\ slot \in [Ticks -> Slots \cup {NoSlot}]
    /\ refusals \in 0 .. MaxRefusals
    /\ faults \in 0 .. MaxFaults /\ turns \in 0 .. MaxTurns

Init ==
    /\ now = 0
    /\ wanted = Slots /\ linked = Slots /\ quiet = {}
    /\ log = [s \in Slots |-> "free"]
    /\ received = [s \in Slots |-> 0]
    /\ step = [t \in Ticks |-> "idle"]
    /\ at = [t \in Ticks |-> 0]
    /\ todo = [t \in Ticks |-> {}]
    /\ slot = [t \in Ticks |-> NoSlot]
    /\ refusals = 0 /\ faults = 0 /\ turns = 0

-----------------------------------------------------------------------------
(* The world around the ticks. *)

\* Mutant of ClaimOf: a briefing is claimed with a status the model lacks.
ClaimOfPending(s) == IF s \in Briefings THEN "pending" ELSE "row"

\* What the get_or_create of the kind writes first: a bare PingLog row, or a
\* BriefingSendLog that says "error" until the work is done.
ClaimOf(s) == IF s \in Briefings THEN "error" ELSE "row"

Due(s, instant) == OpensAt[s] <= instant /\ instant < ClosesAt[s]

Refused ==
    /\ refusals < MaxRefusals /\ refusals' = refusals + 1
    /\ UNCHANGED faults

Fault ==
    /\ faults < MaxFaults /\ faults' = faults + 1
    /\ UNCHANGED refusals

Advance ==
    /\ now < Horizon
    /\ now' = now + 1
    /\ UNCHANGED <<userVars, log, received, tickVars, faultVars>>

\* The settings page, or "stop" sent to the bot: the preference flips.
ToggleWanted(s) ==
    /\ turns < MaxTurns
    /\ wanted' = IF s \in wanted THEN wanted \ {s} ELSE wanted \cup {s}
    /\ turns' = turns + 1
    /\ UNCHANGED <<now, linked, quiet, log, received, tickVars, faultVars>>

\* The recipient links the Telegram account, or removes it.
ToggleLinked(s) ==
    /\ turns < MaxTurns
    /\ linked' = IF s \in linked THEN linked \ {s} ELSE linked \cup {s}
    /\ turns' = turns + 1
    /\ UNCHANGED <<now, wanted, quiet, log, received, tickVars, faultVars>>

\* The day's eggs are entered by hand, the weather clears: nothing to say.
FallSilent(s) ==
    /\ turns < MaxTurns
    /\ s \notin quiet
    /\ quiet' = quiet \cup {s}
    /\ turns' = turns + 1
    /\ UNCHANGED <<now, wanted, linked, log, received, tickVars, faultVars>>

-----------------------------------------------------------------------------
(* One tick.  It reads the preferences once and then takes them one by one. *)

Start(t) ==
    /\ step[t] = "idle"
    /\ step' = [step EXCEPT ![t] = "pick"]
    /\ at' = [at EXCEPT ![t] = now]
    /\ todo' = [todo EXCEPT ![t] = wanted]
    /\ UNCHANGED <<now, userVars, log, received, slot, faultVars>>

Finish(t) ==
    /\ step[t] = "pick" /\ todo[t] = {}
    /\ step' = [step EXCEPT ![t] = "idle"]
    /\ at' = [at EXCEPT ![t] = 0]
    /\ UNCHANGED <<now, userVars, log, received, todo, slot, faultVars>>

\* Mutant of Eligible: the local time is not compared with send_at.
EligibleEarly(s, instant) ==
    /\ s \in Pings => log[s] = "free" /\ s \notin quiet
    /\ s \in Briefings => s \in linked

\* Mutant of Eligible: only the tick of the very instant sends.
EligibleOnTheDot(s, instant) ==
    /\ instant = OpensAt[s]
    /\ s \in Pings => log[s] = "free" /\ s \notin quiet
    /\ s \in Briefings => s \in linked

\* The early returns before the claim: not due, already logged, no text to send
\* (pings), no linked account (briefings).
Eligible(s, instant) ==
    /\ Due(s, instant)
    /\ s \in Pings => log[s] = "free" /\ s \notin quiet
    /\ s \in Briefings => s \in linked

Consider(t, s) ==
    /\ step[t] = "pick" /\ s \in todo[t]
    /\ todo' = [todo EXCEPT ![t] = @ \ {s}]
    /\ IF Eligible(s, at[t])
       THEN step' = [step EXCEPT ![t] = "claim"] /\ slot' = [slot EXCEPT ![t] = s]
       ELSE UNCHANGED <<step, slot>>
    /\ UNCHANGED <<now, userVars, log, received, at, faultVars>>

\* The tick turns to its next row, with the log left as told.
Leave(t, row) ==
    /\ step' = [step EXCEPT ![t] = "pick"]
    /\ slot' = [slot EXCEPT ![t] = NoSlot]
    /\ log' = row

\* Mutant of Created: the row is looked up and not required to be new.
CreatedOrNot(s) == s \in Slots

\* get_or_create under the unique constraint: one tick gets created = True.
Created(s) == log[s] = "free"

Claim(t) ==
    LET s == slot[t] IN
    /\ step[t] = "claim"
    /\ \/ /\ Created(s)
          /\ log' = [log EXCEPT ![s] = ClaimOf(s)]
          /\ step' = [step EXCEPT ![t] = IF s \in Briefings THEN "judge" ELSE "send"]
          /\ UNCHANGED slot
       \/ ~Created(s) /\ Leave(t, log)
    /\ UNCHANGED <<now, userVars, received, at, todo, faultVars>>

\* The condition of a briefing, evaluated after the claim: a false verdict is
\* recorded, so that it is not evaluated again today.
Judge(t) ==
    LET s == slot[t] IN
    /\ step[t] = "judge"
    /\ IF s \in quiet
       THEN Leave(t, [log EXCEPT ![s] = "skipped"])
       ELSE step' = [step EXCEPT ![t] = "send"] /\ UNCHANGED <<log, slot>>
    /\ UNCHANGED <<now, userVars, received, at, todo, faultVars>>

\* A briefing holds the account it read before its claim; a ping reads it now
\* and also knocks on the web push subscriptions.
Reachable(s) == s \in Briefings \/ s \in linked \/ s \in Pushed

Reach(s) == received' = [received EXCEPT ![s] = @ + 1]

\* The call to the channels.  It succeeds; or no channel takes the message; or
\* the message is taken and its answer does not come within the ten seconds of
\* the client, which reports what it reports of a refusal.
Send(t) ==
    LET s == slot[t] IN
    /\ step[t] = "send"
    /\ \/ /\ Reachable(s)
          /\ Reach(s)
          /\ step' = [step EXCEPT ![t] = "sent"]
          /\ UNCHANGED faultVars
       \/ /\ step' = [step EXCEPT ![t] = "unsent"]
          /\ UNCHANGED received
          /\ IF Reachable(s) THEN Refused ELSE UNCHANGED faultVars
       \/ /\ s \in LosesAnswers /\ Reachable(s)
          /\ Reach(s)
          /\ step' = [step EXCEPT ![t] = "unsent"]
          /\ Refused
    /\ UNCHANGED <<now, userVars, log, at, todo, slot>>

\* Mutant of AfterFailure: the claim of a ping outlives its failure.
AfterFailureKept(s) == [log EXCEPT ![s] = log[s]]

\* Mutant of AfterFailure: a failed briefing is released as a ping is.
AfterFailureFree(s) == [log EXCEPT ![s] = "free"]

\* Mutant of AfterFailure: the answer of the channel is not looked at.
AfterFailureSent(s) == [log EXCEPT ![s] = IF s \in Pings THEN "free" ELSE "sent"]

\* What a failed delivery leaves: a ping gives its claim back, to be tried by
\* the next tick; a briefing keeps its row in error and is done for the day.
AfterFailure(s) == [log EXCEPT ![s] = IF s \in Pings THEN "free" ELSE @]

Record(t) ==
    LET s == slot[t] IN
    /\ \/ /\ step[t] = "sent"
          /\ Leave(t, [log EXCEPT ![s] = IF s \in Briefings THEN "sent" ELSE @])
       \/ /\ step[t] = "unsent"
          /\ Leave(t, AfterFailure(s))
    /\ UNCHANGED <<now, userVars, received, at, todo, faultVars>>

\* An exception under one row (the database, the model of the briefing, the
\* turn persisted after a delivery): caught, and the tick goes on.  Whatever
\* claim was made stays.
Raise(t) ==
    /\ slot[t] # NoSlot
    /\ Fault
    /\ Leave(t, log)
    /\ UNCHANGED <<now, userVars, received, at, todo>>

\* The container is stopped or killed.
Crash(t) ==
    /\ step[t] # "idle"
    /\ Fault
    /\ step' = [step EXCEPT ![t] = "idle"]
    /\ slot' = [slot EXCEPT ![t] = NoSlot]
    /\ todo' = [todo EXCEPT ![t] = {}]
    /\ at' = [at EXCEPT ![t] = 0]
    /\ UNCHANGED <<now, userVars, log, received>>

-----------------------------------------------------------------------------
UserNext == \E s \in Slots : ToggleWanted(s) \/ ToggleLinked(s) \/ FallSilent(s)

TickNext(t) ==
    \/ Start(t) \/ Finish(t) \/ Claim(t) \/ Judge(t) \/ Send(t) \/ Record(t)
    \/ \E s \in Slots : Consider(t, s)

Next ==
    \/ Advance \/ UserNext
    \/ \E t \in Ticks : TickNext(t) \/ Raise(t) \/ Crash(t)

Spec == Init /\ [][Next]_vars

\* The command loops for ever: a tick that is running goes on, and one that is
\* over (or dead: the container restarts) is followed by another.  Neither the
\* clock, nor a user, nor a fault is owed.
FairSpec == Spec /\ \A t \in Ticks : WF_vars(TickNext(t))

-----------------------------------------------------------------------------
(* Properties. *)

Holds(t, s) == slot[t] = s /\ step[t] \in {"judge", "send", "sent", "unsent"}

\* A slot nobody will take up again: its row stands and its tick is gone.
GivenUp == {s \in Slots : /\ log[s] # "free" /\ received[s] = 0
                          /\ \A t \in Ticks : ~Holds(t, s)}

\* The ticks keep the promise of SlotPromise: a message goes out in its time,
\* once, and never after its slot was written off (the contract in the headers
\* of services.py and scheduler.py).
Promise == INSTANCE SlotPromise WITH
    open <- {s \in Slots : OpensAt[s] <= now},
    given <- received,
    forgone <- GivenUp

Promised == Promise!Spec

\* Nobody hears the same ping or the same briefing twice, across overlapping
\* ticks, retries and crashes ("jamais de doublon", docs/MODULES/pings.md).
NeverTwice == \A s \in Slots : received[s] <= 1

\* Only one tick works on a slot, and the slot is claimed while it does: the
\* row released after a failure is the row of the tick that releases it.
OneOwner ==
    \A t \in Ticks, s \in Slots : Holds(t, s) =>
        /\ log[s] = ClaimOf(s)
        /\ \A u \in Ticks \ {t} : ~Holds(u, s)

\* What the history of a briefing shows is what happened: a slot recorded as
\* sent reached its recipient and one skipped by its condition did not.
HistoryIsTrue ==
    \A s \in Briefings : /\ log[s] = "sent" => received[s] = 1
                         /\ log[s] = "skipped" => received[s] = 0

\* A slot that is due, asked for, reachable and has something to say, whose
\* attempt nobody wasted, and whose recipient still waits.
Waiting(s) ==
    /\ Due(s, now) /\ s \in wanted /\ s \notin quiet
    /\ s \in linked \/ s \in Pushed
    /\ received[s] = 0 /\ s \notin GivenUp

\* Catch-up: no slot waits for ever.  A tick that was missed, lost the race or
\* failed to deliver is made up for by a later one (services.py, "catch-up").
CaughtUp == \A s \in Slots : []<>~Waiting(s)

\* Retry: a delivery that failed, however often, costs a ping time and never
\* the day; only an exception or a crash under its claim does ("A total delivery
\* failure releases the claim so the next tick retries", services.py).
PingsAreRetried == faults = 0 => GivenUp \cap Pings = {}

\* Not so with faults: in the instance of slots.cfg the claim of a crashed tick
\* silences its ping for the day.
NoPingGivenUp == GivenUp \cap Pings = {}
=============================================================================
