------------------------------ MODULE SlotProofs ------------------------------
(* Whatever the number of ticks, of slots and of faults: a slot is claimed by *)
(* one tick, the history of a briefing is true, refusals give no ping up, and *)
(* when no answer of a ping is lost the scheduler containers keep the promise *)
(* of SlotPromise.                                                            *)
EXTENDS Schedulers, TLAPS

\* What the promise assumes of the world: a ping that is reported undelivered
\* was not delivered.  (Configuration ping_twice shows why it is needed.)
PingsAnswer == LosesAnswers \cap Pings = {}

\* The slots that are never delivered by an attempt reported as failed and then
\* tried again: briefings, which are not retried, and pings that are answered.
Answered == Slots \ (LosesAnswers \cap Pings)

Working == \A t \in Ticks :
    IF step[t] \in {"idle", "pick"} THEN slot[t] = NoSlot ELSE slot[t] \in Slots

InTime == \A t \in Ticks :
    /\ at[t] <= now
    /\ slot[t] # NoSlot => OpensAt[slot[t]] <= now

\* A tick that has not called the channels holds a slot nobody heard of; one
\* that failed holds a ping nobody heard of.
Counted == \A t \in Ticks :
    /\ step[t] = "judge" => slot[t] \in Briefings
    /\ step[t] \in {"judge", "send"} /\ slot[t] \in Answered => received[slot[t]] = 0
    /\ step[t] = "sent" =>
         received[slot[t]] # 0 /\ (slot[t] \in Answered => received[slot[t]] = 1)
    /\ step[t] = "unsent" /\ slot[t] \in Pings \cap Answered => received[slot[t]] = 0

FreeMeansUnsent == \A s \in Answered : log[s] = "free" => received[s] = 0

AnsweredOnce == \A s \in Answered : received[s] <= 1

SlotInv ==
    /\ TypeOK /\ Working /\ InTime /\ OneOwner /\ Counted
    /\ FreeMeansUnsent /\ AnsweredOnce /\ HistoryIsTrue /\ PingsAreRetried

LEMMA SlotFacts ==
    /\ NoSlot \notin Slots
    /\ \A s \in Slots : OpensAt[s] \in Nat \ {0}
    /\ \A s \in Briefings : s \in Slots /\ s \notin Pings /\ s \in Answered
    /\ Answered \subseteq Slots /\ (PingsAnswer => Answered = Slots)
    /\ Horizon \in Nat /\ MaxRefusals \in Nat /\ MaxFaults \in Nat /\ MaxTurns \in Nat
  BY SlotKinds, SlotTimes, SlotBounds DEF Slots, Answered, PingsAnswer

LEMMA SlotInit ==
    ASSUME Init PROVE SlotInv
<1>1. TypeOK
  BY SlotFacts DEF Init, TypeOK, Steps
<1>2. Working /\ InTime
  BY SlotFacts DEF Init, Working, InTime
<1>3. OneOwner /\ Counted /\ FreeMeansUnsent
  BY SlotFacts DEF Init, OneOwner, Holds, Counted, FreeMeansUnsent
<1>4. AnsweredOnce /\ HistoryIsTrue /\ PingsAreRetried
  BY SlotFacts DEF Init, AnsweredOnce, HistoryIsTrue, PingsAreRetried, GivenUp, Slots
<1> QED
  BY <1>1, <1>2, <1>3, <1>4 DEF SlotInv

\* Steps that touch no slot in work: the clock, the users, a tick that starts,
\* ends or passes over a row.
LEMMA IdleSteps ==
    ASSUME SlotInv, TypeOK',
           UNCHANGED <<log, received, slot>>, faults' = 0 => faults = 0,
           \A t \in Ticks : at'[t] <= now',
           now <= now',
           \A t \in Ticks : \/ step'[t] = step[t]
                            \/ step[t] \in {"idle", "pick"} /\ step'[t] \in {"idle", "pick"}
    PROVE  SlotInv' /\ GivenUp' = GivenUp
<1>1. Working'
  BY DEF SlotInv, Working
<1>2. \A t \in Ticks, s \in Slots : Holds(t, s)' <=> Holds(t, s)
  BY DEF Holds
<1>3. InTime'
  <2> SUFFICES ASSUME NEW t \in Ticks, slot'[t] # NoSlot
               PROVE  OpensAt[slot'[t]] <= now'
    BY DEF InTime
  <2>1. slot[t] \in Slots /\ OpensAt[slot[t]] <= now
    BY DEF SlotInv, Working, InTime
  <2>2. now \in Nat /\ now' \in Nat
    BY SlotFacts DEF SlotInv, TypeOK
  <2> QED
    BY <2>1, <2>2, SlotFacts
<1>4. OneOwner' /\ Counted'
  BY <1>2 DEF SlotInv, OneOwner, Counted
<1>5. FreeMeansUnsent' /\ AnsweredOnce' /\ HistoryIsTrue'
  BY DEF SlotInv, FreeMeansUnsent, AnsweredOnce, HistoryIsTrue
<1>6. GivenUp' = GivenUp
  BY <1>2 DEF GivenUp
<1> QED
  BY <1>1, <1>3, <1>4, <1>5, <1>6 DEF SlotInv, PingsAreRetried

LEMMA WorldStep ==
    ASSUME SlotInv, Advance \/ UserNext
    PROVE  SlotInv' /\ GivenUp' = GivenUp
<1>1. TypeOK'
  BY SlotFacts
  DEF SlotInv, TypeOK, Advance, UserNext, ToggleWanted, ToggleLinked, FallSilent,
      userVars, tickVars, faultVars
<1>2. UNCHANGED <<log, received, slot, faults, step, at>> /\ now <= now'
  BY SlotFacts
  DEF SlotInv, TypeOK, Advance, UserNext, ToggleWanted, ToggleLinked, FallSilent,
      userVars, tickVars, faultVars
<1>3. \A t \in Ticks : at'[t] <= now'
  BY <1>1, <1>2, SlotFacts DEF SlotInv, InTime, TypeOK
<1> QED
  BY <1>1, <1>2, <1>3, IdleSteps

LEMMA StartStep ==
    ASSUME SlotInv, NEW t \in Ticks, Start(t) \/ Finish(t)
    PROVE  SlotInv' /\ GivenUp' = GivenUp
<1>1. TypeOK'
  BY SlotFacts
  DEF SlotInv, TypeOK, Start, Finish, userVars, faultVars, Steps
<1>2. UNCHANGED <<log, received, slot, faults>> /\ now' = now /\ now \in Nat
  BY SlotFacts DEF SlotInv, TypeOK, Start, Finish, userVars, faultVars
<1>3. \A u \in Ticks : at'[u] <= now'
  BY <1>2, SlotFacts DEF SlotInv, InTime, TypeOK, Start, Finish
<1>4. \A u \in Ticks : \/ step'[u] = step[u]
                       \/ step[u] \in {"idle", "pick"} /\ step'[u] \in {"idle", "pick"}
  BY DEF SlotInv, TypeOK, Start, Finish
<1>5. now <= now'
  BY <1>2
<1> QED
  BY <1>1, <1>2, <1>3, <1>4, <1>5, IdleSteps

\* What the rows of a step share: a tick's own steps leave the clock and the
\* users alone, and only its own program counter moves.
LEMMA OwnSteps ==
    ASSUME SlotInv, NEW t \in Ticks,
           step' = [step EXCEPT ![t] = step'[t]], step'[t] \in Steps,
           slot' = [slot EXCEPT ![t] = slot'[t]],
           step'[t] \in {"idle", "pick"} => slot'[t] = NoSlot,
           step'[t] \notin {"idle", "pick"} => slot'[t] \in Slots /\ OpensAt[slot'[t]] <= now,
           UNCHANGED <<now, at>>
    PROVE  /\ step' \in [Ticks -> Steps] /\ slot' \in [Ticks -> Slots \cup {NoSlot}]
           /\ Working' /\ InTime'
           /\ \A u \in Ticks : u # t => step'[u] = step[u] /\ slot'[u] = slot[u]
<1>1. step \in [Ticks -> Steps] /\ slot \in [Ticks -> Slots \cup {NoSlot}]
  BY DEF SlotInv, TypeOK
<1>2. /\ step' \in [Ticks -> Steps] /\ slot' \in [Ticks -> Slots \cup {NoSlot}]
      /\ \A u \in Ticks : u # t => step'[u] = step[u] /\ slot'[u] = slot[u]
  BY <1>1
<1>3. Working'
  BY <1>1, <1>2, SlotFacts DEF SlotInv, Working
<1>4. InTime'
  <2> SUFFICES ASSUME NEW u \in Ticks
               PROVE  at'[u] <= now' /\ (slot'[u] # NoSlot => OpensAt[slot'[u]] <= now')
    BY DEF InTime
  <2>1. CASE u = t
    BY <2>1, <1>1, SlotFacts DEF SlotInv, InTime
  <2>2. CASE u # t
    BY <2>2, <1>2 DEF SlotInv, InTime
  <2> QED BY <2>1, <2>2
<1> QED
  BY <1>2, <1>3, <1>4

LEMMA ConsiderStep ==
    ASSUME SlotInv, NEW t \in Ticks, NEW s \in Slots, Consider(t, s)
    PROVE  SlotInv' /\ GivenUp' = GivenUp
<1>1. /\ step[t] = "pick" /\ slot[t] = NoSlot
      /\ UNCHANGED <<now, wanted, linked, quiet, turns, log, received, at, refusals, faults>>
      /\ todo' = [todo EXCEPT ![t] = todo[t] \ {s}]
  BY DEF SlotInv, Working, Consider, userVars, faultVars
<1>2. \/ UNCHANGED <<step, slot>>
      \/ /\ step' = [step EXCEPT ![t] = "claim"] /\ slot' = [slot EXCEPT ![t] = s]
         /\ OpensAt[s] <= at[t]
  BY DEF Consider, Eligible, Due
<1>3. at[t] \in Nat /\ now \in Nat /\ at[t] <= now
  BY SlotFacts DEF SlotInv, TypeOK, InTime
<1>4. /\ step' \in [Ticks -> Steps] /\ slot' \in [Ticks -> Slots \cup {NoSlot}]
      /\ Working' /\ InTime'
  <2>1. CASE UNCHANGED <<step, slot>>
    BY <2>1, <1>1 DEF SlotInv, TypeOK, Working, InTime
  <2>2. CASE ~UNCHANGED <<step, slot>>
    <3>1. /\ step' = [step EXCEPT ![t] = "claim"] /\ slot' = [slot EXCEPT ![t] = s]
          /\ OpensAt[s] <= now
      BY <2>2, <1>2, <1>3, SlotFacts
    <3>2. step'[t] = "claim" /\ slot'[t] = s
      BY <3>1 DEF SlotInv, TypeOK
    <3> QED
      BY <3>1, <3>2, <1>1, OwnSteps DEF Steps
  <2> QED BY <2>1, <2>2
<1>5. TypeOK'
  <2>1. todo' \in [Ticks -> SUBSET Slots]
    BY <1>1 DEF SlotInv, TypeOK
  <2> QED BY <2>1, <1>1, <1>4 DEF SlotInv, TypeOK
<1>6. \A u \in Ticks, v \in Slots : Holds(u, v)' <=> Holds(u, v)
  BY <1>1, <1>2, <1>4 DEF SlotInv, TypeOK, Holds
<1>7. OneOwner' /\ Counted'
  <2>1. OneOwner'
    BY <1>1, <1>6 DEF SlotInv, OneOwner
  <2>2. Counted'
    BY <1>1, <1>2, <1>4 DEF SlotInv, TypeOK, Counted
  <2> QED BY <2>1, <2>2
<1>8. FreeMeansUnsent' /\ AnsweredOnce' /\ HistoryIsTrue'
  BY <1>1 DEF SlotInv, FreeMeansUnsent, AnsweredOnce, HistoryIsTrue
<1>9. GivenUp' = GivenUp
  BY <1>1, <1>6 DEF GivenUp
<1> QED
  BY <1>1, <1>4, <1>5, <1>7, <1>8, <1>9 DEF SlotInv, PingsAreRetried

LEMMA ClaimStep ==
    ASSUME SlotInv, NEW t \in Ticks, Claim(t)
    PROVE  SlotInv' /\ GivenUp' = GivenUp
<1>0. slot[t] \in Slots
  BY DEF SlotInv, Working, Claim
<1> PICK s \in Slots : s = slot[t]
  BY <1>0
<1>1. /\ step[t] = "claim" /\ s = slot[t] /\ OpensAt[s] <= now
      /\ UNCHANGED <<now, wanted, linked, quiet, turns, received, at, todo, refusals, faults>>
  BY SlotFacts DEF SlotInv, Working, InTime, Claim, userVars, faultVars
<1>2. CASE ~Created(s) /\ Leave(t, log)
  <2>1. /\ step' = [step EXCEPT ![t] = "pick"] /\ slot' = [slot EXCEPT ![t] = NoSlot]
        /\ log' = log
    BY <1>2 DEF Leave
  <2>2. step'[t] = "pick" /\ slot'[t] = NoSlot
    BY <2>1 DEF SlotInv, TypeOK
  <2>3. /\ step' \in [Ticks -> Steps] /\ slot' \in [Ticks -> Slots \cup {NoSlot}]
        /\ Working' /\ InTime'
        /\ \A u \in Ticks : u # t => step'[u] = step[u] /\ slot'[u] = slot[u]
    BY <2>1, <2>2, <1>1, OwnSteps DEF Steps
  <2>4. TypeOK'
    BY <1>1, <2>1, <2>3 DEF SlotInv, TypeOK
  <2>5. \A u \in Ticks, v \in Slots : Holds(u, v)' <=> Holds(u, v)
    BY <1>1, <2>2, <2>3 DEF Holds
  <2>6. OneOwner'
    BY <2>1, <2>5 DEF SlotInv, OneOwner
  <2>7. Counted'
    BY <1>1, <2>2, <2>3 DEF SlotInv, Counted
  <2>8. FreeMeansUnsent' /\ AnsweredOnce' /\ HistoryIsTrue'
    BY <1>1, <2>1 DEF SlotInv, FreeMeansUnsent, AnsweredOnce, HistoryIsTrue
  <2>9. GivenUp' = GivenUp
    BY <1>1, <2>1, <2>5 DEF GivenUp
  <2> QED
    BY <1>1, <2>3, <2>4, <2>6, <2>7, <2>8, <2>9 DEF SlotInv, PingsAreRetried
<1>3. CASE /\ Created(s)
           /\ log' = [log EXCEPT ![s] = ClaimOf(s)]
           /\ step' = [step EXCEPT ![t] = IF s \in Briefings THEN "judge" ELSE "send"]
           /\ UNCHANGED slot
  <2> DEFINE next == IF s \in Briefings THEN "judge" ELSE "send"
  <2>1. /\ log[s] = "free" /\ log' = [log EXCEPT ![s] = ClaimOf(s)]
        /\ step' = [step EXCEPT ![t] = next] /\ slot' = slot
    BY <1>3 DEF Created
  <2>2. /\ step'[t] = next /\ slot'[t] = s /\ slot' = [slot EXCEPT ![t] = s]
        /\ next \in Steps \ {"idle", "pick"}
    BY <1>1, <2>1 DEF SlotInv, TypeOK, Steps
  <2>3. /\ step' \in [Ticks -> Steps] /\ slot' \in [Ticks -> Slots \cup {NoSlot}]
        /\ Working' /\ InTime'
        /\ \A u \in Ticks : u # t => step'[u] = step[u] /\ slot'[u] = slot[u]
    <3> HIDE DEF next
    <3> QED BY <2>1, <2>2, <1>1, OwnSteps
  <2>4. log' \in [Slots -> {"free", "row", "error", "skipped", "sent"}]
    BY <2>1 DEF SlotInv, TypeOK, ClaimOf
  <2>5. TypeOK'
    BY <1>1, <2>3, <2>4 DEF SlotInv, TypeOK
  <2>6. /\ log'[s] = ClaimOf(s)
        /\ \A v \in Slots : v # s => log'[v] = log[v]
        /\ ClaimOf(s) \in {"row", "error"}
    BY <1>1, <2>1 DEF SlotInv, TypeOK, ClaimOf
  <2>7. \A u \in Ticks : ~Holds(u, s)
    BY <1>1, <2>1 DEF SlotInv, OneOwner, ClaimOf
  <2>8. \A u \in Ticks, v \in Slots : v # s => (Holds(u, v)' <=> Holds(u, v))
    BY <1>1, <2>2, <2>3 DEF Holds
  <2>9. \A u \in Ticks : Holds(u, s)' <=> u = t
    BY <1>1, <2>2, <2>3, <2>7 DEF Holds
  <2>10. OneOwner'
    <3> SUFFICES ASSUME NEW u \in Ticks, NEW v \in Slots, Holds(u, v)'
                 PROVE  /\ log'[v] = ClaimOf(v)
                        /\ \A w \in Ticks \ {u} : ~Holds(w, v)'
      BY DEF OneOwner, ClaimOf
    <3>1. CASE v = s
      BY <3>1, <2>6, <2>9
    <3>2. CASE v # s
      BY <3>2, <2>6, <2>8 DEF SlotInv, OneOwner
    <3> QED BY <3>1, <3>2
  <2>11. s \in Answered => received[s] = 0
    BY <1>1, <2>1 DEF SlotInv, FreeMeansUnsent
  <2>12. Counted'
    BY <1>1, <2>2, <2>3, <2>11 DEF SlotInv, Counted
  <2>13. FreeMeansUnsent' /\ AnsweredOnce' /\ HistoryIsTrue'
    BY <1>1, <2>6, SlotFacts DEF SlotInv, FreeMeansUnsent, AnsweredOnce, HistoryIsTrue
  <2>14. GivenUp' = GivenUp
    BY <1>1, <2>1, <2>6, <2>8, <2>9 DEF GivenUp
  <2> QED
    BY <1>1, <2>3, <2>5, <2>10, <2>12, <2>13, <2>14 DEF SlotInv, PingsAreRetried
<1> QED
  BY <1>1, <1>2, <1>3 DEF Claim

\* A tick lets go of its slot: whatever it leaves in the log is true.
LEMMA LetGo ==
    ASSUME SlotInv, TypeOK', NEW t \in Ticks, NEW s \in Slots, s = slot[t],
           NEW x \in {"idle", "pick"},
           step' = [step EXCEPT ![t] = x], slot' = [slot EXCEPT ![t] = NoSlot],
           UNCHANGED <<now, received>>, \A u \in Ticks : at'[u] <= now',
           \A v \in Slots : v # s => log'[v] = log[v],
           log'[s] # log[s] =>
               /\ Holds(t, s)
               /\ log'[s] = "free" /\ s \in Answered => received[s] = 0
               /\ s \in Briefings /\ log'[s] = "sent" => received[s] = 1
               /\ s \in Briefings /\ log'[s] = "skipped" => received[s] = 0,
           faults' = 0 => /\ faults = 0
                          /\ s \in Pings => log'[s] = "free" \/ received[s] # 0
    PROVE  /\ SlotInv'
           /\ GivenUp' = IF Holds(t, s) /\ log'[s] # "free" /\ received[s] = 0
                         THEN GivenUp \cup {s} ELSE GivenUp
<1>1. /\ step'[t] = x /\ slot'[t] = NoSlot
      /\ \A u \in Ticks : u # t => step'[u] = step[u] /\ slot'[u] = slot[u]
  BY DEF SlotInv, TypeOK
<1>2. Working' /\ InTime'
  BY <1>1, SlotFacts DEF SlotInv, Working, InTime
<1>3. /\ \A u \in Ticks, v \in Slots : u # t => (Holds(u, v)' <=> Holds(u, v))
      /\ \A v \in Slots : ~Holds(t, v)'
  BY <1>1, SlotFacts DEF Holds
<1>4. ASSUME Holds(t, s)
      PROVE  /\ log[s] = ClaimOf(s) /\ log[s] # "free"
             /\ \A u \in Ticks \ {t} : ~Holds(u, s)
  BY <1>4 DEF SlotInv, OneOwner, ClaimOf
<1>5. OneOwner'
  <2> SUFFICES ASSUME NEW u \in Ticks, NEW v \in Slots, Holds(u, v)'
               PROVE  /\ log'[v] = ClaimOf(v)
                      /\ \A w \in Ticks \ {u} : ~Holds(w, v)'
    BY DEF OneOwner, ClaimOf
  <2>1. u # t /\ Holds(u, v)
    BY <1>3
  <2>2. log'[v] = log[v]
    BY <2>1, <1>4
  <2> QED
    BY <2>1, <2>2, <1>3 DEF SlotInv, OneOwner
<1>6. Counted'
  BY <1>1 DEF SlotInv, Counted
<1>7. FreeMeansUnsent' /\ AnsweredOnce'
  BY SlotFacts DEF SlotInv, FreeMeansUnsent, AnsweredOnce
<1>8. HistoryIsTrue'
  BY SlotFacts DEF SlotInv, HistoryIsTrue
<1>9. GivenUp' = IF Holds(t, s) /\ log'[s] # "free" /\ received[s] = 0
                 THEN GivenUp \cup {s} ELSE GivenUp
  <2>1. \A v \in Slots : v # s => (v \in GivenUp' <=> v \in GivenUp)
    <3> SUFFICES ASSUME NEW v \in Slots, v # s
                 PROVE  v \in GivenUp' <=> v \in GivenUp
      OBVIOUS
    <3>1. ~Holds(t, v)
      BY DEF Holds
    <3> QED BY <3>1, <1>3 DEF GivenUp
  <2>2. CASE Holds(t, s)
    BY <2>1, <2>2, <1>3, <1>4 DEF GivenUp
  <2>3. CASE ~Holds(t, s)
    <3>1. s \in GivenUp' <=> s \in GivenUp
      BY <2>3, <1>3 DEF GivenUp
    <3> QED BY <3>1, <2>1, <2>3 DEF GivenUp
  <2> QED BY <2>2, <2>3
<1>10. PingsAreRetried'
  BY <1>9 DEF SlotInv, PingsAreRetried
<1> QED
  BY <1>2, <1>5, <1>6, <1>7, <1>8, <1>9, <1>10 DEF SlotInv

LEMMA JudgeStep ==
    ASSUME SlotInv, NEW t \in Ticks, Judge(t)
    PROVE  /\ SlotInv' /\ UNCHANGED <<now, received>>
           /\ \/ GivenUp' = GivenUp
              \/ \E s \in Slots : /\ GivenUp' = GivenUp \cup {s} /\ s \notin GivenUp
                                  /\ OpensAt[s] <= now /\ received[s] = 0
<1>0. slot[t] \in Slots
  BY DEF SlotInv, Working, Judge
<1> PICK s \in Slots : s = slot[t]
  BY <1>0
<1>1. /\ step[t] = "judge" /\ s \in Briefings /\ s \notin Pings /\ received[s] = 0
      /\ OpensAt[s] <= now /\ Holds(t, s)
      /\ UNCHANGED <<now, wanted, linked, quiet, turns, received, at, todo, refusals, faults>>
  BY SlotFacts DEF SlotInv, InTime, Counted, Judge, userVars, faultVars, Holds
<1>2. s \notin GivenUp
  BY <1>1 DEF GivenUp
<1>3. CASE s \in quiet
  <2>1. /\ step' = [step EXCEPT ![t] = "pick"] /\ slot' = [slot EXCEPT ![t] = NoSlot]
        /\ log' = [log EXCEPT ![s] = "skipped"]
    BY <1>3 DEF Judge, Leave
  <2>2. TypeOK'
    BY <1>1, <2>1 DEF SlotInv, TypeOK, Steps
  <2>3. log'[s] = "skipped" /\ \A v \in Slots : v # s => log'[v] = log[v]
    BY <2>1 DEF SlotInv, TypeOK
  <2>4. \A u \in Ticks : at'[u] <= now'
    BY <1>1 DEF SlotInv, InTime
  <2>5. SlotInv' /\ GivenUp' = GivenUp \cup {s}
    BY <1>1, <2>1, <2>2, <2>3, <2>4, LetGo
  <2> QED
    BY <1>1, <1>2, <2>5
<1>4. CASE s \notin quiet
  <2>1. /\ step' = [step EXCEPT ![t] = "send"] /\ slot' = slot /\ log' = log
    BY <1>4 DEF Judge
  <2>2. /\ step'[t] = "send" /\ slot' = [slot EXCEPT ![t] = s]
        /\ \A u \in Ticks : u # t => step'[u] = step[u]
    BY <2>1 DEF SlotInv, TypeOK
  <2>3. TypeOK'
    BY <1>1, <2>1 DEF SlotInv, TypeOK, Steps
  <2>4. Working' /\ InTime'
    BY <1>0, <1>1, <2>1, <2>2 DEF SlotInv, Working, InTime
  <2>5. \A u \in Ticks, v \in Slots : Holds(u, v)' <=> Holds(u, v)
    BY <1>1, <2>1, <2>2 DEF Holds
  <2>6. OneOwner'
    BY <2>1, <2>5 DEF SlotInv, OneOwner
  <2>7. Counted'
    BY <1>1, <2>1, <2>2 DEF SlotInv, Counted
  <2>8. FreeMeansUnsent' /\ AnsweredOnce' /\ HistoryIsTrue'
    BY <1>1, <2>1 DEF SlotInv, FreeMeansUnsent, AnsweredOnce, HistoryIsTrue
  <2>9. GivenUp' = GivenUp
    BY <1>1, <2>1, <2>5 DEF GivenUp
  <2> QED
    BY <1>1, <2>3, <2>4, <2>6, <2>7, <2>8, <2>9 DEF SlotInv, PingsAreRetried
<1> QED
  BY <1>3, <1>4

LEMMA RecordStep ==
    ASSUME SlotInv, NEW t \in Ticks, Record(t)
    PROVE  /\ SlotInv' /\ UNCHANGED <<now, received>>
           /\ \/ GivenUp' = GivenUp
              \/ \E s \in Slots : /\ GivenUp' = GivenUp \cup {s} /\ s \notin GivenUp
                                  /\ OpensAt[s] <= now /\ received[s] = 0
<1>0. slot[t] \in Slots
  BY DEF SlotInv, Working, Record
<1> PICK s \in Slots : s = slot[t]
  BY <1>0
<1>1. /\ step[t] \in {"sent", "unsent"} /\ OpensAt[s] <= now /\ Holds(t, s)
      /\ step[t] = "sent" => received[s] # 0 /\ (s \in Answered => received[s] = 1)
      /\ step[t] = "unsent" /\ s \in Pings \cap Answered => received[s] = 0
      /\ UNCHANGED <<now, wanted, linked, quiet, turns, received, at, todo, refusals, faults>>
  BY SlotFacts DEF SlotInv, InTime, Counted, Record, userVars, faultVars, Holds
<1>2. s \notin GivenUp
  BY <1>1 DEF GivenUp
<1>3. log[s] = ClaimOf(s)
  BY <1>1 DEF SlotInv, OneOwner
<1> DEFINE left == IF step[t] = "sent"
                   THEN IF s \in Briefings THEN "sent" ELSE log[s]
                   ELSE IF s \in Pings THEN "free" ELSE log[s]
<1>4. /\ step' = [step EXCEPT ![t] = "pick"] /\ slot' = [slot EXCEPT ![t] = NoSlot]
      /\ log' = [log EXCEPT ![s] = left]
  BY <1>1 DEF Record, Leave, AfterFailure
<1>5. left \in {"free", "row", "error", "skipped", "sent"}
  BY DEF SlotInv, TypeOK
<1>6. /\ log' \in [Slots -> {"free", "row", "error", "skipped", "sent"}]
      /\ log'[s] = left /\ \A v \in Slots : v # s => log'[v] = log[v]
  BY <1>4, <1>5 DEF SlotInv, TypeOK
<1>7. TypeOK'
  BY <1>1, <1>4, <1>6 DEF SlotInv, TypeOK, Steps
<1>8. \A u \in Ticks : at'[u] <= now'
  BY <1>1 DEF SlotInv, InTime
<1>9. /\ left = "free" /\ s \in Answered => received[s] = 0
      /\ s \in Briefings /\ left = "sent" => received[s] = 1
      /\ s \in Briefings => left # "skipped"
      /\ s \in Pings => left = "free" \/ received[s] # 0
  BY <1>1, <1>3, SlotFacts DEF ClaimOf
<1>10. /\ SlotInv'
       /\ GivenUp' = IF Holds(t, s) /\ log'[s] # "free" /\ received[s] = 0
                     THEN GivenUp \cup {s} ELSE GivenUp
  <2>1. /\ log'[s] # log[s] =>
             /\ Holds(t, s)
             /\ log'[s] = "free" /\ s \in Answered => received[s] = 0
             /\ s \in Briefings /\ log'[s] = "sent" => received[s] = 1
             /\ s \in Briefings /\ log'[s] = "skipped" => received[s] = 0
        /\ faults' = 0 => /\ faults = 0
                          /\ s \in Pings => log'[s] = "free" \/ received[s] # 0
    <3> HIDE DEF left
    <3> QED BY <1>1, <1>6, <1>9
  <2>2. UNCHANGED <<now, received>> /\ "pick" \in {"idle", "pick"}
    BY <1>1
  <2>3. /\ step' = [step EXCEPT ![t] = "pick"] /\ slot' = [slot EXCEPT ![t] = NoSlot]
        /\ \A v \in Slots : v # s => log'[v] = log[v]
    BY <1>4, <1>6
  <2> HIDE DEF left
  <2> QED BY <1>7, <1>8, <2>1, <2>2, <2>3, LetGo
<1> QED
  BY <1>1, <1>2, <1>10

LEMMA FaultStep ==
    ASSUME SlotInv, NEW t \in Ticks, Raise(t) \/ Crash(t)
    PROVE  /\ SlotInv' /\ UNCHANGED <<now, received>>
           /\ \/ GivenUp' = GivenUp
              \/ \E s \in Slots : /\ GivenUp' = GivenUp \cup {s} /\ s \notin GivenUp
                                  /\ OpensAt[s] <= now /\ received[s] = 0
<1>1. PICK x \in {"idle", "pick"} :
      /\ step' = [step EXCEPT ![t] = x] /\ slot' = [slot EXCEPT ![t] = NoSlot]
      /\ UNCHANGED <<now, wanted, linked, quiet, turns, log, received, refusals>>
      /\ faults < MaxFaults /\ faults' = faults + 1
      /\ todo' = todo \/ todo' = [todo EXCEPT ![t] = {}]
      /\ at' = at \/ at' = [at EXCEPT ![t] = 0]
      /\ x = "pick" => slot[t] # NoSlot
  <2>1. CASE Raise(t)
    <3>1. /\ step' = [step EXCEPT ![t] = "pick"] /\ slot' = [slot EXCEPT ![t] = NoSlot]
          /\ UNCHANGED <<now, wanted, linked, quiet, turns, log, received, refusals>>
          /\ faults < MaxFaults /\ faults' = faults + 1
          /\ todo' = todo /\ at' = at /\ slot[t] # NoSlot
      BY <2>1 DEF Raise, Leave, Fault, userVars
    <3> QED BY <3>1
  <2>2. CASE Crash(t)
    <3>1. /\ step' = [step EXCEPT ![t] = "idle"] /\ slot' = [slot EXCEPT ![t] = NoSlot]
          /\ UNCHANGED <<now, wanted, linked, quiet, turns, log, received, refusals>>
          /\ faults < MaxFaults /\ faults' = faults + 1
          /\ todo' = [todo EXCEPT ![t] = {}] /\ at' = [at EXCEPT ![t] = 0]
      BY <2>2 DEF Crash, Fault, userVars
    <3> QED BY <3>1
  <2> QED BY <2>1, <2>2
<1>2. TypeOK'
  <2>1. faults' \in 0 .. MaxFaults
    BY <1>1, SlotFacts DEF SlotInv, TypeOK
  <2>2. step' \in [Ticks -> Steps] /\ slot' \in [Ticks -> Slots \cup {NoSlot}]
    BY <1>1 DEF SlotInv, TypeOK, Steps
  <2>3. todo' \in [Ticks -> SUBSET Slots]
    BY <1>1 DEF SlotInv, TypeOK
  <2>4. at' \in [Ticks -> 0 .. Horizon]
    BY <1>1, SlotFacts DEF SlotInv, TypeOK
  <2> QED
    BY <1>1, <2>1, <2>2, <2>3, <2>4 DEF SlotInv, TypeOK
<1>3. \A u \in Ticks : at'[u] <= now'
  BY <1>1, SlotFacts DEF SlotInv, TypeOK, InTime
<1>4. faults' # 0
  BY <1>1, SlotFacts DEF SlotInv, TypeOK
<1>5. CASE slot[t] = NoSlot
  <2>1. step[t] \in {"idle", "pick"}
    BY <1>5, SlotFacts DEF SlotInv, Working
  <2>2. slot' = slot /\ now <= now'
    BY <1>1, <1>5, SlotFacts DEF SlotInv, TypeOK
  <2>3. \A u \in Ticks : \/ step'[u] = step[u]
                         \/ step[u] \in {"idle", "pick"} /\ step'[u] \in {"idle", "pick"}
    BY <1>1, <2>1 DEF SlotInv, TypeOK
  <2> QED
    BY <1>1, <1>2, <1>3, <1>4, <2>2, <2>3, IdleSteps
<1>6. CASE slot[t] # NoSlot
  <2>1. slot[t] \in Slots
    BY <1>6 DEF SlotInv, TypeOK
  <2> PICK s \in Slots : s = slot[t]
    BY <2>1
  <2>2. OpensAt[s] <= now
    BY <1>6 DEF SlotInv, InTime
  <2>3. Holds(t, s) => s \notin GivenUp
    BY DEF GivenUp
  <2>4. /\ SlotInv'
        /\ GivenUp' = IF Holds(t, s) /\ log'[s] # "free" /\ received[s] = 0
                      THEN GivenUp \cup {s} ELSE GivenUp
    BY <1>1, <1>2, <1>3, <1>4, LetGo
  <2> QED
    BY <1>1, <2>2, <2>3, <2>4
<1> QED
  BY <1>5, <1>6

\* The only step that reaches a recipient.
LEMMA SendStep ==
    ASSUME SlotInv, NEW t \in Ticks, Send(t)
    PROVE  /\ SlotInv' /\ UNCHANGED now /\ GivenUp' = GivenUp
           /\ \/ received' = received
              \/ \E s \in Slots : /\ received' = [received EXCEPT ![s] = @ + 1]
                                  /\ s \in Answered => received[s] = 0
                                  /\ s \notin GivenUp /\ OpensAt[s] <= now
<1>0. slot[t] \in Slots
  BY DEF SlotInv, Working, Send
<1> PICK s \in Slots : s = slot[t]
  BY <1>0
<1>1. /\ step[t] = "send" /\ OpensAt[s] <= now /\ Holds(t, s)
      /\ s \in Answered => received[s] = 0
      /\ received \in [Slots -> Nat]
      /\ UNCHANGED <<now, wanted, linked, quiet, turns, log, at, todo, slot>>
  BY SlotFacts DEF SlotInv, TypeOK, InTime, Counted, Send, userVars, Holds
<1>2. /\ s \notin GivenUp /\ log[s] = ClaimOf(s)
      /\ \A u \in Ticks \ {t} : ~Holds(u, s)
  BY <1>1 DEF GivenUp, SlotInv, OneOwner
<1>3. PICK x \in {"sent", "unsent"} :
      /\ step' = [step EXCEPT ![t] = x]
      /\ \/ x = "sent" /\ received' = [received EXCEPT ![s] = @ + 1]
         \/ x = "unsent" /\ received' = received
         \/ x = "unsent" /\ s \in LosesAnswers /\ received' = [received EXCEPT ![s] = @ + 1]
  BY DEF Send, Reach
<1>4. /\ faults' = faults /\ refusals' \in 0 .. MaxRefusals
  BY SlotFacts DEF Send, Refused, faultVars, SlotInv, TypeOK
<1>5. /\ step' \in [Ticks -> Steps] /\ step'[t] = x
      /\ \A u \in Ticks : u # t => step'[u] = step[u]
  BY <1>3 DEF SlotInv, TypeOK, Steps
<1>6. /\ received' \in [Slots -> Nat]
      /\ \A v \in Slots : v # s => received'[v] = received[v]
      /\ received'[s] \in {received[s], received[s] + 1}
      /\ x = "sent" => received'[s] = received[s] + 1
      /\ x = "unsent" /\ s \notin LosesAnswers => received'[s] = received[s]
  BY <1>1, <1>3
<1>7. /\ s \in Answered => received'[s] \in {0, 1}
      /\ x = "sent" => received'[s] # 0 /\ (s \in Answered => received'[s] = 1)
      /\ x = "unsent" /\ s \in Pings \cap Answered => received'[s] = 0
  BY <1>1, <1>6 DEF Answered
<1>8. TypeOK'
  BY <1>1, <1>4, <1>5, <1>6 DEF SlotInv, TypeOK
<1>9. Working' /\ InTime'
  BY <1>0, <1>1, <1>5 DEF SlotInv, Working, InTime
<1>10. \A u \in Ticks, v \in Slots : Holds(u, v)' <=> Holds(u, v)
  BY <1>1, <1>5 DEF Holds
<1>11. OneOwner'
  BY <1>1, <1>10 DEF SlotInv, OneOwner
<1>12. Counted'
  <2> SUFFICES ASSUME NEW u \in Ticks
               PROVE  /\ step'[u] = "judge" => slot'[u] \in Briefings
                      /\ step'[u] \in {"judge", "send"} /\ slot'[u] \in Answered =>
                           received'[slot'[u]] = 0
                      /\ step'[u] = "sent" =>
                           /\ received'[slot'[u]] # 0
                           /\ slot'[u] \in Answered => received'[slot'[u]] = 1
                      /\ step'[u] = "unsent" /\ slot'[u] \in Pings \cap Answered =>
                           received'[slot'[u]] = 0
    BY DEF Counted
  <2>1. CASE u = t
    BY <2>1, <1>1, <1>5, <1>7
  <2>2. CASE u # t
    <3>1. step[u] \in {"judge", "send", "sent", "unsent"} => slot[u] \in Slots \ {s}
      BY <2>2, <1>2 DEF SlotInv, Working, Holds
    <3> QED BY <2>2, <3>1, <1>1, <1>5, <1>6 DEF SlotInv, Counted
  <2> QED BY <2>1, <2>2
<1>13. FreeMeansUnsent' /\ AnsweredOnce' /\ HistoryIsTrue'
  <2>1. FreeMeansUnsent'
    BY <1>1, <1>2, <1>6, SlotFacts DEF SlotInv, FreeMeansUnsent, ClaimOf
  <2>2. AnsweredOnce'
    BY <1>6, <1>7, SlotFacts DEF SlotInv, AnsweredOnce
  <2>3. HistoryIsTrue'
    BY <1>1, <1>2, <1>6, SlotFacts DEF SlotInv, HistoryIsTrue, ClaimOf
  <2> QED BY <2>1, <2>2, <2>3
<1>14. GivenUp' = GivenUp
  <2>1. s \notin GivenUp' /\ s \notin GivenUp
    BY <1>1, <1>2, <1>10 DEF GivenUp
  <2>2. \A v \in Slots : v # s => (v \in GivenUp' <=> v \in GivenUp)
    BY <1>1, <1>6, <1>10 DEF GivenUp
  <2> QED BY <2>1, <2>2 DEF GivenUp
<1>15. PingsAreRetried'
  BY <1>4, <1>14 DEF SlotInv, PingsAreRetried
<1>16. SlotInv'
  BY <1>8, <1>9, <1>11, <1>12, <1>13, <1>15 DEF SlotInv
<1> QED
  BY <1>1, <1>2, <1>3, <1>14, <1>16

-----------------------------------------------------------------------------
(* The steps together: each one keeps the invariant and is, of what the       *)
(* recipients were promised, one step or none.                                *)

LEMMA PromiseStep ==
    ASSUME SlotInv, [Next]_vars
    PROVE  SlotInv' /\ (PingsAnswer => [Promise!Next]_(Promise!vars))
<1> DEFINE opened == {s \in Slots : OpensAt[s] <= now}
<1>1. ASSUME UNCHANGED <<now, received>>, GivenUp' = GivenUp
      PROVE  UNCHANGED Promise!vars
  BY <1>1 DEF Promise!vars
<1>2. ASSUME UNCHANGED <<now, received>>, NEW s \in Slots, GivenUp' = GivenUp \cup {s},
             s \notin GivenUp, OpensAt[s] <= now, received[s] = 0
      PROVE  Promise!Next
  <2>1. Promise!Forgo(s)
    BY <1>2 DEF Promise!Forgo
  <2> QED BY <2>1 DEF Promise!Next
<1>3. ASSUME now' = now, GivenUp' = GivenUp, NEW s \in Slots,
             received' = [received EXCEPT ![s] = @ + 1],
             s \in Answered => received[s] = 0, s \notin GivenUp, OpensAt[s] <= now
      PROVE  PingsAnswer => Promise!Next
  <2> SUFFICES ASSUME PingsAnswer PROVE Promise!Next
    OBVIOUS
  <2>1. received[s] = 0
    BY <1>3, SlotFacts
  <2>2. received' = [received EXCEPT ![s] = 1]
    BY <1>3, <2>1
  <2>3. Promise!Give(s)
    BY <1>3, <2>1, <2>2 DEF Promise!Give
  <2> QED BY <2>3 DEF Promise!Next
<1>4. CASE Advance
  <2>1. SlotInv' /\ GivenUp' = GivenUp
    BY <1>4, WorldStep
  <2>2. received' = received /\ now' = now + 1 /\ now \in Nat
    BY <1>4, SlotFacts DEF Advance, SlotInv, TypeOK
  <2>3. opened \subseteq opened'
    BY <2>2, SlotFacts
  <2>4. opened' \ opened \in SUBSET (Slots \ opened)
        /\ opened' = opened \cup (opened' \ opened)
    BY <2>3
  <2>5. Promise!Open
    BY <2>1, <2>2, <2>4 DEF Promise!Open
  <2> QED BY <2>1, <2>5 DEF Promise!Next
<1>5. CASE UserNext
  <2>1. UNCHANGED <<now, received>>
    BY <1>5 DEF UserNext, ToggleWanted, ToggleLinked, FallSilent
  <2> QED BY <1>5, <2>1, <1>1, WorldStep
<1>6. CASE \E t \in Ticks : TickNext(t) \/ Raise(t) \/ Crash(t)
  <2> PICK t \in Ticks : TickNext(t) \/ Raise(t) \/ Crash(t)
    BY <1>6
  <2>1. CASE Start(t) \/ Finish(t)
    <3>1. UNCHANGED <<now, received>>
      BY <2>1 DEF Start, Finish
    <3> QED BY <2>1, <3>1, <1>1, StartStep
  <2>2. CASE \E s \in Slots : Consider(t, s)
    <3>1. UNCHANGED <<now, received>>
      BY <2>2 DEF Consider
    <3> QED BY <2>2, <3>1, <1>1, ConsiderStep
  <2>3. CASE Claim(t)
    <3>1. UNCHANGED <<now, received>>
      BY <2>3 DEF Claim
    <3> QED BY <2>3, <3>1, <1>1, ClaimStep
  <2>4. CASE Judge(t)
    BY <2>4, <1>1, <1>2, JudgeStep
  <2>5. CASE Send(t)
    BY <2>5, <1>1, <1>3, SendStep
  <2>6. CASE Record(t)
    BY <2>6, <1>1, <1>2, RecordStep
  <2>7. CASE Raise(t) \/ Crash(t)
    BY <2>7, <1>1, <1>2, FaultStep
  <2> QED
    BY <2>1, <2>2, <2>3, <2>4, <2>5, <2>6, <2>7 DEF TickNext
<1>7. CASE UNCHANGED vars
  <2>1. UNCHANGED <<log, received, slot, faults, step, at, now>>
    BY <1>7 DEF vars, tickVars, faultVars
  <2>2. TypeOK'
    BY <1>7 DEF SlotInv, TypeOK, vars, tickVars, faultVars, userVars
  <2>3. now <= now' /\ \A t \in Ticks : at'[t] <= now'
    BY <2>1, SlotFacts DEF SlotInv, InTime, TypeOK
  <2> QED BY <2>1, <2>2, <2>3, <1>1, IdleSteps
<1> QED
  BY <1>4, <1>5, <1>6, <1>7 DEF Next

THEOREM SlotInvariant == Spec => []SlotInv
<1>1. Init => SlotInv
  BY SlotInit
<1>2. SlotInv /\ [Next]_vars => SlotInv'
  BY PromiseStep
<1> QED
  BY <1>1, <1>2, PTL DEF Spec

\* No recipient hears a slot twice, however ticks overlap, retry and die.
THEOREM TicksNeverRepeat ==
    ASSUME PingsAnswer PROVE Spec => []NeverTwice
<1>1. SlotInv => NeverTwice
  BY SlotFacts DEF SlotInv, AnsweredOnce, NeverTwice
<1> QED
  BY <1>1, SlotInvariant, PTL

\* Every variable keeps its type, whatever ticks, users, refusals and crashes do.
THEOREM TypeCorrect == Spec => []TypeOK
<1>1. SlotInv => TypeOK
  BY DEF SlotInv
<1> QED
  BY <1>1, SlotInvariant, PTL

\* A slot in work is claimed, and by one tick, lost answers or not.
THEOREM ClaimsAreExclusive == Spec => []OneOwner
<1>1. SlotInv => OneOwner
  BY DEF SlotInv
<1> QED
  BY <1>1, SlotInvariant, PTL

\* The history of a briefing says what its recipients received.
THEOREM HistoryHolds == Spec => []HistoryIsTrue
<1>1. SlotInv => HistoryIsTrue
  BY DEF SlotInv
<1> QED
  BY <1>1, SlotInvariant, PTL

\* Without an exception or a crash, refusals give no ping up.
THEOREM RefusalsAreRetried == Spec => []PingsAreRetried
<1>1. SlotInv => PingsAreRetried
  BY DEF SlotInv
<1> QED
  BY <1>1, SlotInvariant, PTL

\* The ticks implement the promise: open, then given once or forgone.
THEOREM TicksKeepThePromise ==
    ASSUME PingsAnswer PROVE Spec => Promised
<1>1. Init => Promise!Init
  <2> SUFFICES ASSUME Init PROVE Promise!Init
    OBVIOUS
  <2>1. {s \in Slots : OpensAt[s] <= now} = {}
    BY SlotFacts DEF Init
  <2>2. GivenUp = {}
    BY DEF Init, GivenUp
  <2> QED
    BY <2>1, <2>2 DEF Init, Promise!Init
<1>2. SlotInv /\ [Next]_vars => [Promise!Next]_(Promise!vars)
  BY PromiseStep
<1> QED
  BY <1>1, <1>2, SlotInvariant, PTL DEF Spec, Promised, Promise!Spec
=============================================================================
