--------------------------- MODULE RecurringProofs ----------------------------
(***************************************************************************)
(* What survives of a schedule that nothing locks: the next due date runs  *)
(* ahead of the journal only where a user moved it, and a date recorded    *)
(* twice was moved back by a user or worked on from a stale reading.  For  *)
(* any number of recurrences, lines and requests, and any date typed.      *)
(***************************************************************************)
EXTENDS Recurring, TLAPS

\* What a request must have read to be where it is.
RequestShape ==
    \A q \in Requests : request[q].op \in {"confirm", "form", "edit", "commit"} =>
        /\ request[q].rec \in Recurrences
        /\ request[q].seen[request[q].rec] # 0
        /\ request[q].op = "edit" => request[q].date # 0

\* Every due date of r before date has its occurrence, or a user moved past it.
AccountedBefore(r, date) == \A p \in 1 .. date - 1 : Recorded(r, p) \/ p \in waived[r]

\* A date in flight is a date the schedule has had: going back to it, or one
\* period past it with its occurrence, or past what the user moves it over,
\* skips nothing.
ReadingsAreBehind ==
    \A q \in Requests, r \in Recurrences : AccountedBefore(r, request[q].seen[r])

\* The inductive form of NoPeriodSkipped.
JournalInv == TypeOK /\ RequestShape /\ NoPeriodSkipped /\ ReadingsAreBehind

\* As long as every write started from the current date, the journal holds no
\* date the schedule has not left behind, but those it was moved back over.
JournalBehind ==
    ~overlapped => \A o \in records : o.period < due[o.rec] \/ o.period \in reopened[o.rec]

\* The inductive form of OnlyStaleDatesRepeat.
OnceInv == JournalBehind /\ OnlyStaleDatesRepeat

(***************************************************************************)
(* Steps of one kind.                                                      *)
(***************************************************************************)

LEMMA IdleIsTyped ==
    /\ Idle \in RequestStates
    /\ Idle.op = "none"
    /\ \A r \in Recurrences : Idle.seen[r] = 0
  BY RecurringConstants DEF Idle, RequestStates, Periods

\* What is read of a schedule that exists is its date, and 0 otherwise.
LEMMA ReadingTyped ==
    ASSUME TypeOK, NEW some \in SUBSET Recurrences
    PROVE  /\ Reading(some) \in [Recurrences -> 0 .. Horizon]
           /\ \A r \in Recurrences : Reading(some)[r] = 0 \/ Reading(some)[r] = due[r]
           /\ \A r \in alive \cap some : Reading(some)[r] = due[r] /\ due[r] # 0
  BY RecurringConstants DEF TypeOK, Reading, Periods

\* Nothing is due before the first period.
LEMMA NothingBeforeFirst == \A r : AccountedBefore(r, 0) /\ AccountedBefore(r, 1)
  BY DEF AccountedBefore

\* The journal grows, and so does what users moved the dates past.
Grows == /\ records \subseteq records'
         /\ \A r \in Recurrences : waived[r] \subseteq waived'[r]

\* What is accounted for stays so.
LEMMA AccountKept ==
    ASSUME Grows, NEW r \in Recurrences, NEW date, AccountedBefore(r, date)
    PROVE  \A p \in 1 .. date - 1 : Recorded(r, p)' \/ p \in waived'[r]
  BY DEF Grows, AccountedBefore, Recorded

\* What RequestShape asks of one request.
NeedsItsDates(state) ==
    state.op \in {"confirm", "form", "edit", "commit"} =>
        /\ state.rec \in Recurrences
        /\ state.seen[state.rec] # 0
        /\ state.op = "edit" => state.date # 0

\* One request changes what it remembers; what it now remembers is typed and
\* behind the journal.
LEMMA RequestMoves ==
    ASSUME JournalInv, NEW q \in Requests, NEW state \in RequestStates,
           Become(q, state), Grows,
           NeedsItsDates(state),
           \A r \in Recurrences : AccountedBefore(r, state.seen[r])
    PROVE  /\ request' \in [Requests -> RequestStates]
           /\ RequestShape'
           /\ ReadingsAreBehind'
<1>1. request' \in [Requests -> RequestStates]
  BY DEF JournalInv, TypeOK, Become
<1>2. \A p \in Requests : request'[p] = IF p = q THEN state ELSE request[p]
  BY DEF JournalInv, TypeOK, Become
<1>3. RequestShape'
  BY <1>2 DEF JournalInv, RequestShape, NeedsItsDates
<1>4. ReadingsAreBehind'
  <2>. SUFFICES ASSUME NEW p \in Requests, NEW r \in Recurrences
                PROVE  AccountedBefore(r, request[p].seen[r])'
    BY DEF ReadingsAreBehind
  <2>1. AccountedBefore(r, request'[p].seen[r])
    BY <1>2 DEF JournalInv, ReadingsAreBehind
  <2>. QED
    BY <2>1, AccountKept DEF AccountedBefore, Recorded
<1>. QED
  BY <1>1, <1>3, <1>4

\* A step that leaves schedules and journal alone only has to account for what
\* its request remembers.
LEMMA ReadingStep ==
    ASSUME JournalInv, NEW q \in Requests, NEW state \in RequestStates,
           Become(q, state), UNCHANGED <<rows, history>>,
           NeedsItsDates(state),
           \A r \in Recurrences : AccountedBefore(r, state.seen[r])
    PROVE  JournalInv'
<1>0. UNCHANGED <<alive, due, records, made, overlapped, waived, reopened>>
  BY DEF rows, history
<1>1. request' \in [Requests -> RequestStates] /\ RequestShape' /\ ReadingsAreBehind'
  BY <1>0, RequestMoves DEF Grows
<1>2. NoPeriodSkipped'
  BY <1>0 DEF JournalInv, NoPeriodSkipped, Recorded
<1>. QED
  BY <1>0, <1>1, <1>2 DEF JournalInv, TypeOK

\* A schedule crossed off is remembered as not there.
LEMMA TakenSeen ==
    ASSUME JournalInv, NEW q \in Requests, NEW s \in Recurrences
    PROVE  /\ Taken(q, s) \in RequestStates
           /\ Taken(q, s).op = request[q].op
           /\ Taken(q, s).free = request[q].free
           /\ \A r \in Recurrences :
                Taken(q, s).seen[r] = IF r = s THEN 0 ELSE request[q].seen[r]
<1>1. request[q] \in RequestStates
  BY DEF JournalInv, TypeOK
<1>. QED
  BY <1>1, RecurringConstants DEF Taken, RequestStates

\* Two ways a request goes on with what it had read: as it was, or with one
\* schedule crossed off.
LEMMA KeptReadings ==
    ASSUME JournalInv, NEW q \in Requests
    PROVE  /\ request[q] \in RequestStates
           /\ \A r \in Recurrences : AccountedBefore(r, request[q].seen[r])
           /\ \A r \in Recurrences : AccountedBefore(r, Idle.seen[r])
           /\ \A s \in Recurrences :
                /\ Taken(q, s) \in RequestStates
                /\ Taken(q, s).op = request[q].op
                /\ Taken(q, s).free = request[q].free
                /\ \A r \in Recurrences : AccountedBefore(r, Taken(q, s).seen[r])
<1>1. /\ request[q] \in RequestStates
      /\ \A r \in Recurrences : AccountedBefore(r, request[q].seen[r])
  BY DEF JournalInv, TypeOK, ReadingsAreBehind
<1>2. \A r \in Recurrences : AccountedBefore(r, Idle.seen[r])
  BY IdleIsTyped, NothingBeforeFirst
<1>3. ASSUME NEW s \in Recurrences
      PROVE  /\ Taken(q, s) \in RequestStates
             /\ Taken(q, s).op = request[q].op
             /\ Taken(q, s).free = request[q].free
             /\ \A r \in Recurrences : AccountedBefore(r, Taken(q, s).seen[r])
  <2>. QED
    BY <1>1, TakenSeen, NothingBeforeFirst
<1>. QED
  BY <1>1, <1>2, <1>3

\* An occurrence recorded for the date read, and the date moved one period past
\* it: whatever the row held, nothing is skipped.
LEMMA ConfirmEffect ==
    ASSUME JournalInv, NEW q \in Requests, NEW r \in Recurrences,
           request[q].seen[r] # 0,
           NEW line \in Lines \cup {NoLine}, NEW day \in Lines \cup {NoLine},
           Confirm(q, r, line, day)
    PROVE  /\ due' \in [Recurrences -> Periods]
           /\ records' \subseteq Occurrences
           /\ made' \in 0 .. MaxRecords
           /\ overlapped' \in BOOLEAN
           /\ Grows /\ UNCHANGED <<waived, reopened>>
           /\ NoPeriodSkipped'
<1>. DEFINE date == request[q].seen[r]
            o == [id |-> made + 1, rec |-> r, period |-> date, line |-> line, day |-> day]
<1>1. date \in 1 .. Horizon /\ made \in 0 .. MaxRecords /\ Horizon \in Nat /\ MaxRecords \in Nat
  BY RecurringConstants DEF JournalInv, TypeOK, RequestStates
<1>2. /\ UNCHANGED <<waived, reopened>>
      /\ made < MaxRecords /\ date < Horizon
      /\ made' = made + 1
      /\ records' = records \cup {o}
      /\ due' = [due EXCEPT ![r] = date + 1]
      /\ overlapped' \in BOOLEAN
  BY DEF Confirm, NextDue, Advanced, Disturbed, JournalInv, TypeOK
<1>3. o \in Occurrences
  BY <1>1, <1>2 DEF Occurrences, Periods
<1>4. records' \subseteq Occurrences /\ Grows
  BY <1>2, <1>3 DEF JournalInv, TypeOK, Grows
<1>5. due' \in [Recurrences -> Periods] /\ made' \in 0 .. MaxRecords
  BY <1>1, <1>2 DEF JournalInv, TypeOK, Periods
<1>6. ASSUME NEW s \in Recurrences, NEW p \in 1 .. due'[s] - 1
      PROVE  Recorded(s, p)' \/ p \in waived'[s]
  <2>1. CASE s = r /\ p = date
    <3>1. o \in records' /\ o.rec = r /\ o.period = date
      BY <1>2
    <3>. HIDE DEF o
    <3>. QED
      BY <2>1, <3>1 DEF Recorded
  <2>2. CASE s = r /\ p # date
    <3>1. due'[s] = date + 1
      BY <1>2, <2>2 DEF JournalInv, TypeOK
    <3>2. p \in 1 .. date - 1
      BY <1>1, <2>2, <3>1
    <3>3. AccountedBefore(r, date)
      BY DEF JournalInv, ReadingsAreBehind
    <3>. QED
      BY <1>4, <2>2, <3>2, <3>3, AccountKept
  <2>3. CASE s # r
    <3>1. due'[s] = due[s]
      BY <1>2, <2>3 DEF JournalInv, TypeOK
    <3>. QED
      BY <1>4, <3>1 DEF JournalInv, NoPeriodSkipped, Recorded, Grows
  <2>. QED
    BY <2>1, <2>2, <2>3
<1>. QED
  BY <1>2, <1>4, <1>5, <1>6 DEF NoPeriodSkipped

(***************************************************************************)
(* One lemma per kind of request.                                          *)
(***************************************************************************)

LEMMA HandStep ==
    ASSUME JournalInv, NEW q \in Requests,
           CommitConfirm(q) \/ \E r \in Recurrences : ReadConfirm(q, r)
    PROVE  JournalInv'
<1>1. ASSUME NEW r \in Recurrences, ReadConfirm(q, r)
      PROVE  JournalInv'
  <2>. DEFINE state == [Idle EXCEPT !.op = "confirm", !.rec = r, !.seen = Reading({r})]
  <2>1. Reading({r}) \in [Recurrences -> 0 .. Horizon] /\ Reading({r})[r] # 0
    BY <1>1, ReadingTyped DEF ReadConfirm, JournalInv
  <2>2. /\ state \in RequestStates
        /\ state.op # "edit" /\ state.rec = r /\ state.seen = Reading({r})
    BY <2>1, IdleIsTyped DEF RequestStates
  <2>3. \A s \in Recurrences : AccountedBefore(s, Reading({r})[s])
    BY ReadingTyped, NothingBeforeFirst DEF JournalInv, NoPeriodSkipped, AccountedBefore
  <2>4. Become(q, state) /\ UNCHANGED <<rows, history>>
    BY <1>1 DEF ReadConfirm
  <2>. QED
    <3>. HIDE DEF state
    <3>. QED  BY <2>1, <2>2, <2>3, <2>4, ReadingStep DEF NeedsItsDates
<1>2. CASE CommitConfirm(q)
  <2>. DEFINE r == request[q].rec
  <2>0. r \in Recurrences /\ request[q].seen[r] # 0
    BY <1>2 DEF CommitConfirm, JournalInv, RequestShape
  <2>1. Become(q, Idle) /\ UNCHANGED alive
    BY <1>2 DEF CommitConfirm
  <2>2. CASE r \in alive
    <3>1. PICK day \in Lines \cup {NoLine} : Confirm(q, r, NoLine, day)
      BY <1>2, <2>2 DEF CommitConfirm
    <3>2. /\ due' \in [Recurrences -> Periods]
          /\ records' \subseteq Occurrences
          /\ made' \in 0 .. MaxRecords /\ overlapped' \in BOOLEAN
          /\ Grows /\ UNCHANGED <<waived, reopened>>
          /\ NoPeriodSkipped'
      <4>. HIDE DEF r
      <4>. QED  BY <2>0, <3>1, ConfirmEffect
    <3>3. request' \in [Requests -> RequestStates] /\ RequestShape' /\ ReadingsAreBehind'
      BY <2>1, <3>2, IdleIsTyped, KeptReadings, RequestMoves DEF NeedsItsDates
    <3>. QED
      BY <2>1, <3>2, <3>3 DEF JournalInv, TypeOK
  <2>3. CASE r \notin alive
    <3>1. UNCHANGED <<rows, history>>
      BY <1>2, <2>3 DEF CommitConfirm, Rollback, rows
    <3>. QED
      BY <2>1, <3>1, IdleIsTyped, KeptReadings, ReadingStep DEF NeedsItsDates
  <2>. QED
    BY <2>2, <2>3
<1>. QED
  BY <1>1, <1>2

LEMMA DialogStep ==
    ASSUME JournalInv, NEW q \in Requests,
           \/ \E r \in Recurrences : OpenForm(q, r)
           \/ SubmitForm(q) \/ SaveEdit(q)
    PROVE  JournalInv'
<1>1. ASSUME NEW r \in Recurrences, OpenForm(q, r)
      PROVE  JournalInv'
  <2>. DEFINE state == [Idle EXCEPT !.op = "form", !.rec = r, !.seen = Reading({r})]
  <2>1. Reading({r}) \in [Recurrences -> 0 .. Horizon] /\ Reading({r})[r] # 0
    BY <1>1, ReadingTyped DEF OpenForm, JournalInv
  <2>2. /\ state \in RequestStates
        /\ state.op # "edit" /\ state.rec = r /\ state.seen = Reading({r})
    BY <2>1, IdleIsTyped DEF RequestStates
  <2>3. \A s \in Recurrences : AccountedBefore(s, Reading({r})[s])
    BY ReadingTyped, NothingBeforeFirst DEF JournalInv, NoPeriodSkipped, AccountedBefore
  <2>4. Become(q, state) /\ UNCHANGED <<rows, history>>
    BY <1>1 DEF OpenForm
  <2>. QED
    <3>. HIDE DEF state
    <3>. QED  BY <2>1, <2>2, <2>3, <2>4, ReadingStep DEF NeedsItsDates
<1>2. CASE SubmitForm(q)
  <2>1. request[q].rec \in Recurrences /\ request[q].seen[request[q].rec] \in Periods
    <3>1. request[q].rec \in Recurrences /\ request[q].seen[request[q].rec] # 0
      BY <1>2 DEF SubmitForm, JournalInv, RequestShape
    <3>2. request[q].seen[request[q].rec] \in 0 .. Horizon
      BY <3>1, KeptReadings DEF RequestStates
    <3>. QED
      BY <3>1, <3>2, RecurringConstants DEF Periods
  <2>2. /\ \/ \E date \in Periods : Become(q, [request[q] EXCEPT !.op = "edit", !.date = date])
           \/ Become(q, Idle)
        /\ UNCHANGED <<rows, history>>
    BY <1>2, <2>1 DEF SubmitForm, Typed
  <2>3. ASSUME NEW date \in Periods,
               Become(q, [request[q] EXCEPT !.op = "edit", !.date = date])
        PROVE  JournalInv'
    <3>. DEFINE state == [request[q] EXCEPT !.op = "edit", !.date = date]
    <3>1. date \in 0 .. Horizon /\ date # 0 /\ request[q].seen[request[q].rec] # 0
      BY <2>1, RecurringConstants DEF Periods
    <3>2. /\ state \in RequestStates /\ state.date = date
          /\ state.rec = request[q].rec /\ state.seen = request[q].seen
      BY <3>1, KeptReadings DEF RequestStates
    <3>3. Become(q, state)
      BY <2>3
    <3>. HIDE DEF state
    <3>. QED
      BY <2>1, <2>2, <3>1, <3>2, <3>3, KeptReadings, ReadingStep DEF NeedsItsDates
  <2>. QED
    BY <2>2, <2>3, IdleIsTyped, KeptReadings, ReadingStep DEF NeedsItsDates
<1>3. CASE SaveEdit(q)
  <2>. DEFINE r == request[q].rec
              shown == request[q].seen[r]
              date == request[q].date
  <2>1. r \in Recurrences /\ shown \in Periods /\ date \in Periods /\ Horizon \in Nat
    BY <1>3, RecurringConstants
       DEF SaveEdit, JournalInv, RequestShape, TypeOK, RequestStates, Periods
  <2>2. /\ due' = [due EXCEPT ![r] = date]
        /\ alive' = alive \cup {r}
        /\ overlapped' \in BOOLEAN
        /\ Become(q, Idle)
        /\ waived' = [waived EXCEPT ![r] = @ \cup (shown .. date - 1)]
        /\ reopened' = [reopened EXCEPT ![r] = @ \cup (date .. shown - 1)]
        /\ UNCHANGED <<records, made>>
    BY <1>3 DEF SaveEdit, Disturbed, JournalInv, TypeOK
  <2>3. /\ waived \in [Recurrences -> SUBSET Periods]
        /\ reopened \in [Recurrences -> SUBSET Periods]
        /\ due \in [Recurrences -> Periods]
    BY DEF JournalInv, TypeOK
  <2>4. shown .. date - 1 \subseteq Periods /\ date .. shown - 1 \subseteq Periods
    BY <2>1 DEF Periods
  <2>. HIDE DEF r, shown, date
  <2>5. /\ \A s \in Recurrences :
             waived'[s] = IF s = r THEN waived[s] \cup (shown .. date - 1) ELSE waived[s]
        /\ \A s \in Recurrences : due'[s] = IF s = r THEN date ELSE due[s]
    BY <2>2, <2>3
  <2>6. Grows
    BY <2>2, <2>5 DEF Grows
  <2>7. request' \in [Requests -> RequestStates] /\ RequestShape' /\ ReadingsAreBehind'
    BY <2>2, <2>6, IdleIsTyped, KeptReadings, RequestMoves DEF NeedsItsDates
  <2>8. NoPeriodSkipped'
    <3>. SUFFICES ASSUME NEW s \in Recurrences, NEW p \in 1 .. due'[s] - 1
                  PROVE  Recorded(s, p)' \/ p \in waived'[s]
      BY DEF NoPeriodSkipped
    <3>1. CASE s # r
      <4>1. p \in 1 .. due[s] - 1
        BY <2>5, <3>1
      <4>. QED
        BY <2>2, <2>5, <3>1, <4>1 DEF JournalInv, NoPeriodSkipped, Recorded
    <3>2. CASE s = r
      <4>1. p \in 1 .. shown - 1 \/ p \in shown .. date - 1
        BY <2>1, <2>5, <3>2 DEF Periods
      <4>2. AccountedBefore(r, shown)
        BY <2>1 DEF JournalInv, ReadingsAreBehind, r, shown
      <4>. QED
        BY <2>1, <2>5, <2>6, <3>2, <4>1, <4>2, AccountKept
    <3>. QED
      BY <3>1, <3>2
  <2>9. /\ waived' \in [Recurrences -> SUBSET Periods]
        /\ reopened' \in [Recurrences -> SUBSET Periods]
        /\ due' \in [Recurrences -> Periods]
    BY <2>1, <2>2, <2>3, <2>4
  <2>. QED
    BY <2>1, <2>2, <2>7, <2>8, <2>9 DEF JournalInv, TypeOK
<1>. QED
  BY <1>1, <1>2, <1>3

LEMMA StatementStep ==
    ASSUME JournalInv, NEW q \in Requests,
           StartMatch(q) \/ PickPair(q) \/ CommitPair(q) \/ EndMatch(q)
    PROVE  JournalInv'
<1>1. CASE StartMatch(q)
  <2>. DEFINE state == [Idle EXCEPT !.op = "match", !.seen = Reading(Recurrences),
                                    !.free = Free]
  <2>1. Reading(Recurrences) \in [Recurrences -> 0 .. Horizon]
    BY ReadingTyped DEF JournalInv
  <2>2. /\ state \in RequestStates
        /\ state.op = "match" /\ state.seen = Reading(Recurrences)
    BY <2>1, IdleIsTyped DEF RequestStates, Free
  <2>3. \A s \in Recurrences : AccountedBefore(s, Reading(Recurrences)[s])
    BY ReadingTyped, NothingBeforeFirst DEF JournalInv, NoPeriodSkipped, AccountedBefore
  <2>4. Become(q, state) /\ UNCHANGED <<rows, history>>
    BY <1>1 DEF StartMatch
  <2>. QED
    <3>. HIDE DEF state
    <3>. QED  BY <2>2, <2>3, <2>4, ReadingStep DEF NeedsItsDates
<1>2. CASE PickPair(q)
  <2>1. PICK r \in Recurrences, l \in Lines :
          /\ request[q].seen[r] = PeriodOf[l]
          /\ \/ Become(q, Taken(q, r))
             \/ Become(q, Idle)
             \/ Become(q, [request[q] EXCEPT !.op = "commit", !.rec = r, !.line = l])
    <3>1. PICK p \in Pairs(q) :
            \/ Become(q, Taken(q, p[1]))
            \/ Become(q, Idle)
            \/ Become(q, [request[q] EXCEPT !.op = "commit", !.rec = p[1], !.line = p[2]])
      BY <1>2 DEF PickPair
    <3>2. p[1] \in Recurrences /\ p[2] \in Lines /\ request[q].seen[p[1]] = PeriodOf[p[2]]
      BY RecurringConstants DEF Pairs
    <3>. QED
      BY <3>1, <3>2
  <2>2. request[q].seen[r] # 0
    BY <2>1, RecurringConstants
  <2>3. request[q].op = "match" /\ UNCHANGED <<rows, history>>
    BY <1>2 DEF PickPair
  <2>4. CASE Become(q, Taken(q, r))
    BY <2>3, <2>4, KeptReadings, ReadingStep DEF NeedsItsDates
  <2>5. CASE Become(q, Idle)
    BY <2>3, <2>5, IdleIsTyped, KeptReadings, ReadingStep DEF NeedsItsDates
  <2>6. CASE Become(q, [request[q] EXCEPT !.op = "commit", !.rec = r, !.line = l])
    <3>. DEFINE state == [request[q] EXCEPT !.op = "commit", !.rec = r, !.line = l]
    <3>1. /\ state \in RequestStates /\ state.op = "commit"
          /\ state.rec = r /\ state.seen = request[q].seen
      BY KeptReadings DEF RequestStates
    <3>2. Become(q, state)
      BY <2>6
    <3>. HIDE DEF state
    <3>. QED
      BY <2>2, <2>3, <3>1, <3>2, KeptReadings, ReadingStep DEF NeedsItsDates
  <2>. QED
    BY <2>1, <2>4, <2>5, <2>6
<1>3. CASE CommitPair(q)
  <2>. DEFINE r == request[q].rec
              l == request[q].line
              state == [Idle EXCEPT !.op = "match", !.seen = Taken(q, r).seen,
                                    !.free = request[q].free \ {l}]
  <2>0. r \in Recurrences /\ request[q].seen[r] # 0 /\ l \in Lines \cup {NoLine}
    BY <1>3, KeptReadings DEF CommitPair, JournalInv, RequestShape, RequestStates
  <2>1. CASE r \in alive
    <3>1. Confirm(q, r, l, l) /\ Become(q, state) /\ UNCHANGED alive
      BY <1>3, <2>1 DEF CommitPair
    <3>2. /\ due' \in [Recurrences -> Periods]
          /\ records' \subseteq Occurrences
          /\ made' \in 0 .. MaxRecords /\ overlapped' \in BOOLEAN
          /\ Grows /\ UNCHANGED <<waived, reopened>>
          /\ NoPeriodSkipped'
      <4>. HIDE DEF r, l
      <4>. QED  BY <2>0, <3>1, ConfirmEffect
    <3>3. /\ state \in RequestStates /\ state.op = "match"
          /\ state.seen = Taken(q, r).seen
      <4>. HIDE DEF r, l
      <4>. QED  BY <2>0, IdleIsTyped, KeptReadings DEF RequestStates
    <3>4. request' \in [Requests -> RequestStates] /\ RequestShape' /\ ReadingsAreBehind'
      <4>. HIDE DEF r, l, state
      <4>. QED  BY <2>0, <3>1, <3>2, <3>3, KeptReadings, RequestMoves DEF NeedsItsDates
    <3>. QED
      BY <3>1, <3>2, <3>4 DEF JournalInv, TypeOK
  <2>2. CASE r \notin alive
    <3>1. Become(q, Idle) /\ UNCHANGED <<rows, history>>
      BY <1>3, <2>2 DEF CommitPair, Rollback, rows
    <3>. QED
      BY <3>1, IdleIsTyped, KeptReadings, ReadingStep DEF NeedsItsDates
  <2>. QED
    BY <2>1, <2>2
<1>4. CASE EndMatch(q)
  BY <1>4, IdleIsTyped, KeptReadings, ReadingStep DEF EndMatch, NeedsItsDates
<1>. QED
  BY <1>1, <1>2, <1>3, <1>4

LEMMA DeleteStep ==
    ASSUME JournalInv, NEW r \in Recurrences, Delete(r)
    PROVE  JournalInv'
  BY DEF Delete, history, JournalInv, TypeOK, RequestShape, NoPeriodSkipped,
         ReadingsAreBehind, AccountedBefore, Recorded

LEMMA JournalInit == Init => JournalInv
<1>. SUFFICES ASSUME Init PROVE JournalInv
  OBVIOUS
<1>1. TypeOK
  <2>1. request \in [Requests -> RequestStates]
    BY IdleIsTyped DEF Init
  <2>2. due \in [Recurrences -> Periods] /\ made \in 0 .. MaxRecords
    BY RecurringConstants DEF Init, Periods
  <2>. QED
    BY <2>1, <2>2 DEF Init, TypeOK
<1>2. RequestShape /\ ReadingsAreBehind
  BY IdleIsTyped, NothingBeforeFirst DEF Init, RequestShape, ReadingsAreBehind
<1>3. NoPeriodSkipped
  BY DEF Init, NoPeriodSkipped
<1>. QED
  BY <1>1, <1>2, <1>3 DEF JournalInv

LEMMA JournalNext == JournalInv /\ [Next]_vars => JournalInv'
<1>. SUFFICES ASSUME JournalInv, [Next]_vars PROVE JournalInv'
  OBVIOUS
<1>1. CASE UNCHANGED vars
  BY <1>1 DEF vars, rows, history, JournalInv, TypeOK, RequestShape, NoPeriodSkipped,
              ReadingsAreBehind, AccountedBefore, Recorded
<1>2. CASE Next
  BY <1>2, HandStep, DialogStep, StatementStep, DeleteStep DEF Next
<1>. QED
  BY <1>1, <1>2

\* Whatever requests, dialogs and statements overlap, schedules, occurrences and
\* requests keep their types.
THEOREM TypeCorrect == Spec => []TypeOK
<1>1. JournalInv => TypeOK
  BY DEF JournalInv
<1>. QED
  BY <1>1, JournalInit, JournalNext, PTL DEF Spec

\* No due date drops out of a schedule without an occurrence but those a user moved
\* the date past, although every writer works from a date it read earlier, may
\* type any other, and none takes a lock.
THEOREM NothingIsSkipped == Spec => []NoPeriodSkipped
<1>1. JournalInv => NoPeriodSkipped
  BY DEF JournalInv
<1>. QED
  BY <1>1, JournalInit, JournalNext, PTL DEF Spec

(***************************************************************************)
(* Due dates recorded twice.                                               *)
(***************************************************************************)

\* An occurrence recorded from the current date is the first of its period,
\* unless the period was reopened.
LEMMA ConfirmOnce ==
    ASSUME JournalInv, OnceInv, NEW q \in Requests, NEW r \in Recurrences,
           NEW line, NEW day, Confirm(q, r, line, day)
    PROVE  OnceInv'
<1>. DEFINE date == request[q].seen[r]
            o == [id |-> made + 1, rec |-> r, period |-> date, line |-> line, day |-> day]
<1>1. CASE overlapped'
  BY <1>1 DEF OnceInv, JournalBehind, OnlyStaleDatesRepeat
<1>2. CASE ~overlapped'
  <2>1. /\ ~overlapped /\ date = due[r] /\ reopened' = reopened
        /\ records' = records \cup {o}
        /\ due' = [due EXCEPT ![r] = date + 1]
    BY <1>2 DEF Confirm, NextDue, Advanced, Disturbed, JournalInv, TypeOK
  <2>2. /\ due \in [Recurrences -> Periods] /\ Horizon \in Nat
        /\ \A p \in records : p.rec \in Recurrences /\ p.period \in Periods
    BY RecurringConstants DEF JournalInv, TypeOK, Occurrences
  <2>3. \A p \in records : p.period < due[p.rec] \/ p.period \in reopened[p.rec]
    BY <2>1 DEF OnceInv, JournalBehind
  <2>4. o.rec = r /\ o.period = date
    OBVIOUS
  <2>. HIDE DEF o, date
  <2>5. \A p \in records : p.rec = r /\ p.period = date => date \in reopened[r]
    BY <2>1, <2>2, <2>3 DEF Periods
  <2>6. JournalBehind'
    <3>. SUFFICES ASSUME NEW p \in records'
                  PROVE  p.period < due'[p.rec] \/ p.period \in reopened'[p.rec]
      BY DEF JournalBehind
    <3>1. CASE p = o
      BY <2>1, <2>2, <2>4, <3>1 DEF Periods
    <3>2. CASE p \in records
      BY <2>1, <2>2, <2>3, <3>2 DEF Periods
    <3>. QED
      BY <2>1, <3>1, <3>2
  <2>7. OnlyStaleDatesRepeat'
    <3>. SUFFICES ASSUME NEW p \in records', NEW s \in records', SamePeriod(p, s)
                  PROVE  p.period \in reopened[p.rec]
      BY <2>1 DEF OnlyStaleDatesRepeat
    <3>0. p.id # s.id /\ p.rec = s.rec /\ p.period = s.period
      BY DEF SamePeriod
    <3>1. CASE p \in records /\ s \in records
      BY <2>1, <3>1 DEF OnceInv, OnlyStaleDatesRepeat
    <3>2. CASE p = o /\ s \in records
      BY <2>4, <2>5, <3>0, <3>2
    <3>3. CASE s = o /\ p \in records
      BY <2>4, <2>5, <3>0, <3>3
    <3>4. CASE p = o /\ s = o
      BY <3>0, <3>4
    <3>. QED
      BY <2>1, <3>1, <3>2, <3>3, <3>4
  <2>. QED
    BY <2>6, <2>7 DEF OnceInv
<1>. QED
  BY <1>1, <1>2

\* An edit saved over the date it was opened with moves the date back over no
\* occurrence that it does not reopen.
LEMMA EditOnce ==
    ASSUME JournalInv, OnceInv, NEW q \in Requests, SaveEdit(q)
    PROVE  OnceInv'
<1>. DEFINE r == request[q].rec
            shown == request[q].seen[r]
            date == request[q].date
<1>1. /\ due' = [due EXCEPT ![r] = date]
      /\ overlapped' = (overlapped \/ shown # due[r])
      /\ reopened' = [reopened EXCEPT ![r] = @ \cup (date .. shown - 1)]
      /\ UNCHANGED records
  BY DEF SaveEdit, Disturbed
<1>2. /\ r \in Recurrences /\ date \in Periods /\ Horizon \in Nat
      /\ due \in [Recurrences -> Periods]
      /\ reopened \in [Recurrences -> SUBSET Periods]
      /\ \A o \in records : o.rec \in Recurrences /\ o.period \in Periods
  BY RecurringConstants
     DEF SaveEdit, JournalInv, RequestShape, TypeOK, RequestStates, Occurrences, Periods
<1>. HIDE DEF r, shown, date
<1>3. /\ \A s \in Recurrences : due'[s] = IF s = r THEN date ELSE due[s]
      /\ \A s \in Recurrences : reopened[s] \subseteq reopened'[s]
      /\ date .. shown - 1 \subseteq reopened'[r]
  BY <1>1, <1>2
<1>4. CASE overlapped'
  BY <1>4 DEF OnceInv, JournalBehind, OnlyStaleDatesRepeat
<1>5. CASE ~overlapped'
  <2>1. ~overlapped /\ shown = due[r]
    BY <1>1, <1>5
  <2>2. ASSUME NEW o \in records
        PROVE  o.period < due'[o.rec] \/ o.period \in reopened'[o.rec]
    <3>1. o.period < due[o.rec] \/ o.period \in reopened[o.rec]
      BY <2>1 DEF OnceInv, JournalBehind
    <3>2. CASE o.rec = r /\ o.period < due[r]
      <4>1. o.period < date \/ o.period \in date .. shown - 1
        BY <1>2, <2>1, <3>2 DEF Periods
      <4>. QED
        BY <1>2, <1>3, <3>2, <4>1
    <3>. QED
      BY <1>2, <1>3, <3>1, <3>2
  <2>3. JournalBehind'
    BY <1>1, <2>2 DEF JournalBehind
  <2>4. OnlyStaleDatesRepeat'
    BY <1>1, <1>2, <1>3, <2>1 DEF OnceInv, OnlyStaleDatesRepeat
  <2>. QED
    BY <2>3, <2>4 DEF OnceInv
<1>. QED
  BY <1>4, <1>5

LEMMA OnceInit == Init => OnceInv
  BY DEF Init, OnceInv, JournalBehind, OnlyStaleDatesRepeat

LEMMA OnceNext == JournalInv /\ OnceInv /\ [Next]_vars => OnceInv'
<1>. SUFFICES ASSUME JournalInv, OnceInv, [Next]_vars PROVE OnceInv'
  OBVIOUS
<1>1. ASSUME UNCHANGED <<due, records, history>> PROVE OnceInv'
  BY <1>1 DEF history, OnceInv, JournalBehind, OnlyStaleDatesRepeat
<1>2. CASE UNCHANGED vars
  BY <1>1, <1>2 DEF vars, rows
<1>3. ASSUME NEW q \in Requests, CommitConfirm(q) PROVE OnceInv'
  <2>1. request[q].rec \in Recurrences
    BY <1>3 DEF CommitConfirm, JournalInv, RequestShape
  <2>. QED
    BY <1>1, <1>3, <2>1, ConfirmOnce DEF CommitConfirm, Rollback
<1>4. ASSUME NEW q \in Requests, CommitPair(q) PROVE OnceInv'
  <2>1. request[q].rec \in Recurrences
    BY <1>4 DEF CommitPair, JournalInv, RequestShape
  <2>. QED
    BY <1>1, <1>4, <2>1, ConfirmOnce DEF CommitPair, Rollback
<1>5. ASSUME NEW q \in Requests, SaveEdit(q) PROVE OnceInv'
  BY <1>5, EditOnce
<1>. QED
  BY <1>1, <1>2, <1>3, <1>4, <1>5
     DEF Next, rows, ReadConfirm, OpenForm, SubmitForm, StartMatch, PickPair, EndMatch, Delete

\* A due date is recorded twice only when somebody wrote from a date that was no
\* longer the date, or when a user had moved the date back over it.
THEOREM RepeatsAreStale == Spec => []OnlyStaleDatesRepeat
<1>1. OnceInv => OnlyStaleDatesRepeat
  BY DEF OnceInv
<1>. QED
  BY <1>1, JournalInit, JournalNext, OnceInit, OnceNext, PTL DEF Spec

(***************************************************************************)
(* One request, dialog or statement at a time.                             *)
(***************************************************************************)

OneAtATime == \A p, q \in Requests : p = q

\* What the one request has read is what the schedules hold.
ReadingsAreCurrent ==
    /\ ~overlapped
    /\ \A q \in Requests, r \in Recurrences :
         request[q].seen[r] = 0 \/ request[q].seen[r] = due[r]

\* The one request is replaced by one that remembers current dates, or none.
LEMMA CurrentStep ==
    ASSUME OneAtATime, JournalInv, ~overlapped', NEW q \in Requests, NEW state,
           Become(q, state),
           \A r \in Recurrences : state.seen[r] = 0 \/ state.seen[r] = due'[r]
    PROVE  ReadingsAreCurrent'
<1>1. \A p \in Requests : request'[p] = state
  BY DEF OneAtATime, Become, JournalInv, TypeOK
<1>. QED
  BY <1>1 DEF ReadingsAreCurrent

\* A confirmation from the current date is no overlap, and moves one schedule.
LEMMA ConfirmCurrent ==
    ASSUME JournalInv, ReadingsAreCurrent, NEW q \in Requests, NEW r \in Recurrences,
           request[q].seen[r] # 0, NEW line, NEW day, Confirm(q, r, line, day)
    PROVE  /\ ~overlapped'
           /\ \A s \in Recurrences \ {r} : due'[s] = due[s]
  BY DEF ReadingsAreCurrent, Confirm, Disturbed, NextDue, JournalInv, TypeOK

LEMMA CurrentNext ==
    ASSUME OneAtATime
    PROVE  JournalInv /\ ReadingsAreCurrent /\ [Next]_vars => ReadingsAreCurrent'
<1>. SUFFICES ASSUME JournalInv, ReadingsAreCurrent, [Next]_vars
              PROVE  ReadingsAreCurrent'
  OBVIOUS
<1>0. /\ \A r \in Recurrences : Idle.seen[r] = 0
      /\ ~overlapped
  BY IdleIsTyped DEF ReadingsAreCurrent
<1>1. CASE UNCHANGED vars
  BY <1>1 DEF vars, rows, history, ReadingsAreCurrent
<1>2. ASSUME NEW r \in Recurrences, Delete(r) PROVE ReadingsAreCurrent'
  BY <1>2 DEF Delete, history, ReadingsAreCurrent
<1>3. ASSUME NEW q \in Requests, UNCHANGED <<due, overlapped>>, Become(q, Idle)
      PROVE  ReadingsAreCurrent'
  BY <1>0, <1>3, CurrentStep
<1>4. ASSUME NEW q \in Requests, NEW r \in Recurrences, ReadConfirm(q, r) \/ OpenForm(q, r)
      PROVE  ReadingsAreCurrent'
  <2>1. PICK op \in {"confirm", "form"} :
          Become(q, [Idle EXCEPT !.op = op, !.rec = r, !.seen = Reading({r})])
    BY <1>4 DEF ReadConfirm, OpenForm, rows, history
  <2>. DEFINE state == [Idle EXCEPT !.op = op, !.rec = r, !.seen = Reading({r})]
  <2>2. state.seen = Reading({r})
    BY DEF Idle
  <2>3. UNCHANGED <<due, overlapped>>
    BY <1>4 DEF ReadConfirm, OpenForm, rows, history
  <2>4. \A s \in Recurrences : Reading({r})[s] = 0 \/ Reading({r})[s] = due'[s]
    BY <2>3, ReadingTyped DEF JournalInv
  <2>. QED
    <3>1. Become(q, state)
      BY <2>1
    <3>. HIDE DEF state
    <3>. QED
      BY <1>0, <2>2, <2>3, <2>4, <3>1, CurrentStep
<1>5. ASSUME NEW q \in Requests, CommitConfirm(q) PROVE ReadingsAreCurrent'
  <2>. DEFINE r == request[q].rec
  <2>1. r \in Recurrences /\ request[q].seen[r] # 0 /\ Become(q, Idle)
    BY <1>5 DEF CommitConfirm, JournalInv, RequestShape
  <2>2. \/ UNCHANGED <<due, overlapped>>
        \/ \E day \in Lines \cup {NoLine} : Confirm(q, r, NoLine, day)
    BY <1>5 DEF CommitConfirm, Rollback, rows, history
  <2>3. ~overlapped'
    <3>. HIDE DEF r
    <3>. QED  BY <1>0, <2>1, <2>2, ConfirmCurrent
  <2>. QED
    BY <1>0, <2>1, <2>3, CurrentStep
<1>6. ASSUME NEW q \in Requests, SubmitForm(q) PROVE ReadingsAreCurrent'
  <2>1. UNCHANGED <<due, overlapped>>
    BY <1>6 DEF SubmitForm, rows, history
  <2>2. ASSUME NEW date, Become(q, [request[q] EXCEPT !.op = "edit", !.date = date])
        PROVE  ReadingsAreCurrent'
    <3>. DEFINE state == [request[q] EXCEPT !.op = "edit", !.date = date]
    <3>1. state.seen = request[q].seen
      BY KeptReadings DEF RequestStates
    <3>2. Become(q, state)
      BY <2>2
    <3>. HIDE DEF state
    <3>. QED
      BY <1>0, <2>1, <3>1, <3>2, CurrentStep DEF ReadingsAreCurrent
  <2>. QED
    BY <1>3, <1>6, <2>1, <2>2 DEF SubmitForm
<1>7. ASSUME NEW q \in Requests, SaveEdit(q) PROVE ReadingsAreCurrent'
  <2>1. request[q].rec \in Recurrences /\ request[q].seen[request[q].rec] # 0
    BY <1>7 DEF SaveEdit, JournalInv, RequestShape
  <2>2. Become(q, Idle) /\ ~overlapped'
    BY <1>7, <2>1 DEF SaveEdit, Disturbed, ReadingsAreCurrent
  <2>. QED
    BY <1>0, <2>2, CurrentStep
<1>8. ASSUME NEW q \in Requests, StartMatch(q) PROVE ReadingsAreCurrent'
  <2>. DEFINE state == [Idle EXCEPT !.op = "match", !.seen = Reading(Recurrences),
                                    !.free = Free]
  <2>1. state.seen = Reading(Recurrences)
    BY DEF Idle
  <2>2. Become(q, state) /\ UNCHANGED <<due, overlapped>>
    BY <1>8 DEF StartMatch, rows, history
  <2>3. \A s \in Recurrences : Reading(Recurrences)[s] = 0 \/ Reading(Recurrences)[s] = due'[s]
    BY <2>2, ReadingTyped DEF JournalInv
  <2>. HIDE DEF state
  <2>. QED
    BY <1>0, <2>1, <2>2, <2>3, CurrentStep
<1>9. ASSUME NEW q \in Requests, PickPair(q) PROVE ReadingsAreCurrent'
  <2>1. UNCHANGED <<due, overlapped>>
    BY <1>9 DEF PickPair, rows, history
  <2>2. PICK p \in Pairs(q) :
          \/ Become(q, Taken(q, p[1]))
          \/ Become(q, Idle)
          \/ Become(q, [request[q] EXCEPT !.op = "commit", !.rec = p[1], !.line = p[2]])
    BY <1>9 DEF PickPair, rows, history
  <2>3. p[1] \in Recurrences
    BY RecurringConstants DEF Pairs
  <2>4. \A s \in Recurrences :
          Taken(q, p[1]).seen[s] = 0 \/ Taken(q, p[1]).seen[s] = due[s]
    BY <2>3, TakenSeen DEF ReadingsAreCurrent
  <2>5. CASE Become(q, Taken(q, p[1]))
    BY <1>0, <2>1, <2>4, <2>5, CurrentStep
  <2>6. CASE Become(q, [request[q] EXCEPT !.op = "commit", !.rec = p[1], !.line = p[2]])
    <3>. DEFINE state == [request[q] EXCEPT !.op = "commit", !.rec = p[1], !.line = p[2]]
    <3>1. state.seen = request[q].seen
      BY KeptReadings DEF RequestStates
    <3>2. Become(q, state)
      BY <2>6
    <3>. HIDE DEF state
    <3>. QED
      BY <1>0, <2>1, <3>1, <3>2, CurrentStep DEF ReadingsAreCurrent
  <2>. QED
    BY <1>3, <2>1, <2>2, <2>5, <2>6
<1>10. ASSUME NEW q \in Requests, CommitPair(q) PROVE ReadingsAreCurrent'
  <2>. DEFINE r == request[q].rec
              l == request[q].line
              state == [Idle EXCEPT !.op = "match", !.seen = Taken(q, r).seen,
                                    !.free = request[q].free \ {l}]
  <2>1. r \in Recurrences /\ request[q].seen[r] # 0
    BY <1>10 DEF CommitPair, JournalInv, RequestShape
  <2>2. \/ Confirm(q, r, l, l) /\ Become(q, state)
        \/ UNCHANGED <<due, overlapped>> /\ Become(q, Idle)
    BY <1>10 DEF CommitPair, Rollback, rows, history
  <2>3. state.seen = Taken(q, r).seen
    BY DEF Idle
  <2>4. CASE Confirm(q, r, l, l) /\ Become(q, state)
    <3>. HIDE DEF r, l, state
    <3>1. ~overlapped' /\ \A s \in Recurrences \ {r} : due'[s] = due[s]
      BY <2>1, <2>4, ConfirmCurrent
    <3>2. \A s \in Recurrences :
            Taken(q, r).seen[s] = 0 \/ Taken(q, r).seen[s] = due'[s]
      BY <2>1, <3>1, TakenSeen DEF ReadingsAreCurrent
    <3>. QED
      BY <2>3, <2>4, <3>1, <3>2, CurrentStep
  <2>. QED
    BY <1>3, <2>2, <2>4
<1>11. ASSUME NEW q \in Requests, EndMatch(q) PROVE ReadingsAreCurrent'
  BY <1>3, <1>11 DEF EndMatch, rows, history
<1>. QED
  BY <1>1, <1>2, <1>4, <1>5, <1>6, <1>7, <1>8, <1>9, <1>10, <1>11 DEF Next

\* As long as hand, dialog and statement take turns, a due date recorded twice is
\* one a user brought back in the dialog: what matching.py asks of "already" is
\* true of everything but overlaps and the user's own wish.
THEOREM OnceInTurn ==
    ASSUME OneAtATime
    PROVE  Spec => []OnePerPeriod
<1>1. Init => ReadingsAreCurrent
  BY IdleIsTyped DEF Init, ReadingsAreCurrent
<1>2. JournalInv /\ ReadingsAreCurrent /\ [Next]_vars => ReadingsAreCurrent'
  BY CurrentNext
<1>3. ReadingsAreCurrent /\ OnceInv => OnePerPeriod
  BY DEF ReadingsAreCurrent, OnceInv, OnlyStaleDatesRepeat, OnePerPeriod
<1>. QED
  BY <1>1, <1>2, <1>3, JournalInit, JournalNext, OnceInit, OnceNext, PTL DEF Spec
=============================================================================
