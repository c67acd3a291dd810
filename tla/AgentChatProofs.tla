---------------------------- MODULE AgentChatProofs ----------------------------
(****************************************************************************)
(* What the transcript of the assistant may be trusted for, for any number  *)
(* of conversations, questions and requests: what a turn brings ends where  *)
(* it was asked unless its user left or took it along to a blank page, and  *)
(* an answer on screen is saved.                                            *)
(****************************************************************************)
EXTENDS AgentChat, TLAPS

(****************************************************************************)
(* The inductive invariant.                                                 *)
(****************************************************************************)

Started == [at : {"working", "done", "error", "received"},
            conversation : Conversations, q : Questions, wrote : SUBSET Questions]

TurnTypes ==
    /\ turn.at \in {"idle", "creating", "streaming"}
    /\ turn.at = "idle" <=> turn = Idle
    /\ Busy => turn.q \in Typed
    /\ turn.at = "streaming" =>
         turn.conversation \in Conversations /\ turn.job \in Attempts

ChatTypes ==
    /\ TypeOK
    /\ detail \in [Conversations -> [data : {NoData} \cup SUBSET Messages, stale : BOOLEAN]]
    /\ fetch \in [Conversations -> {NoData, Asked} \cup SUBSET Messages]
    /\ jobs \in [Attempts -> {NoJob} \cup Started]
    /\ home \in [Questions -> Conversations \cup {NoConversation, "untyped"}]
    /\ TurnTypes

\* The turn in flight is the one its request carries, and is asked where the
\* history says.
TurnIsAsked ==
    /\ turn.at = "creating" => home[turn.q] = NoConversation
    /\ turn.at = "streaming" =>
         /\ home[turn.q] = turn.conversation
         /\ jobs[turn.job] # NoJob
         /\ jobs[turn.job].q = turn.q
         /\ jobs[turn.job].conversation = turn.conversation

\* A turn nobody left is the one of the open conversation; if its question was
\* shown in a loaded transcript, no detail that arrives may replace it.
TurnIsHere ==
    Busy /\ turn.q \notin left =>
        /\ turn.at = "creating" => current = NoConversation /\ OnScreen("user", turn.q)
        /\ turn.at = "streaming" => current = turn.conversation
        /\ turn.at = "streaming" /\ turn.ready =>
             loaded = turn.conversation /\ OnScreen("user", turn.q)
        /\ loaded = NoConversation => OnScreen("user", turn.q)

\* The cache and the answers on their way hold saved messages, of conversations
\* that exist; an answer the stream has announced is one of them.
CacheIsSaved ==
    /\ \A c \in Conversations : rows[c] # {} => c \in made
    /\ \A c \in Conversations : detail[c].data # NoData => detail[c].data \subseteq rows[c]
    /\ \A c \in Conversations : fetch[c] \notin {NoData, Asked} => fetch[c] \subseteq rows[c]
    /\ \A j \in Attempts : jobs[j] # NoJob =>
         /\ jobs[j].conversation \in made
         /\ jobs[j].at = "done" => Bubble("agent", jobs[j].q) \in rows[jobs[j].conversation]

\* The questions whose bubbles may be elsewhere than they were asked.
Strays == left \cup carried

\* What a conversation holds was asked in it, or strayed.
RowsAtHome ==
    \A c \in Conversations : \A m \in rows[c] : home[m.q] = c \/ m.q \in Strays

\* An error bubble can only be retried where its question was asked, unless it
\* strayed; while a turn that was left is in flight there are only carried ones.
ErrorsAtHome ==
    /\ \A q \in Questions : OnScreen("error", q) => home[q] = current \/ q \in Strays
    /\ Busy /\ turn.q \in left => \A q \in Questions : OnScreen("error", q) => q \in carried

\* The blank page shows its own questions, and those it was opened over.
BlankIsOwn ==
    current = NoConversation =>
        \A b \in shown : b.q \in Strays \/ home[b.q] = NoConversation

\* Until a detail is loaded, every bubble has its question on screen: those of the
\* blank page will move together to the conversation it becomes.
AskedIsShown ==
    loaded = NoConversation =>
        \A b \in shown : b.q \in left \/ OnScreen("user", b.q)

PlaceInv == RowsAtHome /\ ErrorsAtHome /\ BlankIsOwn /\ AskedIsShown /\ OnlyLeftOrCarriedStray

ChatInv ==
    /\ ChatTypes /\ TurnIsAsked /\ TurnIsHere
    /\ CacheIsSaved /\ AnswersAreSaved /\ PlaceInv

(****************************************************************************)
(* Facts about bubbles and turns.                                           *)
(****************************************************************************)

LEMMA BubbleFacts ==
    ASSUME NEW role, NEW q
    PROVE  /\ Bubble(role, q).role = role /\ Bubble(role, q).q = q
           /\ q \in Questions /\ role \in {"user", "agent"} => Bubble(role, q) \in Messages
           /\ q \in Questions /\ role \in {"user", "agent", "error"} => Bubble(role, q) \in Bubbles
  BY DEF Bubble, Messages, Bubbles

LEMMA MessageFacts ==
    /\ Messages \subseteq Bubbles
    /\ \A m \in Messages : m.q \in Questions /\ m.role # "error"
    /\ \A b \in Bubbles : b.q \in Questions /\ b = Bubble(b.role, b.q)
  BY DEF Messages, Bubbles, Bubble

LEMMA IdleFacts ==
    /\ Idle.at = "idle" /\ NoJob.at = "unsent" /\ NoJob \notin Started
    /\ ChatTypes => (Busy <=> turn.at \in {"creating", "streaming"})
    /\ ChatTypes => (Busy => turn.q \in Questions)
  BY DEF Idle, NoJob, Started, ChatTypes, TurnTypes, Busy, Typed

\* The data markers are no transcripts, the blank page is no conversation.
LEMMA MarkerFacts ==
    /\ NoConversation \notin Conversations /\ NoConversation # "untyped"
    /\ "untyped" \notin Conversations /\ NoData # Asked
    /\ NoData \notin SUBSET Messages /\ Asked \notin SUBSET Messages
  BY MarkersAreNotData

LEMMA ChatInit ==
    ASSUME Init PROVE ChatInv
<1>. USE MarkerFacts, IdleFacts
<1>1. ChatTypes
  <2>1. TypeOK
    BY ExistingAreConversations DEF Init, TypeOK, Typed
  <2>2. TurnTypes
    BY DEF Init, TurnTypes, Busy
  <2>3. /\ detail \in [Conversations -> [data : {NoData} \cup SUBSET Messages, stale : BOOLEAN]]
        /\ fetch \in [Conversations -> {NoData, Asked} \cup SUBSET Messages]
        /\ jobs \in [Attempts -> {NoJob} \cup Started]
        /\ home \in [Questions -> Conversations \cup {NoConversation, "untyped"}]
    BY DEF Init
  <2>. QED
    BY <2>1, <2>2, <2>3 DEF ChatTypes
<1>2. TurnIsAsked /\ TurnIsHere
  BY DEF Init, TurnIsAsked, TurnIsHere, Busy
<1>3. CacheIsSaved /\ AnswersAreSaved
  BY DEF Init, CacheIsSaved, AnswersAreSaved, OnScreen
<1>4. PlaceInv
  BY DEF Init, PlaceInv, RowsAtHome, ErrorsAtHome, BlankIsOwn, AskedIsShown,
         OnlyLeftOrCarriedStray, OnScreen, Busy
<1>. QED
  BY <1>1, <1>2, <1>3, <1>4 DEF ChatInv

(****************************************************************************)
(* The server.                                                              *)
(****************************************************************************)

\* A saved message stays saved, an existing conversation stays.
LEMMA SavedStays ==
    ASSUME AnswersAreSaved, made \subseteq made',
           \A c \in Conversations : rows[c] \subseteq rows'[c],
           TypeOK, UNCHANGED shown
    PROVE  AnswersAreSaved'
  BY DEF AnswersAreSaved, OnScreen, TypeOK

\* Whatever becomes of a request, it still carries the question it was sent with.
KeepsQuestions ==
    \A i \in Attempts :
        /\ jobs'[i] # NoJob <=> jobs[i] # NoJob
        /\ jobs[i] # NoJob => /\ jobs'[i].q = jobs[i].q
                              /\ jobs'[i].conversation = jobs[i].conversation

LEMMA JobMoves ==
    ASSUME ChatTypes, NEW j \in Attempts, jobs[j] \in Started,
           NEW at \in {"done", "error", "received"}, NEW wrote \in SUBSET Questions,
           jobs' = [jobs EXCEPT ![j].at = at, ![j].wrote = wrote]
    PROVE  /\ jobs' \in [Attempts -> {NoJob} \cup Started]
           /\ jobs'[j].at = at
           /\ \A i \in Attempts \ {j} : jobs'[i] = jobs[i]
           /\ KeepsQuestions
<1>. DEFINE job == [jobs[j] EXCEPT !.at = at, !.wrote = wrote]
<1>1. /\ job \in Started /\ job # NoJob
      /\ job.at = at /\ job.q = jobs[j].q /\ job.conversation = jobs[j].conversation
  <2>1. job \in Started /\ job.at = at
    BY DEF Started
  <2>2. job.q = jobs[j].q /\ job.conversation = jobs[j].conversation
    BY DEF Started
  <2>. QED
    BY <2>1, <2>2, IdleFacts
<1>2. \A i \in Attempts : jobs'[i] = IF i = j THEN job ELSE jobs[i]
  BY DEF ChatTypes
<1>3. jobs[j] # NoJob
  BY IdleFacts
<1>. HIDE DEF job
<1>4. jobs' \in [Attempts -> {NoJob} \cup Started]
  <2>1. jobs' = [i \in Attempts |-> jobs'[i]]
    BY DEF ChatTypes
  <2>. QED
    BY <1>1, <1>2, <2>1 DEF ChatTypes
<1>. QED
  BY <1>1, <1>2, <1>3, <1>4 DEF KeepsQuestions

LEMMA PersistStep ==
    ASSUME ChatInv, NEW j \in Attempts, Persist(j)
    PROVE  ChatInv'
<1>. DEFINE c == jobs[j].conversation
            new == {Bubble("user", jobs[j].q), Bubble("agent", jobs[j].q)}
<1>0. /\ jobs[j] \in Started /\ c \in Conversations /\ jobs[j].q \in Questions
      /\ c \in made /\ jobs[j] # NoJob
      /\ home[jobs[j].q] = c \/ jobs[j].q \in Strays
  BY IdleFacts DEF Persist, ChatInv, ChatTypes, Started, CacheIsSaved, PlaceInv,
                   OnlyLeftOrCarriedStray, Strays
<1>1. /\ \A d \in Conversations : rows'[d] = IF d = c THEN rows[d] \cup new ELSE rows[d]
      /\ rows' \in [Conversations -> SUBSET Messages]
      /\ new \subseteq Messages /\ \A m \in new : m.q = jobs[j].q
  <2>1. new \subseteq Messages /\ \A m \in new : m.q = jobs[j].q
    BY <1>0, BubbleFacts
  <2>2. rows' = [rows EXCEPT ![c] = rows[c] \cup new]
    BY DEF Persist
  <2>. HIDE DEF new
  <2>. QED
    BY <1>0, <2>1, <2>2 DEF ChatInv, ChatTypes, TypeOK
<1>2. /\ jobs' \in [Attempts -> {NoJob} \cup Started]
      /\ jobs'[j].at = "done"
      /\ \A i \in Attempts \ {j} : jobs'[i] = jobs[i]
      /\ KeepsQuestions
  <2>. DEFINE wrote == {jobs[j].q} \cap Orders
  <2>1. jobs' = [jobs EXCEPT ![j].at = "done", ![j].wrote = wrote]
    BY DEF Persist
  <2>2. wrote \in SUBSET Questions
    BY <1>0
  <2>. HIDE DEF wrote
  <2>. QED
    BY <1>0, <2>1, <2>2, JobMoves DEF ChatInv
<1>3. UNCHANGED <<made, current, loaded, shown, turn, detail, fetch, home, left, carried>>
  BY DEF Persist, panel, cached, history
<1>. HIDE DEF c, new
<1>4. ChatTypes'
  BY <1>1, <1>2, <1>3 DEF ChatInv, ChatTypes, TypeOK, TurnTypes, Typed, Busy
<1>5. TurnIsAsked' /\ TurnIsHere'
  BY <1>2, <1>3 DEF ChatInv, ChatTypes, TurnTypes, TurnIsAsked, TurnIsHere, OnScreen, Busy,
                    KeepsQuestions
<1>6. CacheIsSaved'
  <2>1. \A d \in Conversations : rows[d] \subseteq rows'[d]
    BY <1>1
  <2>2. Bubble("agent", jobs[j].q) \in rows'[c]
    BY <1>0, <1>1 DEF new
  <2>3. \A i \in Attempts : jobs'[i] # NoJob =>
          /\ jobs'[i].conversation \in made
          /\ jobs'[i].at = "done" => Bubble("agent", jobs'[i].q) \in rows'[jobs'[i].conversation]
    <3> TAKE i \in Attempts
    <3>1. CASE i = j
      BY <1>0, <1>2, <2>2, <3>1 DEF KeepsQuestions, c
    <3>2. CASE i # j
      BY <1>2, <2>1, <3>2 DEF ChatInv, ChatTypes, CacheIsSaved, Started
    <3>. QED
      BY <3>1, <3>2
  <2>4. \A d \in Conversations : rows'[d] # {} => d \in made
    BY <1>0, <1>1 DEF ChatInv, CacheIsSaved
  <2>5. \A d \in Conversations :
          /\ detail[d].data # NoData => detail[d].data \subseteq rows'[d]
          /\ fetch[d] \notin {NoData, Asked} => fetch[d] \subseteq rows'[d]
    BY <2>1 DEF ChatInv, CacheIsSaved
  <2>. QED
    BY <1>3, <2>3, <2>4, <2>5 DEF CacheIsSaved
<1>7. AnswersAreSaved'
  BY <1>1, <1>3, SavedStays DEF ChatInv, ChatTypes
<1>8. PlaceInv'
  <2>1. RowsAtHome'
    BY <1>0, <1>1, <1>3 DEF ChatInv, PlaceInv, RowsAtHome, Strays
  <2>2. ErrorsAtHome' /\ BlankIsOwn' /\ AskedIsShown'
    BY <1>3 DEF ChatInv, PlaceInv, ErrorsAtHome, BlankIsOwn, AskedIsShown, Strays,
                OnScreen, Busy
  <2>3. OnlyLeftOrCarriedStray'
    BY <1>2, <1>3 DEF ChatInv, PlaceInv, OnlyLeftOrCarriedStray, KeepsQuestions
  <2>. QED
    BY <2>1, <2>2, <2>3 DEF PlaceInv
<1>. QED
  BY <1>4, <1>5, <1>6, <1>7, <1>8 DEF ChatInv

LEMMA BreakStep ==
    ASSUME ChatInv, NEW j \in Attempts, Break(j)
    PROVE  ChatInv'
<1>0. jobs[j] \in Started
  BY IdleFacts DEF Break, ChatInv, ChatTypes
<1>1. /\ jobs' \in [Attempts -> {NoJob} \cup Started]
      /\ jobs'[j].at = "error"
      /\ \A i \in Attempts \ {j} : jobs'[i] = jobs[i]
      /\ KeepsQuestions
  <2>1. PICK wrote \in SUBSET ({jobs[j].q} \cap Orders) :
          jobs' = [jobs EXCEPT ![j].at = "error", ![j].wrote = wrote]
    BY DEF Break
  <2>2. wrote \in SUBSET Questions
    BY <1>0, <2>1 DEF Started
  <2>. QED
    BY <1>0, <2>1, <2>2, JobMoves DEF ChatInv
<1>2. UNCHANGED <<made, rows, current, loaded, shown, turn, detail, fetch, home, left, carried>>
  BY DEF Break, panel, cached, history
<1>3. ChatTypes' /\ TurnIsHere' /\ AnswersAreSaved'
  BY <1>1, <1>2 DEF ChatInv, ChatTypes, TypeOK, TurnTypes, Typed, Busy, TurnIsHere,
                    AnswersAreSaved, OnScreen
<1>4. TurnIsAsked' /\ CacheIsSaved'
  <2>1. \A i \in Attempts : jobs'[i].at = "done" => jobs[i].at = "done"
    BY <1>1
  <2>. QED
    BY <1>1, <1>2, <2>1
       DEF ChatInv, ChatTypes, TurnTypes, TurnIsAsked, CacheIsSaved, KeepsQuestions
<1>5. PlaceInv'
  BY <1>1, <1>2
     DEF ChatInv, PlaceInv, RowsAtHome, ErrorsAtHome, BlankIsOwn, AskedIsShown, Strays,
         OnlyLeftOrCarriedStray, OnScreen, Busy, KeepsQuestions
<1>. QED
  BY <1>3, <1>4, <1>5 DEF ChatInv

(****************************************************************************)
(* The cache, and the transcript that is taken from it.                     *)
(****************************************************************************)

CacheTypes ==
    /\ detail \in [Conversations -> [data : {NoData} \cup SUBSET Messages, stale : BOOLEAN]]
    /\ fetch \in [Conversations -> {NoData, Asked} \cup SUBSET Messages]

CachedRows ==
    \A c \in Conversations :
        /\ detail[c].data # NoData => detail[c].data \subseteq rows[c]
        /\ fetch[c] \notin {NoData, Asked} => fetch[c] \subseteq rows[c]

\* The details move, and nobody looks.
LEMMA UnseenStep ==
    ASSUME ChatInv, UNCHANGED <<server, panel, history>>, CacheTypes', CachedRows'
    PROVE  ChatInv'
<1>1. UNCHANGED <<made, rows, jobs, current, loaded, shown, turn, home, left, carried>>
  BY DEF server, panel, history
<1>2. ChatTypes'
  <2>1. \A c \in Conversations : detail'[c].data = NoData \/ detail'[c].data \subseteq Messages
    BY DEF CacheTypes
  <2>. QED
    BY <1>1, <2>1 DEF ChatInv, ChatTypes, CacheTypes, TypeOK, TurnTypes, Typed, Busy
<1>3. TurnIsAsked' /\ TurnIsHere' /\ AnswersAreSaved'
  BY <1>1 DEF ChatInv, TurnIsAsked, TurnIsHere, AnswersAreSaved, OnScreen, Busy
<1>4. CacheIsSaved'
  BY <1>1 DEF ChatInv, CacheIsSaved, CachedRows
<1>5. PlaceInv'
  BY <1>1 DEF ChatInv, PlaceInv, RowsAtHome, ErrorsAtHome, BlankIsOwn, AskedIsShown, Strays,
              OnlyLeftOrCarriedStray, OnScreen, Busy
<1>. QED
  BY <1>2, <1>3, <1>4, <1>5 DEF ChatInv

LEMMA ServeStep ==
    ASSUME ChatInv, NEW c \in Conversations, ServeDetail(c)
    PROVE  ChatInv'
<1>1. UNCHANGED <<server, panel, history>> /\ detail' = detail
      /\ fetch' = [fetch EXCEPT ![c] = rows[c]]
  BY DEF ServeDetail
<1>2. CacheTypes'
  BY <1>1 DEF ChatInv, ChatTypes, TypeOK, CacheTypes
<1>3. CachedRows'
  BY <1>1 DEF ChatInv, ChatTypes, CacheIsSaved, CachedRows, server
<1>. QED
  BY <1>1, <1>2, <1>3, UnseenStep

LEMMA FailStep ==
    ASSUME ChatInv, NEW c \in Conversations, DetailFails(c)
    PROVE  ChatInv'
<1>1. UNCHANGED <<server, panel, history>> /\ detail' = detail
      /\ fetch' = [fetch EXCEPT ![c] = NoData]
  BY DEF DetailFails
<1>2. CacheTypes'
  BY <1>1 DEF ChatInv, ChatTypes, CacheTypes
<1>3. CachedRows'
  BY <1>1 DEF ChatInv, ChatTypes, CacheIsSaved, CachedRows, server
<1>. QED
  BY <1>1, <1>2, <1>3, UnseenStep

LEMMA CollectStep ==
    ASSUME ChatInv, NEW c \in Conversations, Collect(c)
    PROVE  ChatInv'
<1>1. UNCHANGED <<server, panel, history>> /\ fetch' = fetch
      /\ detail' = [detail EXCEPT ![c] = [data |-> NoData, stale |-> FALSE]]
  BY DEF Collect
<1>2. CacheTypes'
  BY <1>1 DEF ChatInv, ChatTypes, CacheTypes
<1>3. CachedRows'
  BY <1>1 DEF ChatInv, ChatTypes, CacheIsSaved, CachedRows, server
<1>. QED
  BY <1>1, <1>2, <1>3, UnseenStep

\* A transcript taken from saved messages, or emptied, shows what was asked in
\* the conversation it opens, and no error bubble.
LEMMA Shows ==
    ASSUME ChatInv, NEW c \in Conversations \cup {NoConversation}, current' = c,
           UNCHANGED <<made, rows, jobs, home, turn, carried>>, left \subseteq left',
           \/ shown' = {}
           \/ c \in Conversations /\ shown' \subseteq rows[c] /\ loaded' = c
    PROVE  AnswersAreSaved' /\ PlaceInv'
<1>1. \A b \in shown' : /\ b.role # "error" /\ c \in Conversations /\ loaded' = c
                        /\ b \in rows[c] /\ c \in made
                        /\ home[b.q] = c \/ b.q \in Strays
  BY MessageFacts
     DEF ChatInv, ChatTypes, TypeOK, CacheIsSaved, PlaceInv, RowsAtHome
<1>2. AnswersAreSaved'
  BY <1>1 DEF AnswersAreSaved, OnScreen
<1>3. RowsAtHome'
  BY DEF ChatInv, PlaceInv, RowsAtHome, Strays
<1>4. ErrorsAtHome'
  <2>1. \A q \in Questions : Bubble("error", q) \notin shown'
    BY <1>1, BubbleFacts
  <2>. QED
    BY <2>1 DEF ErrorsAtHome, OnScreen
<1>5. BlankIsOwn' /\ AskedIsShown'
  BY <1>1, MarkerFacts DEF BlankIsOwn, AskedIsShown
<1>6. OnlyLeftOrCarriedStray'
  BY <1>1 DEF ChatInv, PlaceInv, OnlyLeftOrCarriedStray, Strays
<1>. QED
  BY <1>2, <1>3, <1>4, <1>5, <1>6 DEF PlaceInv

\* A transcript taken along to a blank page is noted as carried.
LEMMA Carries ==
    ASSUME ChatInv, loaded = NoConversation, UNCHANGED <<made, rows, jobs, home, turn, shown>>,
           left \subseteq left', carried' = carried \cup {b.q : b \in shown}
    PROVE  AnswersAreSaved' /\ PlaceInv'
<1>1. \A b \in shown : b.q \in carried'
  OBVIOUS
<1>2. carried \subseteq carried' /\ Strays \subseteq Strays' /\ carried' \subseteq Strays'
  BY DEF Strays
<1>3. AnswersAreSaved'
  BY DEF ChatInv, AnswersAreSaved, OnScreen
<1>4. RowsAtHome'
  BY <1>2 DEF ChatInv, PlaceInv, RowsAtHome
<1>5. ErrorsAtHome'
  <2>1. \A q \in Questions : OnScreen("error", q)' => q \in carried'
    <3> TAKE q \in Questions
    <3>1. Bubble("error", q).q = q
      BY BubbleFacts
    <3>. QED
      BY <1>1, <3>1 DEF OnScreen
  <2>. QED
    BY <1>2, <2>1 DEF ErrorsAtHome
<1>6. BlankIsOwn' /\ AskedIsShown'
  BY <1>1, <1>2 DEF ChatInv, PlaceInv, BlankIsOwn, AskedIsShown, OnScreen
<1>7. OnlyLeftOrCarriedStray'
  BY <1>1, <1>2 DEF ChatInv, PlaceInv, OnlyLeftOrCarriedStray, Strays
<1>. QED
  BY <1>3, <1>4, <1>5, <1>6, <1>7 DEF PlaceInv

\* A detail that arrives only seeds a transcript nothing was typed in, or whose
\* turn was left: the turn of a loaded conversation does not lose its question.
LEMMA ArriveStep ==
    ASSUME ChatInv, NEW c \in Conversations, DetailArrives(c)
    PROVE  ChatInv'
<1>1. /\ fetch[c] \in SUBSET Messages /\ fetch[c] \subseteq rows[c]
      /\ UNCHANGED <<made, rows, jobs, current, turn, home, left, carried>>
      /\ detail' = [detail EXCEPT ![c] = [data |-> fetch[c], stale |-> FALSE]]
      /\ fetch' = [fetch EXCEPT ![c] = NoData]
  BY DEF DetailArrives, ChatInv, ChatTypes, CacheIsSaved, server, history
<1>2. CacheTypes'
  BY <1>1 DEF ChatInv, ChatTypes, CacheTypes
<1>3. CachedRows'
  BY <1>1 DEF ChatInv, ChatTypes, CacheIsSaved, CachedRows
<1>4. CASE UNCHANGED <<loaded, shown>>
  BY <1>1, <1>2, <1>3, <1>4, UnseenStep DEF server, panel, history
<1>5. CASE c = current /\ loaded # c /\ loaded' = c /\ shown' = fetch[c]
  <2>1. AnswersAreSaved' /\ PlaceInv'
    BY <1>1, <1>5, Shows
  <2>2. ChatTypes'
    <3>1. shown' \subseteq Bubbles
      BY <1>1, <1>5, MessageFacts
    <3>2. \A d \in Conversations : detail'[d].data = NoData \/ detail'[d].data \subseteq Messages
      BY <1>2 DEF CacheTypes
    <3>. QED
      BY <1>1, <1>2, <1>5, <3>1, <3>2
         DEF ChatInv, ChatTypes, CacheTypes, TypeOK, TurnTypes, Typed, Busy
  <2>3. TurnIsAsked' /\ CacheIsSaved'
    BY <1>1, <1>3 DEF ChatInv, TurnIsAsked, CacheIsSaved, CachedRows
  <2>4. TurnIsHere'
    BY <1>1, <1>5, MarkerFacts DEF ChatInv, TurnIsHere, Busy
  <2>. QED
    BY <2>1, <2>2, <2>3, <2>4 DEF ChatInv
<1>. QED
  BY <1>4, <1>5 DEF DetailArrives, Seed

(****************************************************************************)
(* The page.                                                                *)
(****************************************************************************)

\* Whatever the transcript becomes, the rest follows.
LEMMA OpenRest ==
    ASSUME ChatInv, NEW c \in Conversations \cup {NoConversation}, Open(c),
           shown' \subseteq Bubbles, AnswersAreSaved', PlaceInv'
    PROVE  ChatInv'
<1>1. /\ UNCHANGED <<made, rows, jobs, turn, detail, home>>
      /\ c \in made \cup {NoConversation} /\ current' = c
      /\ loaded' = LoadedBy(c)
      /\ left' = IF Busy THEN left \cup {turn.q} ELSE left
      /\ carried' \subseteq carried \cup {b.q : b \in shown}
      /\ Observe(c)
  BY DEF Open, server
<1>2. fetch' \in [Conversations -> {NoData, Asked} \cup SUBSET Messages]
      /\ \A d \in Conversations : fetch'[d] \in {fetch[d], Asked}
  BY <1>1 DEF Observe, ChatInv, ChatTypes
<1>3. ChatTypes'
  <2>1. carried' \subseteq Questions
    BY <1>1, MessageFacts DEF ChatInv, ChatTypes, TypeOK
  <2>2. left' \subseteq Typed /\ loaded' \in {NoConversation, c}
    BY <1>1 DEF LoadedBy, ChatInv, ChatTypes, TypeOK, TurnTypes
  <2>. QED
    BY <1>1, <1>2, <2>1, <2>2 DEF ChatInv, ChatTypes, TypeOK, TurnTypes, Typed, Busy
<1>4. TurnIsAsked' /\ TurnIsHere'
  BY <1>1 DEF ChatInv, TurnIsAsked, TurnIsHere, Busy
<1>5. CacheIsSaved'
  BY <1>1, <1>2 DEF ChatInv, CacheIsSaved
<1>. QED
  BY <1>3, <1>4, <1>5 DEF ChatInv

LEMMA OpenStep ==
    ASSUME ChatInv, NEW c \in Conversations \cup {NoConversation}, Open(c)
    PROVE  ChatInv'
<1>1. /\ UNCHANGED <<made, rows, jobs, turn, detail, home>>
      /\ c \in made \cup {NoConversation} /\ c # current /\ current' = c
      /\ shown' = Transcript(c) /\ loaded' = LoadedBy(c)
      /\ left' = IF Busy THEN left \cup {turn.q} ELSE left
      /\ carried' = IF loaded = c THEN carried \cup {b.q : b \in shown} ELSE carried
      /\ Observe(c)
  BY DEF Open, server, ResetSkipped
<1>2. loaded = c => c = NoConversation
  BY <1>1 DEF ChatInv, ChatTypes, TypeOK
<1>3. CASE loaded # c
  <2>1. \/ shown' = {}
        \/ c \in Conversations /\ shown' \subseteq rows[c] /\ loaded' = c
    BY <1>1, <1>3 DEF Transcript, LoadedBy, ResetSkipped, ChatInv, CacheIsSaved
  <2>2. shown' \subseteq Bubbles
    BY <1>1, <2>1, MessageFacts DEF ChatInv, ChatTypes, TypeOK
  <2>3. AnswersAreSaved' /\ PlaceInv'
    BY <1>1, <1>3, <2>1, Shows
  <2>. QED
    BY <2>2, <2>3, OpenRest
<1>4. CASE loaded = c
  <2>1. shown' = shown
    BY <1>1, <1>2, <1>4 DEF Transcript, ResetSkipped
  <2>2. AnswersAreSaved' /\ PlaceInv'
    BY <1>1, <1>2, <1>4, <2>1, Carries
  <2>3. shown' \subseteq Bubbles
    BY <2>1 DEF ChatInv, ChatTypes, TypeOK
  <2>. QED
    BY <2>2, <2>3, OpenRest
<1>. QED
  BY <1>3, <1>4

(****************************************************************************)
(* The panel.                                                               *)
(****************************************************************************)

\* A request is sent: a free one now carries the question, and so does the turn.
Sent(j, c, q) ==
    /\ jobs[j] = NoJob
    /\ jobs' \in [Attempts -> {NoJob} \cup Started]
    /\ \A i \in Attempts \ {j} : jobs'[i] = jobs[i]
    /\ jobs'[j] # NoJob /\ jobs'[j].at = "working"
    /\ jobs'[j].q = q /\ jobs'[j].conversation = c
    /\ turn' # Idle /\ turn'.at = "streaming"
    /\ turn'.q = q /\ turn'.conversation = c /\ turn'.job = j
    /\ turn'.ready => turn.at = "creating" \/ (loaded = c /\ Bubble("user", q) \in shown')

LEMMA AskSends ==
    ASSUME ChatTypes, NEW c \in Conversations, NEW q \in Questions, Ask(c, q)
    PROVE  \E j \in Attempts : Sent(j, c, q)
<1>. DEFINE job == [at |-> "working", conversation |-> c, q |-> q, wrote |-> {}]
<1>1. PICK j \in Attempts :
        /\ jobs[j] = NoJob /\ jobs' = [jobs EXCEPT ![j] = job]
        /\ turn' = [at |-> "streaming", q |-> q, conversation |-> c, job |-> j,
                    ready |-> \/ turn.at = "creating"
                              \/ loaded = c /\ Bubble("user", q) \in shown']
  BY DEF Ask, Free
<1>2. job \in Started /\ job # NoJob /\ job.at = "working" /\ job.q = q /\ job.conversation = c
  BY DEF Started, NoJob
<1>3. /\ turn' # Idle /\ turn'.at = "streaming"
      /\ turn'.q = q /\ turn'.conversation = c /\ turn'.job = j
      /\ turn'.ready => turn.at = "creating" \/ (loaded = c /\ Bubble("user", q) \in shown')
  BY <1>1 DEF Idle
<1>. HIDE DEF job
<1>4. /\ jobs' \in [Attempts -> {NoJob} \cup Started]
      /\ jobs'[j] = job /\ \A i \in Attempts \ {j} : jobs'[i] = jobs[i]
  BY <1>1, <1>2 DEF ChatTypes
<1>. QED
  BY <1>1, <1>2, <1>3, <1>4 DEF Sent

\* What submit leaves on screen: the question, or for a question asked again
\* what is no error.
ScreenFor(q) ==
    /\ shown' \subseteq shown \cup {Bubble("user", q)}
    /\ \A b \in shown : b.role # "error" => b \in shown'
    /\ q \in left => \A b \in shown' : b.role # "error"
    /\ loaded = NoConversation => q \in left \/ Bubble("user", q) \in shown'

\* A question is asked where its history is, unless it strayed.
LEMMA SubmitStep ==
    ASSUME ChatInv, NEW q \in Questions, ~Busy, ScreenFor(q),
           q \in Typed => home[q] = current \/ q \in Strays,
           home' = [home EXCEPT ![q] = current], Send(q)
    PROVE  ChatInv'
<1>1. /\ UNCHANGED <<made, rows, current, loaded, detail, fetch, left, carried>>
      /\ home' \in [Questions -> Conversations \cup {NoConversation, "untyped"}]
      /\ home'[q] = current /\ \A p \in Questions : p # q => home'[p] = home[p]
      /\ current \in made \cup {NoConversation} /\ current # "untyped"
      /\ made \subseteq Conversations /\ left \subseteq Questions
  BY MarkerFacts DEF Send, cached, ChatInv, ChatTypes, TypeOK, Typed
<1>2. shown' \subseteq Bubbles
  BY BubbleFacts DEF ScreenFor, ChatInv, ChatTypes, TypeOK
<1>3. left \subseteq Typed' /\ q \in Typed'
  BY <1>1 DEF ChatInv, ChatTypes, TypeOK, Typed
<1>4. \A p \in Questions : \A c \in Conversations :
        home[p] = c \/ p \in Strays => home'[p] = c \/ p \in Strays
  BY <1>1, MarkerFacts DEF Typed
<1>5. AnswersAreSaved'
  BY <1>1, BubbleFacts DEF ScreenFor, ChatInv, AnswersAreSaved, OnScreen
<1>6. RowsAtHome'
  BY <1>1, <1>4, MessageFacts DEF ChatInv, ChatTypes, TypeOK, PlaceInv, RowsAtHome, Strays
<1>7. \A b \in shown' : \/ home'[b.q] = current
                        \/ b.q \in Strays
                        \/ \E p \in left : home'[p] = current
  <2> TAKE b \in shown'
  <2>1. CASE b.q = q
    BY <1>1, <2>1
  <2>2. CASE b.q # q
    BY <1>1, <1>2, <2>2, BubbleFacts, MessageFacts
       DEF ScreenFor, ChatInv, PlaceInv, OnlyLeftOrCarriedStray, Strays
  <2>. QED
    BY <2>1, <2>2
<1>8. BlankIsOwn'
  <2> SUFFICES ASSUME current = NoConversation, NEW b \in shown', b.q \notin Strays
               PROVE  home'[b.q] = NoConversation
    BY <1>1 DEF BlankIsOwn, Strays
  <2>1. CASE b.q = q
    BY <1>1, <2>1
  <2>2. CASE b.q # q
    BY <1>1, <1>2, <2>2, BubbleFacts, MessageFacts
       DEF ScreenFor, ChatInv, PlaceInv, BlankIsOwn, Strays
  <2>. QED
    BY <2>1, <2>2
<1>13. AskedIsShown'
  <2> SUFFICES ASSUME loaded = NoConversation, NEW b \in shown', b.q \notin left
               PROVE  Bubble("user", b.q) \in shown'
    BY <1>1 DEF AskedIsShown, OnScreen
  <2>1. CASE b.q = q
    BY <2>1 DEF ScreenFor
  <2>2. CASE b.q # q
    <3>1. b \in shown /\ b.q \in Questions
      BY <1>2, <2>2, BubbleFacts, MessageFacts DEF ScreenFor
    <3>2. Bubble("user", b.q) \in shown
      BY <3>1 DEF ChatInv, PlaceInv, AskedIsShown, OnScreen
    <3>. QED
      BY <3>1, <3>2, BubbleFacts DEF ScreenFor
  <2>. QED
    BY <2>1, <2>2
<1>9. \A p \in Questions : OnScreen("error", p)' => home'[p] = current \/ p \in Strays
  BY <1>1, BubbleFacts DEF ScreenFor, ChatInv, PlaceInv, ErrorsAtHome, OnScreen
<1>10. q \in left => \A p \in Questions : ~OnScreen("error", p)'
  BY BubbleFacts DEF ScreenFor, OnScreen
<1>11. CASE current = NoConversation
  <2>1. turn' = [at |-> "creating", q |-> q] /\ jobs' = jobs
    BY <1>11 DEF Send
  <2>2. turn' # Idle /\ turn'.at = "creating" /\ turn'.q = q
    BY <2>1 DEF Idle
  <2>3. ChatTypes'
    BY <1>1, <1>2, <1>3, <2>1, <2>2 DEF ChatInv, ChatTypes, TypeOK, TurnTypes, Busy
  <2>4. TurnIsAsked' /\ TurnIsHere'
    BY <1>1, <1>11, <2>2 DEF ScreenFor, ChatInv, ChatTypes, TypeOK, TurnIsAsked, TurnIsHere,
                             OnScreen
  <2>5. CacheIsSaved'
    BY <1>1, <2>1 DEF ChatInv, CacheIsSaved
  <2>6. ErrorsAtHome'
    BY <1>1, <1>9, <1>10, <2>2 DEF ErrorsAtHome, Strays
  <2>7. OnlyLeftOrCarriedStray'
    BY <1>1, <1>4, <1>7, <2>1, IdleFacts
       DEF ChatInv, ChatTypes, Started, PlaceInv, OnlyLeftOrCarriedStray, Strays
  <2>. QED
    BY <1>5, <1>6, <1>8, <1>13, <2>3, <2>4, <2>5, <2>6, <2>7 DEF ChatInv, PlaceInv
<1>12. CASE current # NoConversation
  <2>1. PICK j \in Attempts : Sent(j, current, q)
    BY <1>1, <1>12, AskSends DEF Send, ChatInv
  <2>2. ChatTypes'
    BY <1>1, <1>2, <1>3, <1>12, <2>1 DEF Sent, ChatInv, ChatTypes, TypeOK, TurnTypes, Busy
  <2>3. TurnIsAsked' /\ TurnIsHere'
    BY <1>1, <2>1, IdleFacts DEF Sent, ScreenFor, ChatInv, TurnIsAsked, TurnIsHere, OnScreen
  <2>4. CacheIsSaved'
    BY <1>1, <1>12, <2>1 DEF Sent, ChatInv, CacheIsSaved
  <2>5. ErrorsAtHome'
    BY <1>1, <1>9, <1>10, <2>1 DEF Sent, ErrorsAtHome, Strays
  <2>6. OnlyLeftOrCarriedStray'
    BY <1>1, <1>4, <1>7, <2>1
       DEF Sent, ChatInv, ChatTypes, Started, PlaceInv, OnlyLeftOrCarriedStray, Strays
  <2>. QED
    BY <1>5, <1>6, <1>8, <1>13, <2>2, <2>3, <2>4, <2>5, <2>6 DEF ChatInv, PlaceInv
<1>. QED
  BY <1>11, <1>12

LEMMA TypeStep ==
    ASSUME ChatInv, NEW q \in Questions, Submit(q)
    PROVE  ChatInv'
<1>1. q \notin Typed /\ q \notin left /\ shown' = shown \cup {Bubble("user", q)}
  BY DEF Submit, ChatInv, ChatTypes, TypeOK
<1>2. ScreenFor(q)
  BY <1>1 DEF ScreenFor
<1>. QED
  BY <1>1, <1>2, SubmitStep DEF Submit

LEMMA RetryStep ==
    ASSUME ChatInv, NEW q \in Questions, Retry(q)
    PROVE  ChatInv'
<1>1. home[q] = current \/ q \in Strays
  BY DEF Retry, ChatInv, PlaceInv, ErrorsAtHome
<1>2. shown' = {b \in shown : b.role # "error"}
  BY DEF Retry
<1>3. loaded = NoConversation => q \in left \/ Bubble("user", q) \in shown'
  <2>1. Bubble("error", q) \in shown
    BY DEF Retry, OnScreen
  <2>. QED
    BY <1>2, <2>1, BubbleFacts DEF ChatInv, PlaceInv, AskedIsShown, OnScreen
<1>4. ScreenFor(q)
  BY <1>2, <1>3 DEF ScreenFor
<1>. QED
  BY <1>1, <1>4, SubmitStep DEF Retry

\* The blank page becomes the conversation of its turn, with all it shows.
LEMMA CreatedStep ==
    ASSUME ChatInv, NEW c \in Conversations, Created(c)
    PROVE  ChatInv'
<1>. DEFINE asked == turn.q
<1>1. /\ turn.at = "creating" /\ Busy /\ asked \in Questions /\ home[asked] = NoConversation
      /\ c \notin made /\ made' = made \cup {c} /\ current' = c
      /\ loaded' = c /\ shown' = shown
      /\ detail' = [detail EXCEPT ![c] = [data |-> {}, stale |-> FALSE]]
      /\ UNCHANGED <<rows, fetch, left, carried>>
  BY IdleFacts DEF Created, MarkLoaded, ChatInv, TurnIsAsked
<1>2. /\ home' \in [Questions -> Conversations \cup {NoConversation, "untyped"}]
      /\ home'[asked] = c
      /\ \A q \in Questions :
            /\ home'[q] = home[q] \/ (home[q] = NoConversation /\ home'[q] = c)
            /\ home[q] = NoConversation /\ OnScreen("user", q) => home'[q] = c
  BY <1>1 DEF Created, ChatInv, ChatTypes
<1>3. PICK j \in Attempts : Sent(j, c, asked)
  BY <1>1, AskSends DEF Created, ChatInv
<1>. HIDE DEF asked
<1>4. \A q \in Questions : \A d \in Conversations :
        home[q] = d \/ q \in Strays => home'[q] = d \/ q \in Strays
  BY <1>2, MarkerFacts
<1>5. asked \notin left =>
        /\ current = NoConversation /\ OnScreen("user", asked)
        /\ \A b \in shown : b.q \in Strays \/ home'[b.q] = c
  <2> SUFFICES ASSUME asked \notin left
               PROVE  /\ current = NoConversation /\ OnScreen("user", asked)
                      /\ \A b \in shown : b.q \in Strays \/ home'[b.q] = c
    OBVIOUS
  <2>1. current = NoConversation /\ OnScreen("user", asked) /\ loaded = NoConversation
    BY <1>1 DEF asked, ChatInv, ChatTypes, TypeOK, TurnIsHere
  <2>2. \A b \in shown : b.q \in Questions
    BY MessageFacts DEF ChatInv, ChatTypes, TypeOK
  <2>3. \A b \in shown : b.q \in Strays \/ (home[b.q] = NoConversation /\ OnScreen("user", b.q))
    BY <2>1 DEF ChatInv, PlaceInv, BlankIsOwn, AskedIsShown, Strays
  <2>. QED
    BY <1>2, <2>1, <2>2, <2>3
<1>6. ChatTypes'
  <2>1. left \subseteq Typed' /\ asked \in Typed'
    BY <1>1, <1>2, MarkerFacts DEF ChatInv, ChatTypes, TypeOK, Typed
  <2>2. CacheTypes'
    BY <1>1 DEF ChatInv, ChatTypes, CacheTypes
  <2>3. \A d \in Conversations : detail'[d].data = NoData \/ detail'[d].data \subseteq Messages
    BY <2>2 DEF CacheTypes
  <2>. QED
    BY <1>1, <1>2, <1>3, <2>1, <2>2, <2>3
       DEF Sent, ChatInv, ChatTypes, CacheTypes, TypeOK, TurnTypes, Busy
<1>7. TurnIsAsked' /\ TurnIsHere'
  BY <1>1, <1>2, <1>3, <1>5, MarkerFacts DEF Sent, TurnIsAsked, TurnIsHere, OnScreen
<1>8. CacheIsSaved'
  BY <1>1, <1>3 DEF Sent, ChatInv, ChatTypes, CacheIsSaved
<1>9. AnswersAreSaved'
  BY <1>1 DEF ChatInv, AnswersAreSaved, OnScreen
<1>10. RowsAtHome'
  BY <1>1, <1>4, MessageFacts DEF ChatInv, ChatTypes, TypeOK, PlaceInv, RowsAtHome, Strays
<1>11. ErrorsAtHome'
  <2>1. asked \in left => \A q \in Questions : OnScreen("error", q) => q \in carried
    BY <1>1 DEF asked, ChatInv, PlaceInv, ErrorsAtHome
  <2>2. \A q \in Questions : OnScreen("error", q) => home'[q] = c \/ q \in Strays
    BY <1>5, <2>1, BubbleFacts DEF OnScreen, Strays
  <2>. QED
    BY <1>1, <1>3, <2>1, <2>2 DEF Sent, ErrorsAtHome, OnScreen, Strays
<1>12. BlankIsOwn' /\ AskedIsShown'
  BY <1>1, MarkerFacts DEF BlankIsOwn, AskedIsShown
<1>13. OnlyLeftOrCarriedStray'
  <2>1. \A b \in shown' : \/ home'[b.q] = current'
                          \/ b.q \in (left \cup carried)'
                          \/ \E q \in left' : home'[q] = current'
    BY <1>1, <1>2, <1>5 DEF Strays
  <2>2. \A i \in Attempts : jobs'[i] # NoJob =>
          home'[jobs'[i].q] = jobs'[i].conversation \/ jobs'[i].q \in (left \cup carried)'
    BY <1>1, <1>2, <1>3, <1>4
       DEF Sent, ChatInv, ChatTypes, Started, PlaceInv, OnlyLeftOrCarriedStray, Strays
  <2>. QED
    BY <2>1, <2>2 DEF OnlyLeftOrCarriedStray
<1>. QED
  BY <1>6, <1>7, <1>8, <1>9, <1>10, <1>11, <1>12, <1>13 DEF ChatInv, PlaceInv

\* A turn that ends with a bubble of its own leaves the rest of the place as it was.
LEMMA EndsHere ==
    ASSUME ChatInv, Busy, NEW role \in {"agent", "error"},
           shown' = shown \cup {Bubble(role, turn.q)}, turn' = Idle,
           KeepsQuestions, UNCHANGED <<rows, current, loaded, home, left, carried>>,
           turn.at = "creating" => role = "error"
    PROVE  PlaceInv'
<1>1. turn.q \in left \/ home[turn.q] = current
  BY IdleFacts DEF ChatInv, TurnIsAsked, TurnIsHere
<1>2. turn.q \in Questions /\ shown \subseteq Bubbles
  BY IdleFacts DEF ChatInv, ChatTypes, TypeOK
<1>3. RowsAtHome'
  BY DEF ChatInv, PlaceInv, RowsAtHome, Strays
<1>4. ErrorsAtHome'
  BY <1>1, <1>2, BubbleFacts DEF ChatInv, PlaceInv, ErrorsAtHome, Strays, OnScreen, Busy
<1>5. BlankIsOwn'
  BY <1>1, <1>2, BubbleFacts DEF ChatInv, PlaceInv, BlankIsOwn, Strays
<1>6. AskedIsShown'
  <2>1. loaded = NoConversation => turn.q \in left \/ OnScreen("user", turn.q)
    BY DEF ChatInv, TurnIsHere
  <2>. QED
    BY <1>2, <2>1, BubbleFacts DEF ChatInv, PlaceInv, AskedIsShown, OnScreen
<1>7. OnlyLeftOrCarriedStray'
  BY <1>1, <1>2, BubbleFacts DEF ChatInv, PlaceInv, OnlyLeftOrCarriedStray, KeepsQuestions
<1>. QED
  BY <1>3, <1>4, <1>5, <1>6, <1>7 DEF PlaceInv

LEMMA FailTurnStep ==
    ASSUME ChatInv, Busy, FailTurn, made \subseteq made', made' \subseteq Conversations
    PROVE  ChatInv'
<1>1. /\ shown' = shown \cup {Bubble("error", turn.q)} /\ turn' = Idle
      /\ UNCHANGED <<rows, jobs, current, loaded, detail, fetch, home, left, carried>>
  BY DEF FailTurn, cached, history
<1>2. turn.q \in Questions
  BY IdleFacts DEF ChatInv
<1>3. ChatTypes'
  BY <1>1, <1>2, BubbleFacts, IdleFacts DEF ChatInv, ChatTypes, TypeOK, TurnTypes, Typed, Busy
<1>4. TurnIsAsked' /\ TurnIsHere'
  BY <1>1, IdleFacts DEF TurnIsAsked, TurnIsHere, Busy
<1>5. CacheIsSaved'
  BY <1>1 DEF ChatInv, CacheIsSaved
<1>6. AnswersAreSaved'
  BY <1>1, BubbleFacts DEF ChatInv, AnswersAreSaved, OnScreen
<1>7. PlaceInv'
  BY <1>1, EndsHere DEF KeepsQuestions
<1>. QED
  BY <1>3, <1>4, <1>5, <1>6, <1>7 DEF ChatInv

LEMMA CreateFailsStep ==
    ASSUME ChatInv, CreateFails
    PROVE  ChatInv'
<1>1. Busy /\ FailTurn /\ made \subseteq made' /\ made' \subseteq Conversations
  BY IdleFacts DEF CreateFails, ChatInv, ChatTypes, TypeOK
<1>. QED
  BY <1>1, FailTurnStep

LEMMA StreamFailsStep ==
    ASSUME ChatInv, StreamFails
    PROVE  ChatInv'
<1>1. Busy /\ FailTurn /\ made' = made /\ made \subseteq Conversations
  BY IdleFacts DEF StreamFails, ChatInv, ChatTypes, TypeOK
<1>. QED
  BY <1>1, FailTurnStep

\* An answer is shown after `done`, so after it was saved.
LEMMA AnswerStep ==
    ASSUME ChatInv, Answer
    PROVE  ChatInv'
<1>. DEFINE j == turn.job
            c == turn.conversation
<1>1. /\ Busy /\ turn.at = "streaming" /\ turn.q \in Questions
      /\ j \in Attempts /\ c \in Conversations
      /\ jobs[j].at = "done" /\ jobs[j] \in Started
      /\ jobs[j].q = turn.q /\ jobs[j].conversation = c
  BY IdleFacts DEF Answer, Done, ChatInv, ChatTypes, TurnTypes, TurnIsAsked
<1>2. /\ shown' = shown \cup {Bubble("agent", turn.q)} /\ turn' = Idle
      /\ UNCHANGED <<made, rows, current, loaded, fetch, home, left, carried>>
      /\ jobs' = [jobs EXCEPT ![j].at = "received"]
      /\ detail' = IF detail[c].data = NoData THEN detail
                   ELSE [detail EXCEPT ![c].stale = TRUE]
  BY DEF Answer, history
<1>. HIDE DEF j, c
<1>3. /\ jobs' \in [Attempts -> {NoJob} \cup Started]
      /\ jobs'[j].at = "received" /\ \A i \in Attempts \ {j} : jobs'[i] = jobs[i]
      /\ KeepsQuestions
  <2>. DEFINE job == [jobs[j] EXCEPT !.at = "received"]
  <2>1. job \in Started /\ job.at = "received"
    BY <1>1 DEF Started
  <2>2. job.q = jobs[j].q /\ job.conversation = jobs[j].conversation
    BY <1>1 DEF Started
  <2>3. jobs' = [jobs EXCEPT ![j] = job]
    BY <1>1, <1>2 DEF ChatInv, ChatTypes
  <2>. HIDE DEF job
  <2>. QED
    BY <1>1, <2>1, <2>2, <2>3, IdleFacts DEF ChatInv, ChatTypes, KeepsQuestions
<1>4. CacheTypes' /\ \A d \in Conversations : detail'[d].data = detail[d].data
  <2>1. CASE detail[c].data = NoData
    BY <1>2, <2>1 DEF ChatInv, ChatTypes, CacheTypes
  <2>2. CASE detail[c].data # NoData
    <3>. DEFINE entry == [detail[c] EXCEPT !.stale = TRUE]
    <3>1. /\ entry \in [data : {NoData} \cup SUBSET Messages, stale : BOOLEAN]
          /\ entry.data = detail[c].data
      BY <1>1 DEF ChatInv, ChatTypes
    <3>2. detail' = [detail EXCEPT ![c] = entry]
      BY <1>1, <1>2, <2>2 DEF ChatInv, ChatTypes
    <3>. HIDE DEF entry
    <3>3. CacheTypes'
      BY <1>2, <3>1, <3>2 DEF ChatInv, ChatTypes, CacheTypes
    <3>4. \A d \in Conversations : detail'[d] = IF d = c THEN entry ELSE detail[d]
      BY <3>2 DEF ChatInv, ChatTypes
    <3>. QED
      BY <3>1, <3>3, <3>4
  <2>. QED
    BY <2>1, <2>2
<1>5. ChatTypes'
  <2>1. \A d \in Conversations : detail'[d].data = NoData \/ detail'[d].data \subseteq Messages
    BY <1>4 DEF CacheTypes
  <2>2. shown' \subseteq Bubbles
    BY <1>1, <1>2, BubbleFacts DEF ChatInv, ChatTypes, TypeOK
  <2>. QED
    BY <1>2, <1>3, <1>4, <2>1, <2>2, IdleFacts
       DEF ChatInv, ChatTypes, CacheTypes, TypeOK, TurnTypes, Typed, Busy
<1>6. TurnIsAsked' /\ TurnIsHere'
  BY <1>2, IdleFacts DEF TurnIsAsked, TurnIsHere, Busy
<1>7. CacheIsSaved'
  <2>1. \A i \in Attempts : jobs'[i] # NoJob =>
          /\ jobs[i] # NoJob /\ jobs'[i].conversation = jobs[i].conversation
          /\ jobs'[i].at = "done" => jobs[i].at = "done" /\ jobs'[i].q = jobs[i].q
    BY <1>3 DEF KeepsQuestions
  <2>. QED
    BY <1>2, <1>4, <2>1 DEF ChatInv, CacheIsSaved
<1>8. AnswersAreSaved'
  <2>1. c \in made /\ Bubble("agent", turn.q) \in rows[c]
    BY <1>1, IdleFacts DEF ChatInv, CacheIsSaved
  <2>. QED
    BY <1>1, <1>2, <2>1, BubbleFacts DEF ChatInv, AnswersAreSaved, OnScreen
<1>9. PlaceInv'
  BY <1>1, <1>2, <1>3, EndsHere
<1>. QED
  BY <1>5, <1>6, <1>7, <1>8, <1>9 DEF ChatInv

(****************************************************************************)
(* The theorems.                                                            *)
(****************************************************************************)

LEMMA ChatNext ==
    ASSUME ChatInv, [Next]_vars
    PROVE  ChatInv'
<1>1. CASE \E j \in Attempts : Persist(j) \/ Break(j)
  BY <1>1, PersistStep, BreakStep
<1>2. CASE \E c \in Conversations :
              ServeDetail(c) \/ DetailArrives(c) \/ DetailFails(c) \/ Collect(c)
  BY <1>2, ServeStep, ArriveStep, FailStep, CollectStep
<1>3. CASE \E c \in Conversations \cup {NoConversation} : Open(c)
  BY <1>3, OpenStep
<1>4. CASE \E q \in Questions : Submit(q) \/ Retry(q)
  BY <1>4, TypeStep, RetryStep
<1>5. CASE Create
  BY <1>5, CreatedStep DEF Create
<1>6. CASE CreateFails \/ Answer \/ StreamFails
  BY <1>6, CreateFailsStep, AnswerStep, StreamFailsStep
<1>7. CASE UNCHANGED vars
  <2>1. CacheTypes' /\ CachedRows'
    BY <1>7 DEF vars, ChatInv, ChatTypes, CacheIsSaved, CacheTypes, CachedRows
  <2>. QED
    BY <1>7, <2>1, UnseenStep DEF vars, server, panel, history
<1>. QED
  BY <1>1, <1>2, <1>3, <1>4, <1>5, <1>6, <1>7 DEF Next

LEMMA ChatInvariant ==
    Spec => []ChatInv
  BY ChatInit, ChatNext, PTL DEF Spec

\* Whatever is opened, asked, lost or retried, the variables hold what they are
\* meant to; the cache holds saved messages only (ChatPanel.tsx, hooks.ts).
THEOREM TypeCorrect ==
    Spec => []TypeOK
<1>1. ChatInv => TypeOK
  BY DEF ChatInv, ChatTypes
<1>. QED
  BY <1>1, ChatInvariant, PTL

\* Only a turn its user left, or a transcript a blank page was opened over before
\* its detail had come, puts a bubble under another conversation or lets a question
\* be answered elsewhere than it was asked (ensureConversation, ChatPanel.tsx).
THEOREM StrayOnlyWhenLeftOrCarried ==
    Spec => []OnlyLeftOrCarriedStray
<1>1. ChatInv => OnlyLeftOrCarriedStray
  BY DEF ChatInv, PlaceInv
<1>. QED
  BY <1>1, ChatInvariant, PTL

\* The creation of the conversation and the details that arrive never wipe the
\* question that is being answered in a loaded transcript (loadedRef).
THEOREM TypedQuestionsStay ==
    Spec => []TypedStays
<1>1. ChatInv => TypedStays
  BY IdleFacts DEF ChatInv, TurnIsHere, TypedStays
<1>. QED
  BY <1>1, ChatInvariant, PTL

\* Every answer on screen is a row of a conversation that exists: persist_turns
\* comes before `done`, and the panel waits for `done`.
THEOREM AnswersShownAreSaved ==
    Spec => []AnswersAreSaved
<1>1. ChatInv => AnswersAreSaved
  BY DEF ChatInv
<1>. QED
  BY <1>1, ChatInvariant, PTL
================================================================================
