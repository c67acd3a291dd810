------------------------------- MODULE AgentChat -------------------------------
(* The household assistant as one person uses it: the conversation list, the  *)
(* transcript of ChatPanel, the cache of conversation details and the         *)
(* streamed questions the server answers.  The transcript is a copy the panel *)
(* keeps for itself: it is seeded once from the cached detail, grows with the *)
(* turns of the panel, and is emptied when another conversation is opened,    *)
(* but for a blank page opened before any detail was loaded.                  *)
(* A transcript is the set of its bubbles: their order is the order of the    *)
(* steps that add them, and no rule of the panel looks at it.                 *)
(* `home`, `left` and `carried` are history variables.                        *)

CONSTANTS
    Conversations,   \* the conversations there may ever be
    Existing,        \* those there are when the page opens
    Questions,       \* what the user may type, each once
    Orders,          \* the questions that ask the agent to write something
    Attempts,        \* the requests the panel may send, retries included
    NoConversation,  \* currentId = null: the blank page
    NoData,          \* a detail that is not in the cache
    Asked            \* a detail the server has not served yet

Messages == [role : {"user", "agent"}, q : Questions]
Bubbles == [role : {"user", "agent", "error"}, q : Questions]

ASSUME ExistingAreConversations == Existing \subseteq Conversations
ASSUME MarkersAreNotData ==
    /\ NoConversation \notin Conversations /\ "untyped" \notin Conversations
    /\ NoConversation # "untyped"
    /\ NoData # Asked
    /\ \A m \in SUBSET Messages : m # NoData /\ m # Asked

VARIABLES
    made,     \* conversations on the server
    rows,     \* conversation -> the messages saved in it
    jobs,     \* request -> what the server does of it
    current,  \* HouseholdChat.currentId, the panel's conversationId
    loaded,   \* loadedRef: the conversation the transcript was seeded for
    shown,    \* messages: the transcript on screen
    detail,   \* conversation -> its detail in the query cache
    fetch,    \* conversation -> the answer to the GET of its detail
    turn,     \* the call to submit in flight
    home,     \* question -> the conversation it was last asked in
    left,     \* questions whose turn saw another conversation opened
    carried   \* questions on screen when a blank page was opened over them

server == <<made, rows, jobs>>
panel == <<current, loaded, shown, turn>>
cached == <<detail, fetch>>
history == <<home, left, carried>>
vars == <<made, rows, jobs, current, loaded, shown, detail, fetch, turn, home,
          left, carried>>

Bubble(role, q) == [role |-> role, q |-> q]
Idle == [at |-> "idle"]
NoJob == [at |-> "unsent"]
Busy == turn # Idle
OnScreen(role, q) == Bubble(role, q) \in shown
Typed == {q \in Questions : home[q] # "untyped"}

Init ==
    /\ made = Existing
    /\ rows = [c \in Conversations |-> {}]
    /\ jobs = [j \in Attempts |-> NoJob]
    /\ current = NoConversation /\ loaded = NoConversation
    /\ shown = {}
    /\ detail = [c \in Conversations |-> [data |-> NoData, stale |-> FALSE]]
    /\ fetch = [c \in Conversations |-> NoData]
    /\ turn = Idle
    /\ home = [q \in Questions |-> "untyped"]
    /\ left = {} /\ carried = {}

-------------------------------------------------------------------------------
(* The server: messages_stream.                                               *)

\* persist_turns saves the question and its answer, then `done` is sent; what
\* the question ordered has been written in the household by the tools.
Persist(j) ==
    LET job == jobs[j] IN
    /\ job.at = "working"
    /\ rows' = [rows EXCEPT ![job.conversation] =
                   @ \cup {Bubble("user", job.q), Bubble("agent", job.q)}]
    /\ jobs' = [jobs EXCEPT ![j].at = "done", ![j].wrote = {job.q} \cap Orders]
    /\ UNCHANGED <<made, panel, cached, history>>

\* The model fails, or the generator is closed because nobody listens any more:
\* nothing is saved in the conversation, but a tool may have written already.
Break(j) ==
    /\ jobs[j].at = "working"
    /\ \E wrote \in SUBSET ({jobs[j].q} \cap Orders) :
          jobs' = [jobs EXCEPT ![j].at = "error", ![j].wrote = wrote]
    /\ UNCHANGED <<made, rows, panel, cached, history>>

-------------------------------------------------------------------------------
(* The query of the open conversation.                                        *)

\* An observer mounts: data that is missing or invalidated is asked for.
Observe(c) ==
    IF c \in Conversations /\ fetch[c] = NoData
         /\ (detail[c].data = NoData \/ detail[c].stale)
    THEN fetch' = [fetch EXCEPT ![c] = Asked]
    ELSE UNCHANGED fetch

ServeDetail(c) ==
    /\ fetch[c] = Asked
    /\ fetch' = [fetch EXCEPT ![c] = rows[c]]
    /\ UNCHANGED <<server, panel, detail, history>>

\* The panel seeds its transcript the first time it sees a detail, and then
\* ignores the ones that follow.
Seed(c, data) ==
    IF c = current /\ loaded # c
    THEN loaded' = c /\ shown' = data
    ELSE UNCHANGED <<loaded, shown>>

DetailArrives(c) ==
    /\ fetch[c] \notin {NoData, Asked}
    /\ detail' = [detail EXCEPT ![c] = [data |-> fetch[c], stale |-> FALSE]]
    /\ fetch' = [fetch EXCEPT ![c] = NoData]
    /\ Seed(c, fetch[c])
    /\ UNCHANGED <<server, current, turn, history>>

DetailFails(c) ==
    /\ fetch[c] # NoData
    /\ fetch' = [fetch EXCEPT ![c] = NoData]
    /\ UNCHANGED <<server, panel, detail, history>>

\* gcTime: a detail nobody looks at is dropped.
Collect(c) ==
    /\ c # current /\ detail[c].data # NoData /\ fetch[c] = NoData
    /\ detail' = [detail EXCEPT ![c] = [data |-> NoData, stale |-> FALSE]]
    /\ UNCHANGED <<server, panel, fetch, history>>

-------------------------------------------------------------------------------
(* The page: opening conversations.                                           *)

\* loadedRef.current === conversationId: nothing to reset.  That is so of a
\* conversation the panel has just created, and of the blank page, null === null,
\* when it is opened before the detail of the old conversation has arrived.
ResetSkipped(c) == loaded = c

\* What is on screen once the effects of a change of conversation have run:
\* the old transcript goes, the cached detail of the new one is taken.
TranscriptKept(c) == shown
Transcript(c) ==
    CASE c # NoConversation /\ detail[c].data # NoData -> detail[c].data
      [] ResetSkipped(c) -> shown
      [] OTHER -> {}

LoadedKept(c) == loaded
LoadedBy(c) ==
    IF c # NoConversation /\ detail[c].data # NoData THEN c ELSE NoConversation

Open(c) ==
    /\ c \in made \cup {NoConversation} /\ c # current
    /\ current' = c
    /\ shown' = Transcript(c)
    /\ loaded' = LoadedBy(c)
    /\ left' = IF Busy THEN left \cup {turn.q} ELSE left
    /\ carried' = IF ResetSkipped(c) THEN carried \cup {b.q : b \in shown} ELSE carried
    /\ Observe(c)
    /\ UNCHANGED <<server, turn, detail, home>>

-------------------------------------------------------------------------------
(* The panel: submit.                                                         *)

Free == {j \in Attempts : jobs[j] = NoJob}

\* useStreamMessage: the question goes to conversation c.  `ready` remembers
\* that the transcript was loaded and shows the question.
Ask(c, q) ==
    \E j \in Free :
        /\ jobs' = [jobs EXCEPT ![j] =
               [at |-> "working", conversation |-> c, q |-> q, wrote |-> {}]]
        /\ turn' = [at |-> "streaming", q |-> q, conversation |-> c, job |-> j,
                    ready |-> \/ turn.at = "creating"
                              \/ loaded = c /\ Bubble("user", q) \in shown']

\* The blank page creates its conversation before it asks.
Send(q) ==
    /\ Free # {}
    /\ IF current = NoConversation
       THEN turn' = [at |-> "creating", q |-> q] /\ UNCHANGED jobs
       ELSE Ask(current, q)
    /\ UNCHANGED <<made, rows, current, loaded, cached, left, carried>>

Submit(q) ==
    /\ ~Busy /\ q \notin Typed
    /\ home' = [home EXCEPT ![q] = current]
    /\ shown' = shown \cup {Bubble("user", q)}
    /\ Send(q)

\* The button of an error bubble asks its question again, in whatever
\* conversation is open.
Retry(q) ==
    /\ ~Busy
    /\ OnScreen("error", q)
    /\ shown' = {b \in shown : b.role # "error"}
    /\ home' = [home EXCEPT ![q] = current]
    /\ Send(q)

\* ensureConversation resolves: the panel marks the conversation as loaded so
\* that neither the change of conversation nor its detail touches the transcript.
MarkNothing(c) == loaded' = c /\ shown' = Transcript(c)
MarkLoaded(c) == loaded' = c /\ UNCHANGED shown

Created(c) ==
    /\ turn.at = "creating" /\ c \notin made
    /\ made' = made \cup {c}
    /\ detail' = [detail EXCEPT ![c] = [data |-> {}, stale |-> FALSE]]
    /\ current' = c
    /\ MarkLoaded(c)
    /\ Ask(c, turn.q)
    /\ home' = [q \in Questions |->
                  IF home[q] = NoConversation /\ (q = turn.q \/ OnScreen("user", q))
                  THEN c ELSE home[q]]
    /\ UNCHANGED <<rows, fetch, left, carried>>

\* catch: the failed turn becomes an error bubble, wherever the panel is by now.
FailTurn ==
    /\ shown' = shown \cup {Bubble("error", turn.q)}
    /\ turn' = Idle
    /\ UNCHANGED <<rows, jobs, current, loaded, cached, history>>

\* The request fails, or its answer is lost and an empty conversation remains.
CreateFails ==
    /\ turn.at = "creating"
    /\ made' \in {made} \cup {made \cup {c} : c \in Conversations \ made}
    /\ FailTurn

\* The stream ended on a `done` event.
DoneOrEof(j) == jobs[j].at \in {"done", "error"}
Done(j) == jobs[j].at = "done"

Answer ==
    /\ turn.at = "streaming" /\ Done(turn.job)
    /\ shown' = shown \cup {Bubble("agent", turn.q)}
    /\ detail' = IF detail[turn.conversation].data = NoData THEN detail
                 ELSE [detail EXCEPT ![turn.conversation].stale = TRUE]
    /\ jobs' = [jobs EXCEPT ![turn.job].at = "received"]
    /\ turn' = Idle
    /\ UNCHANGED <<made, rows, current, loaded, fetch, history>>

\* An `error` event, a refused or broken connection, or the 180 s timeout,
\* whatever the server has done in the meantime.
BrokenByServer == jobs[turn.job].at = "error"
Broken == TRUE

StreamFails ==
    /\ turn.at = "streaming" /\ Broken
    /\ UNCHANGED made
    /\ FailTurn

-------------------------------------------------------------------------------
Create == \E c \in Conversations : Created(c)

Next ==
    \/ \E j \in Attempts : Persist(j) \/ Break(j)
    \/ \E c \in Conversations :
          ServeDetail(c) \/ DetailArrives(c) \/ DetailFails(c) \/ Collect(c)
    \/ \E c \in Conversations \cup {NoConversation} : Open(c)
    \/ \E q \in Questions : Submit(q) \/ Retry(q)
    \/ Create \/ CreateFails \/ Answer \/ StreamFails

Spec == Init /\ [][Next]_vars

\* The abort of a stream and the browser's own timeout end every request; of
\* the server nothing is assumed.
FairSpec == Spec /\ WF_vars(Create \/ CreateFails) /\ WF_vars(Answer \/ StreamFails)

-------------------------------------------------------------------------------
\* What the variables hold: the transcript mixes saved messages with error
\* bubbles, and the cache only ever holds saved messages (ChatPanel.tsx, hooks.ts).
TypeOK ==
    /\ made \subseteq Conversations
    /\ rows \in [Conversations -> SUBSET Messages]
    /\ current \in made \cup {NoConversation}
    /\ loaded \in {NoConversation, current}
    /\ shown \subseteq Bubbles
    /\ \A c \in Conversations : detail[c].data = NoData \/ detail[c].data \subseteq Messages
    /\ left \subseteq Typed /\ carried \subseteq Questions

\* The transcript shows messages of the open conversation and questions are
\* answered where they were asked, unless the user opened another conversation
\* while the turn was in flight, or a blank page over a conversation that had not
\* loaded (ChatPanel resets the transcript on every other switch).
OnlyLeftOrCarriedStray ==
    /\ \A b \in shown :
          \/ home[b.q] = current
          \/ b.q \in left \cup carried
          \/ \E q \in left : home[q] = current
    /\ \A j \in Attempts : jobs[j] # NoJob =>
          \/ home[jobs[j].q] = jobs[j].conversation
          \/ jobs[j].q \in left \cup carried

\* A question typed on a blank page or in a loaded conversation stays on screen
\* while it is answered, through the creation of its conversation and the
\* details that arrive meanwhile ("the optimistic turns must survive").
TypedStays ==
    turn.at = "streaming" /\ turn.ready /\ turn.q \notin left
        => OnScreen("user", turn.q)

\* An answer on screen has been saved in its conversation: leaving the page does
\* not lose it (persist_turns comes before `done`, the panel waits for `done`).
AnswersAreSaved ==
    \A q \in Questions :
        OnScreen("agent", q) => \E c \in made : Bubble("agent", q) \in rows[c]

\* The composer is never disabled for good: every turn ends in an answer or an
\* error bubble, however the server behaves (AGENT_MESSAGE_TIMEOUT_MS).
EveryTurnEnds == Busy ~> ~Busy

-------------------------------------------------------------------------------
(* What the code's comments say and the code does not keep.                   *)

\* Opening a loaded conversation again shows the answers the panel has received
\* in it ("The detail is kept in sync locally by the page", hooks.ts:169).
AnswersStay ==
    [][\A j \in Attempts :
          /\ current' # current
          /\ jobs[j].at = "received" /\ jobs[j].conversation = loaded'
          => Bubble("agent", jobs[j].q) \in shown']_vars

\* Whatever is on screen belongs to the open conversation.
ShownBelongs == \A b \in shown : home[b.q] = current

\* A new conversation starts on an empty page ("Parent switched conversation
\* (select / new): reset the transcript", ChatPanel.tsx:162).
NewIsBlank == [][current' # current /\ current' = NoConversation => shown' = {}]_vars

\* A question typed while its conversation is still loading stays on screen.
TypedAlwaysStays ==
    turn.at = "streaming" /\ turn.q \notin left => OnScreen("user", turn.q)

\* What the agent wrote for one question is written once.
WrittenOnce ==
    \A i, j \in Attempts :
        /\ jobs[i] # NoJob /\ jobs[j] # NoJob
        /\ jobs[i].wrote \cap jobs[j].wrote # {}
        => i = j
===============================================================================
