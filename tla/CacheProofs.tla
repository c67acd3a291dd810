------------------------------ MODULE CacheProofs ------------------------------
(***************************************************************************)
(* If every mutation refreshes the views that read what it writes, no      *)
(* interleaving of fetches, failures and mutations leaves a view behind    *)
(* what its member was told.                                               *)
(***************************************************************************)
EXTENDS QueryCache, TLAPS

\* What the tables have to satisfy, leaving aside what is overlooked.
Covered ==
    \A m \in Mutations, v \in Views :
        ~Overlooked(m, v) /\ Touches(m, v) => Refreshes(m, v)

\* A mutation in flight that touches the view refreshes it.
CallsRefresh ==
    /\ \A e \in effects : e.touches => e.refreshes
    /\ calls \in [Calls -> CallStates]
    /\ \A c \in Calls : calls[c].touches => calls[c].refreshes

\* No version is from the future.
Bounded ==
    /\ server \in Nat
    /\ promised \in 0 .. server
    /\ \A c \in Calls : calls[c].at <= server

\* Whoever read after the promise knows it.
ReadsPromised == fetch.phase = "read" => fetch.saw >= promised

\* Data that is behind is marked, and what is marked on screen is on its way or
\* shown as failed.
BehindIsMarked == data # NONE /\ data < promised => invalid
MarkedIsFetched ==
    observed /\ invalid /\ data # NONE /\ fetch.phase = "idle" => failed

Shape ==
    /\ data \in Int
    /\ fetch \in [phase : {"idle", "asked", "read"}, saw : Int, tries : Int]

Flags == observed \in BOOLEAN /\ invalid \in BOOLEAN /\ failed \in BOOLEAN

ViewInv == Flags /\ Shape /\ ReadsPromised /\ BehindIsMarked /\ MarkedIsFetched

CacheInv == CallsRefresh /\ Bounded /\ ViewInv

LEMMA EffectsRefresh ==
    ASSUME Covered, NEW x \in Exposures, NEW e \in x, e.touches
    PROVE  e.refreshes
<1>1. PICK v \in Views : x = Effects(v)
  BY DEF Exposures
<1>2. PICK m \in Mutations : /\ ~Overlooked(m, v)
                             /\ e = [touches |-> Touches(m, v),
                                     refreshes |-> Refreshes(m, v), on |-> m.on]
  BY <1>1 DEF Effects
<1>3. Touches(m, v)
  BY <1>2
<1> QED
  BY <1>2, <1>3 DEF Covered

LEMMA EffectsTyped ==
    ASSUME NEW x \in Exposures, NEW e \in x
    PROVE  /\ e.touches \in BOOLEAN
           /\ e.refreshes \in BOOLEAN
           /\ e.on \in {"success", "settled"}
<1>1. PICK v \in Views : x = Effects(v)
  BY DEF Exposures
<1>2. PICK m \in Mutations : e = [touches |-> Touches(m, v),
                                  refreshes |-> Refreshes(m, v), on |-> m.on]
  BY <1>1 DEF Effects
<1>3. m.on \in {"success", "settled"}
  BY CacheConstants
<1> QED
  BY <1>2, <1>3 DEF Touches, Refreshes

LEMMA CacheInit ==
    ASSUME Covered, Init
    PROVE  CacheInv /\ effects \in Exposures
<1>1. CallsRefresh
  <2>1. \A e \in effects : e.touches => e.refreshes
    BY EffectsRefresh DEF Init
  <2>2. NoCall \in CallStates
    BY DEF NoCall, CallStates
  <2> QED
    BY <2>1, <2>2 DEF Init, CallsRefresh, NoCall
<1>0. Flags
  BY Zenon DEF Init, Flags
<1>2. Bounded /\ Shape
  BY DEF Init, Bounded, Shape, NoCall, Idle, NONE
<1>3. ReadsPromised /\ BehindIsMarked /\ MarkedIsFetched
  BY DEF Init, ReadsPromised, BehindIsMarked, MarkedIsFetched, Idle
<1> QED
  BY <1>0, <1>1, <1>2, <1>3 DEF Init, CacheInv, ViewInv

\* A step that leaves the entry and the promise alone.
LEMMA ViewUntouched ==
    ASSUME ViewInv, UNCHANGED <<cache, promised>>
    PROVE  ViewInv'
<1>1. /\ observed' = observed /\ data' = data /\ invalid' = invalid
      /\ failed' = failed /\ fetch' = fetch /\ promised' = promised
  BY DEF cache
<1> QED
  BY <1>1 DEF ViewInv, Flags, Shape, ReadsPromised, BehindIsMarked, MarkedIsFetched

\* The steps that move nothing but the observer and its fetch.
LEMMA FetchSteps ==
    ASSUME CacheInv,
           Mount \/ Unmount \/ Collect \/ ServeRead \/ Arrive \/ FetchFails
    PROVE  CacheInv'
<1>1. Flags'
  BY Zenon DEF CacheInv, ViewInv, Flags, Mount, Unmount, Collect, ServeRead, Arrive, FetchFails
<1>2. effects' = effects /\ calls' = calls /\ server' = server /\ promised' = promised
  BY DEF Mount, Unmount, Collect, ServeRead, Arrive, FetchFails
<1>3. CallsRefresh' /\ Bounded'
  BY <1>2 DEF CacheInv, CallsRefresh, Bounded
<1>4. Shape' /\ ReadsPromised' /\ BehindIsMarked' /\ MarkedIsFetched'
  <2> USE <1>2 DEF CacheInv, ViewInv, Bounded, Shape, ReadsPromised, BehindIsMarked,
                   MarkedIsFetched, Idle, Asked, NONE, RETRY
  <2>1. CASE Mount
    BY <2>1 DEF Mount, Outdated
  <2>2. CASE Unmount
    BY <2>2 DEF Unmount
  <2>3. CASE Collect
    BY <2>3 DEF Collect
  <2>4. CASE ServeRead
    <3>1. fetch' = [phase |-> "read", saw |-> server, tries |-> fetch.tries]
      BY <2>4 DEF ServeRead
    <3>2. data' = data /\ invalid' = invalid
      BY <2>4 DEF ServeRead
    <3> QED
      BY <3>1, <3>2
  <2>5. CASE Arrive
    BY <2>5 DEF Arrive
  <2>6. CASE FetchFails
    BY <2>6 DEF FetchFails
  <2> QED
    BY <2>1, <2>2, <2>3, <2>4, <2>5, <2>6
<1> QED
  BY <1>1, <1>3, <1>4 DEF CacheInv, ViewInv

LEMMA SendStep ==
    ASSUME CacheInv, effects \in Exposures, NEW c \in Calls, Send(c)
    PROVE  CacheInv'
<1>1. PICK e \in effects :
        calls' = [calls EXCEPT ![c] =
                    [phase |-> "sent", touches |-> e.touches,
                     refreshes |-> e.refreshes, on |-> e.on, at |-> 0]]
  BY DEF Send
<1>2. calls'[c] \in CallStates
  BY <1>1, EffectsTyped DEF CallStates, CacheInv, CallsRefresh
<1>3. CallsRefresh'
  BY <1>1, <1>2 DEF Send, cache, CacheInv, CallsRefresh
<1>4. Bounded'
  BY <1>1 DEF Send, CacheInv, Bounded, CallsRefresh
<1> QED
  BY <1>3, <1>4, ViewUntouched DEF Send, CacheInv

LEMMA CommitStep ==
    ASSUME CacheInv, NEW c \in Calls, Commit(c)
    PROVE  CacheInv'
<1>1. server' \in Nat /\ server' >= server
  BY DEF Commit, CacheInv, Bounded
<1>2. CallsRefresh'
  <2>1. calls[c] \in CallStates
    BY DEF CacheInv, CallsRefresh
  <2>2. calls' = [calls EXCEPT ![c] = [calls[c] EXCEPT !.phase = "saved", !.at = server']]
    BY <2>1 DEF Commit, CallStates, CacheInv, CallsRefresh
  <2>3. [calls[c] EXCEPT !.phase = "saved", !.at = server'] \in CallStates
    BY <1>1, <2>1 DEF CallStates
  <2>4. [calls[c] EXCEPT !.phase = "saved", !.at = server'].touches = calls[c].touches
    BY <2>1 DEF CallStates
  <2>5. [calls[c] EXCEPT !.phase = "saved", !.at = server'].refreshes = calls[c].refreshes
    BY <2>1 DEF CallStates
  <2>6. effects' = effects
    BY DEF Commit
  <2> QED
    BY <2>2, <2>3, <2>4, <2>5, <2>6 DEF CacheInv, CallsRefresh
<1>3. Bounded'
  BY <1>1 DEF Commit, CacheInv, Bounded, CallsRefresh, CallStates
<1> QED
  BY <1>2, <1>3, ViewUntouched DEF Commit, CacheInv

\* What both ends of a mutation have in common: the call is over, and the
\* promise rises only with the invalidation of a replaceable entry.
LEMMA AnswerStep ==
    ASSUME CacheInv, NEW c \in Calls,
           Invalidate \/ UNCHANGED cache,
           promised' = promised
             \/ (Invalidate /\ ~Unreplaced /\ promised' = calls[c].at
                   /\ calls[c].at > promised),
           calls' = [calls EXCEPT ![c] = NoCall],
           UNCHANGED <<effects, server>>
    PROVE  CacheInv'
<1>1. CallsRefresh'
  BY DEF CacheInv, CallsRefresh, NoCall, CallStates
<1>2. Bounded'
  BY DEF CacheInv, Bounded, CallsRefresh, CallStates, NoCall
<1>3. CASE UNCHANGED cache /\ promised' = promised
  BY <1>1, <1>2, <1>3, ViewUntouched DEF CacheInv
<1>4. CASE Invalidate
  <2>1. Flags'
    BY <1>4, Zenon DEF Invalidate, CacheInv, ViewInv, Flags
  <2>2. data' = data /\ observed' = observed
    BY <1>4 DEF Invalidate
  <2>3. data # NONE => invalid'
    BY <1>4, Zenon DEF Invalidate
  <2>4. promised' \in Int /\ promised' >= promised
    BY DEF CacheInv, Bounded, CallsRefresh, CallStates
  <2>5. CASE observed /\ ~Unreplaced
    <3>1. fetch' = Asked
      BY <1>4, <2>5, Zenon DEF Invalidate
    <3> QED
      BY <1>1, <1>2, <2>1, <2>2, <2>3, <2>4, <3>1
      DEF CacheInv, ViewInv, Shape, ReadsPromised, BehindIsMarked, MarkedIsFetched, Asked, NONE
  <2>6. CASE ~(observed /\ ~Unreplaced)
    <3>1. fetch' = fetch /\ failed' = failed
      BY <1>4, <2>6, Zenon DEF Invalidate
    <3>2. fetch.phase # "idle" => promised' = promised
      BY <2>6, Zenon DEF Unreplaced
    <3>3. observed => fetch.phase # "idle"
      BY <2>6, Zenon DEF Unreplaced
    <3>4. Shape' /\ ReadsPromised'
      BY <2>2, <2>4, <3>1, <3>2 DEF CacheInv, ViewInv, Shape, ReadsPromised
    <3>5. BehindIsMarked'
      BY <2>2, <2>3, Zenon DEF BehindIsMarked
    <3>6. MarkedIsFetched'
      BY <2>2, <3>1, <3>3 DEF MarkedIsFetched
    <3> QED
      BY <1>1, <1>2, <2>1, <3>4, <3>5, <3>6 DEF CacheInv, ViewInv
  <2> QED
    BY <2>5, <2>6
<1> QED
  BY <1>3, <1>4

LEMMA CallSteps ==
    ASSUME CacheInv, NEW c \in Calls, Succeed(c) \/ Fail(c)
    PROVE  CacheInv'
<1>1. calls[c].touches => calls[c].refreshes
  BY DEF CacheInv, CallsRefresh
<1>2. CASE Succeed(c)
  BY <1>1, <1>2, AnswerStep DEF Succeed
<1>3. CASE Fail(c)
  BY <1>1, <1>3, AnswerStep DEF Fail
<1> QED
  BY <1>2, <1>3

LEMMA ForeignStep ==
    ASSUME CacheInv, ForeignWrite
    PROVE  CacheInv'
<1>1. CallsRefresh' /\ Bounded'
  BY DEF ForeignWrite, CacheInv, CallsRefresh, Bounded, CallStates
<1> QED
  BY <1>1, ViewUntouched DEF ForeignWrite, CacheInv

\* The tables cover: then a view on screen, with nothing on its way and no error
\* shown, always shows every write its member was told is saved, whatever the
\* hooks, the number of mutations in flight and the writes of other members
\* (lib/invalidate.ts: "je dois recharger la page pour voir mon changement").
THEOREM CoverMeansNoReload ==
    ASSUME Covered
    PROVE  Spec => []NoReloadNeeded
<1>1. Init => CacheInv /\ effects \in Exposures
  BY CacheInit
<1>2. CacheInv /\ effects \in Exposures /\ [Next]_vars
        => (CacheInv /\ effects \in Exposures)'
  <2> SUFFICES ASSUME CacheInv, effects \in Exposures, [Next]_vars
               PROVE  (CacheInv /\ effects \in Exposures)'
    OBVIOUS
  <2>1. effects' = effects
    BY DEF Next, vars, Mount, Unmount, Collect, ServeRead, Arrive, FetchFails, Send,
           Commit, Succeed, Fail, ForeignWrite
  <2>2. CASE UNCHANGED vars
    <3>1. CallsRefresh' /\ Bounded'
      BY <2>2 DEF vars, CacheInv, CallsRefresh, Bounded
    <3> QED
      BY <2>1, <2>2, <3>1, ViewUntouched DEF vars, CacheInv
  <2>3. CASE Next
    <3>1. ASSUME NEW c \in Calls, Send(c) \/ Commit(c) \/ Succeed(c) \/ Fail(c)
          PROVE  CacheInv'
      BY <3>1, SendStep, CommitStep, CallSteps
    <3> QED
      BY <2>1, <2>3, <3>1, FetchSteps, ForeignStep DEF Next
  <2> QED
    BY <2>1, <2>2, <2>3
<1>3. CacheInv => NoReloadNeeded
  BY DEF CacheInv, ViewInv, NoReloadNeeded, MarkedIsFetched, BehindIsMarked, Shape, Bounded, NONE
<1> QED
  BY <1>1, <1>2, <1>3, PTL DEF Spec

===============================================================================
