------------------------------ MODULE QueryCache -------------------------------
(***************************************************************************)
(* One view of the front end, the cache entry behind it and the writes     *)
(* that should refresh it: what a member sees of what he has just done.    *)
(*                                                                         *)
(* The entry follows TanStack Query 5, under the options of queryClient.ts:*)
(* data is fresh for five minutes unless it is invalidated, a failed fetch *)
(* is tried once more, a view that mounts refetches what is stale, nothing *)
(* refetches on focus.  Queries do not interact, so one of them stands for *)
(* all: Init chooses it among Views.                                       *)
(*                                                                         *)
(* What the server holds for the view is counted by a version that grows   *)
(* with every committed write of a table the view reads.                   *)
(***************************************************************************)
EXTENDS Integers

CONSTANTS
    Views,      \* [name, root, reads]: a query and the tables it reads
    Mutations,  \* [name, writes, hits, on]: a hook, the tables its endpoint
                \* writes, what it invalidates, and when: "success" | "settled"
    Overlooked(_, _), \* the mutation and the view are left out of this instance
    Calls,      \* the mutations that can be in flight together
    MaxSends,   \* bound: mutations fired in one behaviour
    MaxForeign  \* bound: writes by other members in one behaviour

NONE == -1
RETRY == 1      \* queries.retry

ASSUME CacheConstants ==
    /\ \A m \in Mutations : m.on \in {"success", "settled"}
    /\ MaxSends \in Nat
    /\ MaxForeign \in Nat

VARIABLES
    effects,  \* what the mutations can do to the view of this behaviour
    server,   \* the version the server holds
    observed, \* a component is mounted on the query
    data,     \* the version in the cache, or NONE
    invalid,  \* isInvalidated
    failed,   \* the last fetch failed, and the view says so
    fetch,    \* the fetch in flight: phase "idle", "asked" (the server has not
              \* read yet) or "read", the version it saw and the tries made
    calls,    \* calls[c]: the mutation in flight
    promised, \* the version the member was told is saved
    sends,
    foreign

cache == <<observed, data, invalid, failed, fetch>>
vars == <<effects, server, cache, calls, promised, sends, foreign>>

Idle == [phase |-> "idle", saw |-> NONE, tries |-> 0]
Asked == [phase |-> "asked", saw |-> NONE, tries |-> 0]
NoCall == [phase |-> "idle", touches |-> FALSE, refreshes |-> FALSE,
           on |-> "success", at |-> 0]

\* The endpoint of m writes a table that v reads.
Touches(m, v) == m.writes \cap v.reads # {}

\* A key that m invalidates is a prefix of the key of v.
Refreshes(m, v) == v.root \in m.hits \/ v.name \in m.hits

\* What the mutations do to a view, those left out aside.
Effects(v) == {[touches |-> Touches(m, v), refreshes |-> Refreshes(m, v), on |-> m.on] :
                  m \in {n \in Mutations : ~Overlooked(n, v)}}

\* Views on which the mutations have the same effects behave alike: one
\* behaviour stands for all of them.
Exposures == {Effects(v) : v \in Views}

Init ==
    /\ effects \in Exposures
    /\ server = 0
    /\ observed = FALSE
    /\ data = NONE
    /\ invalid = FALSE
    /\ failed = FALSE
    /\ fetch = Idle
    /\ calls = [c \in Calls |-> NoCall]
    /\ promised = 0
    /\ sends = 0
    /\ foreign = 0

-----------------------------------------------------------------------------
\* The observer of a query and its fetches.

\* isStale, up to the five minutes of staleTime, which may have passed or not.
Outdated == data = NONE \/ invalid

\* A component mounts: stale data is refetched, a fetch in flight is joined.
Mount ==
    /\ ~observed
    /\ observed' = TRUE
    /\ \E expired \in BOOLEAN :
         IF fetch.phase = "idle" /\ (Outdated \/ expired)
         THEN fetch' = Asked /\ failed' = FALSE
         ELSE UNCHANGED <<fetch, failed>>
    /\ UNCHANGED <<effects, server, data, invalid, calls, promised, sends, foreign>>

\* The component leaves; no queryFn takes the abort signal, so a fetch goes on.
Unmount ==
    /\ observed
    /\ observed' = FALSE
    /\ UNCHANGED <<effects, server, data, invalid, failed, fetch, calls, promised,
                   sends, foreign>>

\* gcTime after the last observer has left, the entry is dropped.
Collect ==
    /\ ~observed
    /\ fetch.phase = "idle"
    /\ data # NONE
    /\ data' = NONE
    /\ invalid' = FALSE
    /\ failed' = FALSE
    /\ UNCHANGED <<effects, server, observed, fetch, calls, promised, sends, foreign>>

\* The server reads the tables.
ServeRead ==
    /\ fetch.phase = "asked"
    /\ fetch' = [fetch EXCEPT !.phase = "read", !.saw = server]
    /\ UNCHANGED <<effects, server, observed, data, invalid, failed, calls,
                   promised, sends, foreign>>

\* Its answer arrives and is the data, valid whatever was said meanwhile.
Arrive ==
    /\ fetch.phase = "read"
    /\ data' = fetch.saw
    /\ invalid' = FALSE
    /\ failed' = FALSE
    /\ fetch' = Idle
    /\ UNCHANGED <<effects, server, observed, calls, promised, sends, foreign>>

\* The fetch fails: once more if somebody is still watching, then an error.
FetchFails ==
    /\ fetch.phase # "idle"
    /\ IF observed /\ fetch.tries < RETRY
       THEN /\ fetch' = [Asked EXCEPT !.tries = fetch.tries + 1]
            /\ UNCHANGED failed
       ELSE /\ fetch' = Idle
            /\ failed' = TRUE
    /\ UNCHANGED <<effects, server, observed, data, invalid, calls, promised,
                   sends, foreign>>

-----------------------------------------------------------------------------
\* A mutation, from the gesture to its callbacks.

\* The member fires one.
Send(c) ==
    /\ calls[c].phase = "idle"
    /\ sends < MaxSends
    /\ \E e \in effects :
         calls' = [calls EXCEPT ![c] =
                     [phase |-> "sent", touches |-> e.touches,
                      refreshes |-> e.refreshes, on |-> e.on, at |-> 0]]
    /\ sends' = sends + 1
    /\ UNCHANGED <<effects, server, cache, promised, foreign>>

\* The endpoint commits.
Commit(c) ==
    /\ calls[c].phase = "sent"
    /\ server' = IF calls[c].touches THEN server + 1 ELSE server
    /\ calls' = [calls EXCEPT ![c].phase = "saved", ![c].at = server']
    /\ UNCHANGED <<effects, cache, promised, sends, foreign>>

\* A fetch that an invalidation cannot replace: cancelRefetch needs data, and
\* only the queries with an observer are refetched.
Unreplaced == fetch.phase # "idle" /\ (data = NONE \/ ~observed)

\* Mutant: refetchType "none", the query is only marked.
MarkOnly == /\ invalid' = (invalid \/ data # NONE \/ fetch.phase # "idle")
            /\ UNCHANGED <<observed, data, failed, fetch>>

\* invalidateQueries on the view's key: the entry, if there is one, is marked;
\* if it is observed it is fetched anew, in place of the fetch in flight.
Invalidate ==
    /\ invalid' = (invalid \/ data # NONE \/ fetch.phase # "idle")
    /\ IF observed /\ ~Unreplaced
       THEN fetch' = Asked /\ failed' = FALSE
       ELSE UNCHANGED <<fetch, failed>>
    /\ UNCHANGED <<observed, data>>

\* The success reaches the client: onSuccess, or onSettled, refreshes, and the
\* member is told it is saved.  A fetch that cannot be replaced may have read
\* before the commit: nothing is promised of that view (see the README).
Succeed(c) ==
    /\ calls[c].phase = "saved"
    /\ IF calls[c].refreshes THEN Invalidate ELSE UNCHANGED cache
    /\ promised' = IF calls[c].touches /\ ~Unreplaced /\ calls[c].at > promised
                   THEN calls[c].at ELSE promised
    /\ calls' = [calls EXCEPT ![c] = NoCall]
    /\ UNCHANGED <<effects, server, sends, foreign>>

\* Nothing was written (a refusal, a request that never left), or the answer of
\* a committed write is lost: onError, and onSettled only for the hooks that
\* have one.  Of those the view has to catch up all the same.
Fail(c) ==
    /\ calls[c].phase \in {"sent", "saved"}
    /\ IF calls[c].on = "settled" /\ calls[c].refreshes
       THEN Invalidate ELSE UNCHANGED cache
    /\ promised' = IF /\ calls[c].on = "settled"
                      /\ calls[c].phase = "saved"
                      /\ calls[c].touches
                      /\ ~Unreplaced
                      /\ calls[c].at > promised
                   THEN calls[c].at ELSE promised
    /\ calls' = [calls EXCEPT ![c] = NoCall]
    /\ UNCHANGED <<effects, server, sends, foreign>>

\* Another member writes what the view reads: no client is told.
ForeignWrite ==
    /\ foreign < MaxForeign
    /\ server' = server + 1
    /\ foreign' = foreign + 1
    /\ UNCHANGED <<effects, cache, calls, promised, sends>>

-----------------------------------------------------------------------------
Next ==
    \/ Mount \/ Unmount \/ Collect \/ ServeRead \/ Arrive \/ FetchFails
    \/ \E c \in Calls : Send(c) \/ Commit(c) \/ Succeed(c) \/ Fail(c)
    \/ ForeignWrite

Spec == Init /\ [][Next]_vars

\* The server answers what it is asked; members are under no obligation.
FairSpec == Spec /\ WF_vars(ServeRead) /\ WF_vars(Arrive)

-----------------------------------------------------------------------------
FetchStates == [phase : {"idle", "asked", "read"}, saw : Int, tries : 0 .. RETRY]
CallStates == [phase : {"idle", "sent", "saved"}, touches : BOOLEAN,
               refreshes : BOOLEAN, on : {"success", "settled"}, at : Nat]

\* The shape of the state: the cache never holds a version from the future.
TypeOK ==
    /\ effects \in Exposures
    /\ server \in Nat
    /\ observed \in BOOLEAN
    /\ data \in {NONE} \cup (0 .. server)
    /\ invalid \in BOOLEAN
    /\ failed \in BOOLEAN
    /\ fetch \in FetchStates
    /\ fetch.saw \in {NONE} \cup (0 .. server)
    /\ calls \in [Calls -> CallStates]
    /\ promised \in 0 .. server
    /\ sends \in Nat
    /\ foreign \in Nat

\* "je dois recharger la page pour voir mon changement" (lib/invalidate.ts)
\* never happens: a view that is on screen, with nothing on its way and no
\* error shown, shows every write its member was told is saved.
NoReloadNeeded ==
    observed /\ fetch.phase = "idle" /\ ~failed /\ data # NONE => data >= promised

\* A view that is on screen and behind catches up without a gesture, unless its
\* member leaves it or is shown that it could not be loaded.
CatchesUp ==
    (observed /\ data < promised) ~> (data >= promised \/ ~observed \/ failed)
===============================================================================
