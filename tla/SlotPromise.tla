---------------------------- MODULE SlotPromise ----------------------------
(* What a recipient may expect of the two scheduler containers, whatever    *)
(* ticks run, overlap or die: a slot (one ping of one day, or one briefing  *)
(* at one time of one day) is opened by the clock, then given once or       *)
(* forgone, never both and never twice.  Schedulers.tla implements it.      *)
EXTENDS Naturals

CONSTANT Slots

VARIABLES
    open,      \* the slots whose time has come
    given,     \* how often the message of a slot reached its recipient
    forgone    \* the slots that will never be tried again today

vars == <<open, given, forgone>>

Init ==
    /\ open = {}
    /\ given = [s \in Slots |-> 0]
    /\ forgone = {}

\* Time passes: some slots come due together.
Open ==
    /\ \E S \in SUBSET (Slots \ open) : open' = open \cup S
    /\ UNCHANGED <<given, forgone>>

\* The message goes out, in its time and for the first time.
Give(s) ==
    /\ s \in open \ forgone
    /\ given[s] = 0
    /\ given' = [given EXCEPT ![s] = 1]
    /\ UNCHANGED <<open, forgone>>

\* The attempt is spent and nothing went out.
Forgo(s) ==
    /\ s \in open \ forgone
    /\ given[s] = 0
    /\ forgone' = forgone \cup {s}
    /\ UNCHANGED <<open, given>>

Next == Open \/ \E s \in Slots : Give(s) \/ Forgo(s)

Spec == Init /\ [][Next]_vars
=============================================================================
