------------------------------ MODULE Exchange ------------------------------
(***************************************************************************)
(* What Bus.Request promises its callers: every call ends, once, with the  *)
(* answer to its own question or with none, and an answer is one that the  *)
(* handler gave.  The handler may see a question after its caller gave up. *)
(***************************************************************************)
CONSTANTS
    Calls,   \* calls of Request
    NoCall   \* no call

VARIABLES
    outcome,  \* of each call: "idle", "asked", "answered" or "failed"
    answer,   \* the call whose question the answer was for
    handled   \* the calls whose question reached the handler

vars == <<outcome, answer, handled>>

Init ==
    /\ outcome = [c \in Calls |-> "idle"]
    /\ answer = [c \in Calls |-> NoCall]
    /\ handled = {}

Ask(c) ==
    /\ outcome[c] = "idle"
    /\ outcome' = [outcome EXCEPT ![c] = "asked"]
    /\ UNCHANGED <<answer, handled>>

Handle(c) ==
    /\ outcome[c] # "idle" /\ c \notin handled
    /\ handled' = handled \cup {c}
    /\ UNCHANGED <<outcome, answer>>

Answer(c) ==
    /\ outcome[c] = "asked" /\ c \in handled
    /\ outcome' = [outcome EXCEPT ![c] = "answered"]
    /\ answer' = [answer EXCEPT ![c] = c]
    /\ UNCHANGED handled

\* The caller gives up.
GiveUp(c) ==
    /\ outcome[c] = "asked"
    /\ outcome' = [outcome EXCEPT ![c] = "failed"]
    /\ UNCHANGED <<answer, handled>>

Next == \E c \in Calls : Ask(c) \/ Handle(c) \/ Answer(c) \/ GiveUp(c)

Spec == Init /\ [][Next]_vars /\ \A c \in Calls : WF_vars(Answer(c) \/ GiveUp(c))
=============================================================================
