--------------------------- MODULE SerialExecution ---------------------------
(***************************************************************************)
(* What the job queue and the worker promise together: the runs of an      *)
(* assistant are executed one at a time, in the order they were deferred,  *)
(* and a run is answered at most once, while it is being executed.         *)
(***************************************************************************)
EXTENDS Naturals

CONSTANTS Runs, Assistants, AssistantOf

VARIABLES
    phase,     \* of each run: Phases, in this order
    arrivals,  \* runs deferred so far
    place,     \* the order in which the runs were deferred
    answered   \* runs whose answer was sent

vars == <<phase, arrivals, place, answered>>

Phases == {"new", "waiting", "active", "over"}

Init ==
    /\ phase = [r \in Runs |-> "new"]
    /\ arrivals = 0
    /\ place = [r \in Runs |-> 0]
    /\ answered = {}

Arrive(r) ==
    /\ phase[r] = "new"
    /\ phase' = [phase EXCEPT ![r] = "waiting"]
    /\ arrivals' = arrivals + 1
    /\ place' = [place EXCEPT ![r] = arrivals + 1]
    /\ UNCHANGED answered

\* Nothing of the assistant is active, and nothing of it has waited longer.
Start(r) ==
    /\ phase[r] = "waiting"
    /\ \A q \in Runs : AssistantOf[q] = AssistantOf[r] =>
          phase[q] # "active" /\ (phase[q] = "waiting" => place[r] <= place[q])
    /\ phase' = [phase EXCEPT ![r] = "active"]
    /\ UNCHANGED <<arrivals, place, answered>>

Answer(r) ==
    /\ phase[r] = "active"
    /\ r \notin answered
    /\ answered' = answered \cup {r}
    /\ UNCHANGED <<phase, arrivals, place>>

\* One run ends, or the recovery ends all that a dead worker left.
Finish(S) ==
    /\ \A r \in S : phase[r] = "active"
    /\ phase' = [r \in Runs |-> IF r \in S THEN "over" ELSE phase[r]]
    /\ UNCHANGED <<arrivals, place, answered>>

Next ==
    \/ \E r \in Runs : Arrive(r) \/ Start(r) \/ Answer(r)
    \/ \E S \in SUBSET Runs : Finish(S)

Spec == Init /\ [][Next]_vars
=============================================================================
