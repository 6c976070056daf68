-------------------------------- MODULE Inbox --------------------------------
(***************************************************************************)
(* What the intake promises its callers and the queue: a mail that an      *)
(* assistant accepts is stored for it once, with its run; it is enqueued   *)
(* once at most, and not before it is stored; it is answered as accepted   *)
(* only when it is stored; and nothing of this is ever taken back.         *)
(* However often a mail is delivered, and whoever dies on the way, an      *)
(* observer of the tables sees no other steps than these.                  *)
(***************************************************************************)
EXTENDS Naturals

CONSTANTS
    Pairs,    \* a mail and an assistant it may be delivered to
    Accepted  \* those of them that the router accepts

VARIABLES
    stored,   \* messages of each pair
    work,     \* jobs for the run of each pair
    answered  \* pairs whose caller was told that they are accepted

vars == <<stored, work, answered>>

Init ==
    /\ stored = [d \in Pairs |-> 0]
    /\ work = [d \in Pairs |-> 0]
    /\ answered = {}

Store(d) ==
    /\ stored[d] = 0
    /\ stored' = [stored EXCEPT ![d] = 1]
    /\ UNCHANGED <<work, answered>>

Enqueue(d) ==
    /\ stored[d] = 1 /\ work[d] = 0
    /\ work' = [work EXCEPT ![d] = 1]
    /\ UNCHANGED <<stored, answered>>

Answer(d) ==
    /\ stored[d] = 1
    /\ answered' = answered \cup {d}
    /\ UNCHANGED <<stored, work>>

Next == \E d \in Accepted : Store(d) \/ Enqueue(d) \/ Answer(d)

Spec == Init /\ [][Next]_vars
=============================================================================
