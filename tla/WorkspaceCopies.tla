--------------------------- MODULE WorkspaceCopies ---------------------------
(***************************************************************************)
(* What the snapshots of a Bashkit workspace promise. A process works on a *)
(* copy of its own, which starts as the saved workspace, and takes it      *)
(* along when it ends. A save by one writer alone leaves the writer's whole*)
(* present copy, never an older one or half of one. Nothing is promised of *)
(* a save that is cut off, or overlaps another, but that what it leaves is *)
(* whole or unreadable, and that nobody starts from what is unreadable.    *)
(* Whoever ends a save last wins.                                          *)
(***************************************************************************)
CONSTANTS
    Processes,
    States,     \* what a workspace may contain
    Blank,      \* the workspace of a new assistant
    NoCopy,
    Nobody,     \* a writer that is no process
    Unreadable  \* what is there while it is written, and what may be left of it

VARIABLES
    copy,      \* each process's copy, or NoCopy
    saved,     \* the saved workspace
    writers,   \* who is saving
    together,  \* two of them have been saving at once
    by         \* who loaded it, or began or ended a save, last

vars == <<copy, saved, writers, together, by>>

Init ==
    /\ copy = [p \in Processes |-> NoCopy]
    /\ saved = Blank
    /\ writers = {}
    /\ together = FALSE
    /\ by = Nobody

Open(p) ==
    /\ copy[p] = NoCopy
    /\ saved # Unreadable
    /\ copy' = [copy EXCEPT ![p] = saved]
    /\ by' = p
    /\ UNCHANGED <<saved, writers, together>>

\* Its copy stands still while a process saves it.
Change(p) ==
    /\ copy[p] # NoCopy /\ p \notin writers
    /\ \E s \in States : copy' = [copy EXCEPT ![p] = s]
    /\ UNCHANGED <<saved, writers, together, by>>

\* A process begins to save its copy, or a migration to replace the saved workspace.
Begin(w) ==
    /\ w \notin writers
    /\ w = Nobody \/ copy[w] # NoCopy
    /\ writers' = writers \cup {w}
    /\ together' = (together \/ writers # {})
    /\ saved' = Unreadable
    /\ by' = w
    /\ UNCHANGED copy

Leave(w) ==
    /\ w \in writers
    /\ writers' = writers \ {w}
    /\ together' = (together /\ writers' # {})
    /\ by' = w

End(w) ==
    /\ Leave(w)
    /\ \/ IF w = Nobody THEN saved' \in States ELSE saved' = copy[w]
       \/ together /\ saved' = Unreadable
    /\ UNCHANGED copy

\* A save fails, or its process ends.
Cut(w) ==
    /\ Leave(w)
    /\ saved' \in {saved, Unreadable}
    /\ copy' = copy \/ (w # Nobody /\ copy' = [copy EXCEPT ![w] = NoCopy])

Close(p) ==
    /\ copy[p] # NoCopy /\ p \notin writers
    /\ copy' = [copy EXCEPT ![p] = NoCopy]
    /\ UNCHANGED <<saved, writers, together, by>>

Next ==
    \/ \E p \in Processes : Open(p) \/ Change(p) \/ Close(p)
    \/ \E w \in Processes \cup {Nobody} : Begin(w) \/ End(w) \/ Cut(w)

Spec == Init /\ [][Next]_vars
=============================================================================
