-------------------------- MODULE MCScheduledTasks --------------------------
(* Small instances of ScheduledTasks for TLC.                              *)
EXTENDS ScheduledTasks, TLC

\* A one-off task that mails the output of its command, and cron tasks: one that only
\* asks the agent, one that runs a command first, and one that mails its output.
CONSTANTS once, daily, script, direct, none

MCKind == [t \in Tasks |-> IF t = once THEN "once" ELSE "cron"]

MCMode == [t \in Tasks |-> CASE t = script -> "command" [] t \in {once, direct} -> "direct"
                             [] OTHER -> "agent"]

\* The direct task pauses at its second notification, the others at their first.
MCLimit == [t \in Tasks |-> IF t = direct THEN 2 ELSE 1]

LimitTwo == [t \in Tasks |-> 2]
=============================================================================
