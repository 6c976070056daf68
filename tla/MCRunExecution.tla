--------------------------- MODULE MCRunExecution ---------------------------
(* Small instances of RunExecution for TLC.                                *)
EXTENDS RunExecution, TLC

\* Runs r1, r2 and r3 belong to alice, b to bob.
CONSTANTS r1, r2, r3, b, alice, bob, none

MCAssistantOf == [r \in Runs |-> IF r = b THEN bob ELSE alice]

\* Steps before the answer leaves whose exceptions find the usage of the model at hand.
BeforeAnswer == {"load", "mark", "decide", "send_limited", "setup", "attachments", "send"}

\* Everything but the steps between the record of a completion and the return, and
\* the last resort of the wrapper.
AllButLate == (Raisable \cup Mailing) \ {"curate", "tally", "unwind", "rescue"}

NoTimeout == AgentOutcomes \ {"timeout"}
=============================================================================
