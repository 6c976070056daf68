------------------------------ MODULE Spending ------------------------------
(***************************************************************************)
(* The runs of an assistant and its budget: the governor allows or refuses *)
(* a run (BudgetPeriod), and what the ledger gets when the run ends is     *)
(* what the recorder makes of the agent's usage (AgentTurn).               *)
(***************************************************************************)
EXTENDS AgentTurn, BudgetPeriod

spendingVars == <<turnVars, budgetVars>>

TypeOK == TurnTypeOK /\ BudgetTypeOK

Init == TurnInit /\ BudgetInit

\* execute_run asks the governor before it calls the agent.
Start(t) == Allow /\ Begin(t)

RefuseRun == Refuse /\ UNCHANGED turnVars

TurnStep ==
    /\ \/ Model
       \/ \E c \in Calls : ToolRuns(c) \/ WebSearch(c) \/ RecordStep(c)
       \/ ToolsReturn
    /\ UNCHANGED budgetVars

\* The rows of the ledger are written with each record of the run, in one transaction.
EndTurn ==
    /\ \/ RecordReply \/ Return \/ FailLate \/ QuietExit
       \/ FailDelivery \/ FailAgent \/ TimeOut \/ LoseRecord
    /\ Charge(turn'.charged - turn.charged, turn'.phase \in Ended)

TimePasses == Tick /\ UNCHANGED turnVars

Next ==
    \/ \E t \in Threads : Start(t)
    \/ RefuseRun
    \/ TurnStep
    \/ EndTurn
    \/ TimePasses

Spec == Init /\ [][Next]_spendingVars

-----------------------------------------------------------------------------
(* Properties.                                                             *)

\* The cap is looked at before a run and the run is charged after it, once or twice, so the
\* period is overspent by less than what its latest run was charged (BudgetGovernor.decide,
\* the serial worker, RunRecorder).
OvershootIsOneRun == Limit > 0 => SpentIn(InPeriod) < Limit + turn.charged
=============================================================================
