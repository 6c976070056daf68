---------------------------- MODULE BudgetPeriod ----------------------------
(***************************************************************************)
(* The budget of one assistant: seed writes the period once, the governor  *)
(* compares the ledger rows in that period with the limit before each run, *)
(* and the recorder adds ledger rows after it. The runs of an assistant    *)
(* are serial (SerialExecution); time passes between any two steps. What a *)
(* run costs is the business of AgentTurn; Spending composes the two.      *)
(***************************************************************************)
EXTENDS Naturals, Functions

CONSTANTS
    Limit,      \* monthly_limit_usd
    PeriodEnd,  \* period_resets_at; period_starts_at is 0
    Day,        \* length of a day, in units of the clock
    Horizon,    \* bound: the clock stops there
    MaxRuns     \* bound: runs

ASSUME BudgetPeriodAssumption ==
    /\ Limit \in Nat
    /\ PeriodEnd \in Nat \ {0} /\ Day \in Nat \ {0}
    /\ Horizon \in Nat /\ MaxRuns \in Nat

VARIABLES
    now,
    ledger,    \* usage_ledger: cost recorded at each time (created_at)
    running,   \* a run was allowed and is not over
    notice,    \* the latest budget reply: when it was sent, days_until_reset
    runs       \* runs decided so far

budgetVars == <<now, ledger, running, notice, runs>>

Times == 0..Horizon

NoNotice == [sent |-> FALSE, at |-> 0, days |-> 0]

BudgetTypeOK ==
    /\ now \in Times
    /\ ledger \in [Times -> Nat]
    /\ running \in BOOLEAN
    /\ notice \in [sent: BOOLEAN, at: Times, days: Nat]
    /\ runs \in 0..MaxRuns

BudgetInit ==
    /\ now = 0
    /\ ledger = [t \in Times |-> 0]
    /\ running = FALSE
    /\ notice = NoNotice
    /\ runs = 0

\* What the ledger says was spent in a span of time.
SpentIn(span) == SumFunctionOnSet(ledger, span)

InPeriod == {t \in Times : t < PeriodEnd}

\* Mutant: days are rounded down.
MutDaysUntilReset == IF PeriodEnd <= now THEN 0 ELSE (PeriodEnd - now) \div Day

\* max(0, ceil(remaining / day))
DaysUntilReset == IF PeriodEnd <= now THEN 0 ELSE (PeriodEnd - now + Day - 1) \div Day

NextRun ==
    /\ ~running
    /\ runs < MaxRuns
    /\ runs' = runs + 1

\* Mutant: a run is allowed when the limit is just reached.
MutAllow ==
    /\ NextRun
    /\ SpentIn(InPeriod) <= Limit
    /\ running' = TRUE
    /\ UNCHANGED <<now, ledger, notice>>

\* decide allows the run.
Allow ==
    /\ NextRun
    /\ SpentIn(InPeriod) < Limit
    /\ running' = TRUE
    /\ UNCHANGED <<now, ledger, notice>>

\* decide refuses it: the budget reply says for how many days.
Refuse ==
    /\ NextRun
    /\ SpentIn(InPeriod) >= Limit
    /\ notice' = [sent |-> TRUE, at |-> now, days |-> DaysUntilReset]
    /\ UNCHANGED <<now, ledger, running>>

\* The recorder charges the run, at the time it is recorded; the run may be over with it.
Charge(cost, over) ==
    /\ running
    /\ running' = ~over
    /\ ledger' = [ledger EXCEPT ![now] = @ + cost]
    /\ UNCHANGED <<now, notice, runs>>

Tick ==
    /\ now < Horizon
    /\ now' = now + 1
    /\ UNCHANGED <<ledger, running, notice, runs>>

-----------------------------------------------------------------------------
(* Properties.                                                             *)

\* The budget reply does not promise the assistant back before the period resets,
\* nor a day too late (BudgetGovernor.decide, days_until_reset).
NoticeIsHonest ==
    notice.sent =>
        /\ notice.at + notice.days * Day >= PeriodEnd
        /\ notice.days > 0 => notice.at + (notice.days - 1) * Day < PeriodEnd

\* When the period is over the assistant is back: it refuses nothing before it has
\* spent its limit again (budget_reply.py: back automatically when the next billing
\* period starts).
BackAfterReset ==
    [][now >= PeriodEnd /\ SpentIn({t \in Times : t >= PeriodEnd}) < Limit => ~Refuse]_budgetVars
=============================================================================
