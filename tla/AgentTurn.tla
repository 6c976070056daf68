------------------------------ MODULE AgentTurn ------------------------------
(***************************************************************************)
(* One run of the agent: AssistantAgent.run with the tool calls of each    *)
(* response of the model executing side by side, the hooks that record a   *)
(* step as soon as a call is over, the metered web searches, the history   *)
(* of the thread that the model is given, and what RunRecorder writes when *)
(* the run ends: the steps that are not recorded yet and the ledger rows.  *)
(*                                                                         *)
(* The runs of an assistant are serial (SerialExecution), so turn is the   *)
(* run in progress, or the latest one. What the tools do to the workspace  *)
(* is in BashkitWorkspace, to the scheduled tasks in ScheduledTasks.       *)
(***************************************************************************)
EXTENDS Naturals, Sequences, FiniteSets, Functions

CONSTANTS
    Threads,
    Allowed,       \* tool_allowlist of the assistant's scope
    Available,     \* SUPPORTED_ASSISTANT_TOOLS with a backend in this deployment
    Prices,        \* what the tokens of one response may cost
    SearchCost,    \* BRAVE_SEARCH_COST_USD_PER_REQUEST
    MaxResponses,  \* bound: responses of the model in a run
    MaxCalls,      \* bound: tool calls in a response
    MaxTurns       \* bound: runs

ASSUME AgentTurnAssumption ==
    /\ Threads # {}
    /\ Prices \subseteq Nat
    /\ SearchCost \in Nat
    /\ MaxResponses \in Nat /\ MaxCalls \in Nat /\ MaxTurns \in Nat

VARIABLES
    turn,      \* the run: agent.run, its AgentDeps, and the rows it has so far
    history,   \* message_history of the thread's latest completed or quiet run
    turns,     \* runs begun so far
    consumed   \* history variable: what the run's own responses and searches cost

turnVars == <<turn, history, turns, consumed>>

\* "recorded": the reply is recorded as complete, and the call that did so is not over.
Phases == {"idle", "model", "tools", "answered", "recorded",
           "completed", "failed", "failed_late", "lost"}

Ended == {"completed", "failed", "failed_late", "lost"}

\* The tool calls of a run, in the order the model asks for them.
Calls == 1..(MaxResponses * MaxCalls)

\* A tool call is waiting to be recorded ("ran") or has its step ("recorded").
CallStates == {"unknown", "executing", "ran", "recorded"}

\* A ModelResponse: the run that got it, the price of its usage, its tool calls.
Response == [run: 1..MaxTurns, price: Prices, calls: SUBSET Calls]

\* A row of run_steps with a kind "tool:...": which call of which run it shows.
Step == [run: 1..MaxTurns, call: Calls]

NoCalls == [c \in Calls |-> "unknown"]

NoSteps == [s \in Step |-> 0]

NewTurn(phase, t) ==
    [phase |-> phase, thread |-> t, messages |-> history[t], call |-> NoCalls,
     searches |-> 0, steps |-> NoSteps, charged |-> 0]

\* A run as it is kept.
Turn == [phase: Phases, thread: Threads, messages: Seq(Response),
         call: [Calls -> CallStates], searches: Nat, steps: [Step -> Nat], charged: Nat]

TurnTypeOK ==
    /\ turn \in Turn
    /\ history \in [Threads -> Seq(Response)]
    /\ turns \in 0..MaxTurns
    /\ consumed \in Nat

TurnInit ==
    /\ history = [t \in Threads |-> <<>>]
    /\ turn = NewTurn("idle", CHOOSE t \in Threads : TRUE)
    /\ turns = 0
    /\ consumed = 0

Own(messages) == {i \in DOMAIN messages : messages[i].run = turns}

\* The tools that the agent is built with.
Registered == Allowed \cap Available

InState(states) == {c \in Calls : turn.call[c] \in states}

-----------------------------------------------------------------------------
(* The run.                                                                *)

\* execute_run hands over the history of the thread (_load_prior_thread_history);
\* capture_run_messages starts with it.
Begin(t) ==
    /\ turns < MaxTurns
    /\ turns' = turns + 1
    /\ turn' = NewTurn("model", t)
    /\ consumed' = 0
    /\ UNCHANGED history

\* The model answers, with tool calls or with the reply; its usage is in the response.
Respond(price, calls) ==
    /\ turn.phase = "model"
    /\ Cardinality(Own(turn.messages)) < MaxResponses
    /\ turn' = [turn EXCEPT
          !.phase = IF calls = {} THEN "answered" ELSE "tools",
          !.messages = Append(@, [run |-> turns, price |-> price, calls |-> calls]),
          !.call = [c \in Calls |-> IF c \in calls THEN "executing" ELSE @[c]]]
    /\ consumed' = consumed + price
    /\ UNCHANGED <<history, turns>>

\* It asks for the next n tool calls.
NextCalls(n) ==
    LET asked == Cardinality(InState(CallStates \ {"unknown"}))
    IN  (asked + 1)..(asked + n)

Model ==
    \E price \in Prices, n \in 0..MaxCalls :
        /\ n > 0 => Registered # {}
        /\ Respond(price, NextCalls(n))

\* A tool returns a result, or the text of its error (AgentToolset).
ToolRuns(c) ==
    /\ turn.phase = "tools" /\ turn.call[c] = "executing"
    /\ turn' = [turn EXCEPT !.call[c] = "ran"]
    /\ UNCHANGED <<history, turns, consumed>>

\* web_search gets an answer, which is metered; one that fails is ToolRuns.
WebSearch(c) ==
    /\ "web_search" \in Registered
    /\ turn.phase = "tools" /\ turn.call[c] = "executing"
    /\ turn' = [turn EXCEPT !.call[c] = "ran", !.searches = @ + 1]
    /\ consumed' = consumed + SearchCost
    /\ UNCHANGED <<history, turns>>

\* record_tool_step, record_tool_error: the hook writes the step of the call.
RecordStep(c) ==
    /\ turn.phase = "tools" /\ turn.call[c] = "ran"
    /\ turn' = [turn EXCEPT !.call[c] = "recorded",
                            !.steps[[run |-> turns, call |-> c]] = @ + 1]
    /\ UNCHANGED <<history, turns, consumed>>

\* All results are in: the model is asked again.
ToolsReturn ==
    /\ turn.phase = "tools"
    /\ InState({"executing", "ran"}) = {}
    /\ turn' = [turn EXCEPT !.phase = "model"]
    /\ UNCHANGED <<history, turns, consumed>>

-----------------------------------------------------------------------------
(* What the run costs, and its trace.                                      *)

PriceOf(messages, which) ==
    SumFunctionOnSet([i \in DOMAIN messages |-> messages[i].price], which)

Metered == turn.searches * SearchCost

\* RunResult.usage counts the requests of this run.
ResultUsage == PriceOf(turn.messages, Own(turn.messages)) + Metered

\* _summarise_partial_usage adds up every response that was captured.
PartialUsage == PriceOf(turn.messages, DOMAIN turn.messages) + Metered

\* Mutant: the searches stay in the cost of the model.
MutModelCost(usage) == usage

\* _model_cost: what is left for the model; the searches have rows of their own.
ModelCost(usage) == IF usage > Metered THEN usage - Metered ELSE 0

\* record_completion, record_quiet_exit, record_failure: one row for the model and
\* one for each search.
Rows(usage) == ModelCost(usage) + Metered

\* _extract_steps: the tool calls of all messages, the earlier ones of the thread too.
Extracted ==
    {s \in Step : \E i \in DOMAIN turn.messages :
        turn.messages[i].run = s.run /\ s.call \in turn.messages[i].calls}

\* Mutant: the steps that were recorded live are written again.
MutUnrecorded(steps) == steps

\* _filter_live_recorded_tool_steps: record_step is always given by execute_run.
Unrecorded(steps) == {}

-----------------------------------------------------------------------------
(* How the run ends.                                                       *)

\* What a record of the run writes: ledger rows of this cost and the missing steps.
Record(phase, cost) ==
    /\ turn' = [turn EXCEPT
          !.phase = phase,
          !.charged = @ + cost,
          !.steps = [s \in Step |-> @[s] + IF s \in Unrecorded(Extracted) THEN 1 ELSE 0]]
    /\ UNCHANGED <<turns, consumed>>

\* The latest run of the thread that ended well leaves its messages to the next one.
LeaveHistory == history' = [history EXCEPT ![turn.thread] = turn.messages]

\* The reply is sent, and record_completion commits the run as completed.
RecordReply ==
    /\ turn.phase = "answered"
    /\ Record("recorded", Rows(ResultUsage))
    /\ UNCHANGED history

\* What follows the record is done: the defer of the memory job, a task's counter.
Return ==
    /\ turn.phase = "recorded"
    /\ turn' = [turn EXCEPT !.phase = "completed"]
    /\ LeaveHistory
    /\ UNCHANGED <<turns, consumed>>

\* Or it raises: the handler of the delivery records the same run once more, as failed,
\* with its usage, and the thread goes on without its messages.
FailLate ==
    /\ turn.phase = "recorded"
    /\ Record("failed_late", Rows(ResultUsage))
    /\ UNCHANGED history

\* The agent chose to say nothing: record_quiet_exit is not followed by a second record.
QuietExit ==
    /\ turn.phase = "answered"
    /\ Record("completed", Rows(ResultUsage))
    /\ LeaveHistory

\* An attachment cannot be read, the mail cannot be sent, or the reply cannot be recorded.
FailDelivery ==
    /\ turn.phase = "answered"
    /\ Record("failed", Rows(ResultUsage))
    /\ UNCHANGED history

\* The model or a hook raises: AgentRunError carries what was captured.
FailAgent ==
    /\ turn.phase \in {"model", "tools"}
    /\ Record("failed", Rows(PartialUsage))
    /\ UNCHANGED history

\* The run ends without a record of its usage.
LoseUsage ==
    /\ turn' = [turn EXCEPT !.phase = "lost"]
    /\ UNCHANGED <<history, turns, consumed>>

\* asyncio.wait_for cancels agent.run: neither usage nor steps come out of it.
TimeOut == turn.phase \in {"model", "tools"} /\ LoseUsage

\* record_quiet_exit or record_failure raises, the agent raises what is no AgentRunError, or
\* the worker dies: what fails the run in the end (execute_run's last handler,
\* record_unhandled_run_failure, the recovery) does not know what it used.
LoseRecord == turn.phase \in {"model", "tools", "answered"} /\ LoseUsage

-----------------------------------------------------------------------------
(* Properties.                                                             *)

\* What the ledger gets for a run that is over. A reply and a quiet exit are charged exactly
\* what they used, model and searches once each. A run that fails before its reply is
\* recorded is charged that at least (RunRecorder.record_failure: the budget cap stays
\* accurate even when runs fail after burning tokens), and the history of its thread besides
\* at the most, with which the captured messages begin (_summarise_partial_usage). A run
\* that fails after its reply was recorded is charged twice over. Nothing is said of "lost"
\* runs, whose usage is charged nowhere: they timed out, or could not be recorded.
UseIsCharged ==
    /\ turn.phase = "completed" => turn.charged = consumed
    /\ turn.phase = "failed" =>
          /\ turn.charged >= consumed
          /\ turn.charged <= consumed + PriceOf(history[turn.thread], DOMAIN history[turn.thread])
    /\ turn.phase = "failed_late" => turn.charged = 2 * consumed

\* A tool call is in the trace of its run once when its hook has written it, whether it
\* is written by the hook or found again in the messages, and the calls of the
\* thread's earlier runs stay out (_filter_live_recorded_tool_steps).
CallsAreTracedOnce ==
    \A s \in Step :
        turn.steps[s] = IF s.run = turns /\ turn.call[s.call] = "recorded" THEN 1 ELSE 0

\* A run that fails before its reply is recorded is charged its own usage, which "sum to the
\* same totals as result.usage() on a completed run" (_summarise_partial_usage).
FailedRunPaysForItself == turn.phase = "failed" => turn.charged <= consumed

\* A run that fails after its reply was recorded is charged once, as the budget cap "stays
\* accurate even when runs fail after burning tokens" (RunRecorder.record_failure).
LateFailureIsChargedOnce == turn.phase = "failed_late" => turn.charged <= consumed
=============================================================================
