---------------------------- MODULE RunExecution ----------------------------
(***************************************************************************)
(* The execution of agent runs: the run_agent jobs in the job queue, the   *)
(* worker that claims them (one job per assistant at a time, by the job's  *)
(* lock), AssistantRuntime.execute_run with RunRecorder and the failure    *)
(* notifications, the task wrapper's last resort                           *)
(* (record_unhandled_run_failure), a worker that dies and the recovery of  *)
(* the jobs it leaves behind (cancel_interrupted_jobs).                    *)
(*                                                                         *)
(* Every step of execute_run that commits a transaction or sends a mail is *)
(* an action; an exception may leave it before most of them (MayRaise).    *)
(***************************************************************************)
EXTENDS Naturals

CONSTANTS
    Runs,
    Assistants,
    AssistantOf,   \* [Runs -> Assistants]
    Slots,         \* the jobs a worker process executes at the same time
    NoRun,         \* what an idle slot executes
    Outcomes,      \* what agent.run may do: a subset of AgentOutcomes
    MayRaise,      \* what may go wrong: a subset of Raisable \cup Mailing
    MaxCrashes     \* bound: deaths of the worker process

AgentOutcomes == {"reply", "quiet", "error", "error_usage", "timeout"}

\* Steps whose exceptions leave execute_run, steps of delivering the reply (with
\* a handler of their own), and the steps that deal with a failure.
PlainSteps == {"load", "mark", "decide", "send_limited", "record_limited", "curate_limited",
               "label_limited", "setup", "record_quiet", "tally_quiet"}
DeliverySteps == {"attachments", "send", "record", "curate", "tally"}
FailureSteps == {"fail", "notify_user", "notify_owner", "unwind", "rescue"}
Steps == PlainSteps \cup DeliverySteps \cup FailureSteps \cup {"agent", "return", "raise"}

\* The notes to the owner are guarded, and agent.run has outcomes of its own.
Raisable == PlainSteps \cup DeliverySteps \cup {"fail", "notify_user", "unwind", "rescue"}

\* How sending goes wrong: send_reply raises although the mail left, or a failure
\* notification is not sent (its exception is swallowed).
Mailing == {"sent_but_raised", "notice_lost"}

Statuses == {"queued", "running", "completed", "quiet_exited", "budget_limited", "failed"}
Final == Statuses \ {"queued", "running"}

ASSUME RunExecutionAssumption ==
    /\ AssistantOf \in [Runs -> Assistants]
    /\ NoRun \notin Runs
    /\ Outcomes \subseteq AgentOutcomes
    /\ MayRaise \subseteq Raisable \cup Mailing
    /\ MaxCrashes \in Nat

VARIABLES
    row,      \* agent_runs: status, completed_at, reply_message_id, message_history
    ledger,   \* usage_ledger: number of rows of each run
    job,      \* the run_agent job of each run: "none" before it is deferred
    ticket,   \* its job id: jobs are numbered in the order they are deferred
    issued,   \* job ids given out
    slot,     \* what the worker executes: run, next step, whether a failure has usage to record
    mailed,   \* mails the provider accepted, per run and purpose
    curated,  \* runs for which a curate_memory job was deferred
    tallied,  \* runs that reached their scheduled task's counter or fire log
    crashes

\* History variable: the runs for which the model has consumed tokens.
VARIABLE burned

tables == <<row, ledger>>
queue == <<job, ticket, issued>>
effects == <<mailed, curated, tallied>>
vars == <<tables, queue, slot, effects, crashes, burned>>

Row == [status: Statuses, completed: BOOLEAN, reply: BOOLEAN, history: BOOLEAN]

JobStatuses == {"none", "todo", "doing", "succeeded", "failed", "cancelled"}

IdleSlot == [run |-> NoRun, pc |-> "idle", usage |-> FALSE]

BusySlot == [run: Runs, pc: Steps, usage: BOOLEAN]

Purposes == {"reply", "limited", "apology", "owner"}

TypeOK ==
    /\ row \in [Runs -> Row]
    /\ ledger \in [Runs -> Nat]
    /\ job \in [Runs -> JobStatuses]
    /\ ticket \in [Runs -> Nat]
    /\ issued \in Nat
    /\ slot \in [Slots -> {IdleSlot} \cup BusySlot]
    /\ mailed \in [Runs -> [Purposes -> Nat]]
    /\ curated \subseteq Runs
    /\ tallied \subseteq Runs
    /\ crashes \in 0..MaxCrashes
    /\ burned \subseteq Runs

Init ==
    /\ row = [r \in Runs |-> [status |-> "queued", completed |-> FALSE, reply |-> FALSE,
                              history |-> FALSE]]
    /\ ledger = [r \in Runs |-> 0]
    /\ job = [r \in Runs |-> "none"]
    /\ ticket = [r \in Runs |-> 0]
    /\ issued = 0
    /\ slot = [s \in Slots |-> IdleSlot]
    /\ mailed = [r \in Runs |-> [p \in Purposes |-> 0]]
    /\ curated = {}
    /\ tallied = {}
    /\ crashes = 0
    /\ burned = {}

-----------------------------------------------------------------------------
(* The job queue, as jobs/app.py uses it.                                  *)

SameAssistant(q, r) == AssistantOf[q] = AssistantOf[r]

\* defer_run_agent, called by the intake, with the assistant's lock.
Enqueue(r) ==
    /\ job[r] = "none"
    /\ job' = [job EXCEPT ![r] = "todo"]
    /\ issued' = issued + 1
    /\ ticket' = [ticket EXCEPT ![r] = issued + 1]
    /\ UNCHANGED <<tables, slot, effects, crashes, burned>>

\* Mutant: the job is deferred without a lock.
MutClaimable(r) == job[r] = "todo"

\* Mutant: any waiting job with a free lock may be claimed.
MutClaimableUnordered(r) ==
    /\ job[r] = "todo"
    /\ \A q \in Runs : SameAssistant(q, r) => job[q] # "doing"

\* A job waits while its lock is held, and behind the older jobs with its lock.
Claimable(r) ==
    /\ job[r] = "todo"
    /\ \A q \in Runs : SameAssistant(q, r) =>
          job[q] # "doing" /\ (job[q] = "todo" => ticket[r] <= ticket[q])

Claim(s, r) ==
    /\ slot[s] = IdleSlot
    /\ Claimable(r)
    /\ job' = [job EXCEPT ![r] = "doing"]
    /\ slot' = [slot EXCEPT ![s] = [run |-> r, pc |-> "load", usage |-> FALSE]]
    /\ UNCHANGED <<tables, ticket, issued, effects, crashes, burned>>

\* Mutant: the slot does not let go of the run.
MutEndJob(s, pc, status) ==
    /\ slot[s].pc = pc
    /\ slot' = [slot EXCEPT ![s].pc = "idle"]
    /\ job' = [job EXCEPT ![slot[s].run] = IF @ = "doing" THEN status ELSE @]
    /\ UNCHANGED <<tables, ticket, issued, effects, crashes, burned>>

\* The worker finishes the job of a slot; a job cancelled meanwhile stays so.
EndJob(s, pc, status) ==
    /\ slot[s].pc = pc
    /\ slot' = [slot EXCEPT ![s] = IdleSlot]
    /\ job' = [job EXCEPT ![slot[s].run] = IF @ = "doing" THEN status ELSE @]
    /\ UNCHANGED <<tables, ticket, issued, effects, crashes, burned>>

Return(s) == EndJob(s, "return", "succeeded")
Raise(s) == EndJob(s, "raise", "failed")

-----------------------------------------------------------------------------
(* execute_run, one action per step.                                       *)

Run(s) == slot[s].run

\* The slot takes the step pc and goes on with next.
Take(s, pc, next) ==
    /\ slot[s].pc = pc
    /\ slot' = [slot EXCEPT ![s].pc = next]

SetRow(s, r) == row' = [row EXCEPT ![Run(s)] = r]

Mail(s, purpose) == mailed' = [mailed EXCEPT ![Run(s)][purpose] = @ + 1]

\* A usage_ledger row: the tokens of the model; metered tools are not told apart.
Charge(s) == ledger' = [ledger EXCEPT ![Run(s)] = @ + 1]

\* _load_run and the workspace: nothing that the model keeps changes.
LoadRun(s) ==
    /\ Take(s, "load", "mark")
    /\ UNCHANGED <<tables, queue, effects, crashes, burned>>

MarkRunning(s) ==
    /\ Take(s, "mark", "decide")
    /\ SetRow(s, [row[Run(s)] EXCEPT !.status = "running"])
    /\ UNCHANGED <<ledger, queue, effects, crashes, burned>>

\* BudgetGovernor.decide: go on, or answer that the budget is spent.
Decide(s) ==
    /\ Take(s, "decide", "setup") \/ Take(s, "decide", "send_limited")
    /\ UNCHANGED <<tables, queue, effects, crashes, burned>>

SendLimited(s) ==
    /\ Take(s, "send_limited", "record_limited")
    /\ Mail(s, "limited")
    /\ UNCHANGED <<tables, queue, curated, tallied, crashes, burned>>

\* record_completion; message_history is written only when there is one.
Complete(s, history) ==
    /\ SetRow(s, [status |-> "completed", completed |-> TRUE, reply |-> TRUE,
                  history |-> history \/ row[Run(s)].history])
    /\ Charge(s)

\* A limited run is first recorded as completed, with a ledger row of no cost.
RecordLimited(s) ==
    /\ Take(s, "record_limited", "curate_limited")
    /\ Complete(s, FALSE)
    /\ UNCHANGED <<queue, effects, crashes, burned>>

DeferCurate(s) ==
    /\ curated' = curated \cup {Run(s)}
    /\ UNCHANGED <<tables, queue, mailed, tallied, crashes, burned>>

CurateLimited(s) == Take(s, "curate_limited", "label_limited") /\ DeferCurate(s)

\* A second transaction gives the run its label.
LabelLimited(s) ==
    /\ Take(s, "label_limited", "return")
    /\ SetRow(s, [row[Run(s)] EXCEPT !.status = "budget_limited"])
    /\ UNCHANGED <<ledger, queue, effects, crashes, burned>>

\* Projection, skills, memory recall, prompts: up to the call of the agent.
SetUp(s) ==
    /\ Take(s, "setup", "agent")
    /\ UNCHANGED <<tables, queue, effects, crashes, burned>>

\* agent.run ends with a reply, QUIETLY_EXIT, an AgentRunError that carries the
\* usage so far, the timeout, which carries none, or another error before any usage.
AgentEnds(s) ==
    \E outcome \in Outcomes :
        /\ slot[s].pc = "agent"
        /\ slot' = [slot EXCEPT
                       ![s].pc = CASE outcome = "reply" -> "attachments"
                                   [] outcome = "quiet" -> "record_quiet"
                                   [] OTHER -> "fail",
                       ![s].usage = outcome = "error_usage"]
        /\ burned' = IF outcome = "error" THEN burned ELSE burned \cup {Run(s)}
        /\ UNCHANGED <<tables, queue, effects, crashes>>

RecordQuiet(s) ==
    /\ Take(s, "record_quiet", "tally_quiet")
    /\ SetRow(s, [status |-> "quiet_exited", completed |-> TRUE, reply |-> FALSE,
                  history |-> TRUE])
    /\ Charge(s)
    /\ UNCHANGED <<queue, effects, crashes, burned>>

Tally(s) ==
    /\ Take(s, "tally", "return") \/ Take(s, "tally_quiet", "return")
    /\ tallied' = tallied \cup {Run(s)}
    /\ UNCHANGED <<tables, queue, mailed, curated, crashes, burned>>

\* Mutant: the completion is recorded before the reply is sent.
MutReadAttachments(s) ==
    /\ Take(s, "attachments", "record")
    /\ UNCHANGED <<tables, queue, effects, crashes, burned>>

ReadAttachments(s) ==
    /\ Take(s, "attachments", "send")
    /\ UNCHANGED <<tables, queue, effects, crashes, burned>>

SendReply(s) ==
    /\ Take(s, "send", "record")
    /\ Mail(s, "reply")
    /\ UNCHANGED <<tables, queue, curated, tallied, crashes, burned>>

RecordCompletion(s) ==
    /\ Take(s, "record", "curate")
    /\ Complete(s, TRUE)
    /\ UNCHANGED <<queue, effects, crashes, burned>>

Curate(s) == Take(s, "curate", "tally") /\ DeferCurate(s)

-----------------------------------------------------------------------------
(* Exceptions.                                                             *)

\* Where an exception before step pc leads: to the handler around the delivery, out
\* of execute_run to the task wrapper, or, in the wrapper, to the end of the job.
Handler(pc) ==
    CASE pc \in DeliverySteps -> "fail"
      [] pc \in PlainSteps \cup {"fail", "notify_user"} -> "unwind"
      [] pc \in {"unwind", "rescue"} -> "raise"

\* The handler around the delivery knows the usage of the agent's result.
Except(s) ==
    slot' = [slot EXCEPT ![s].pc = Handler(slot[s].pc),
                         ![s].usage = @ \/ slot[s].pc \in DeliverySteps]

StepRaises(s) ==
    /\ slot[s].pc \in MayRaise
    /\ Except(s)
    /\ UNCHANGED <<tables, queue, effects, crashes, burned>>

\* The provider accepts the mail, but its answer is lost: send_reply raises.
SendRaisesLate(s) ==
    /\ "sent_but_raised" \in MayRaise
    /\ \/ slot[s].pc = "send" /\ Mail(s, "reply")
       \/ slot[s].pc = "send_limited" /\ Mail(s, "limited")
    /\ Except(s)
    /\ UNCHANGED <<tables, queue, curated, tallied, crashes, burned>>

\* record_failure leaves reply_message_id and message_history as they are.
MarkFailed(s) ==
    SetRow(s, [row[Run(s)] EXCEPT !.status = "failed", !.completed = TRUE])

\* Mutant: the usage that came with the failure is dropped.
MutRecordFailure(s) ==
    /\ Take(s, "fail", "notify_user")
    /\ MarkFailed(s)
    /\ UNCHANGED <<ledger, queue, effects, crashes, burned>>

RecordFailure(s) ==
    /\ Take(s, "fail", "notify_user")
    /\ MarkFailed(s)
    /\ IF slot[s].usage THEN Charge(s) ELSE UNCHANGED ledger
    /\ UNCHANGED <<queue, effects, crashes, burned>>

\* _notify_run_failed: the apology to the end user, then the note to the owner.
Notify(s, pc, purpose, next) ==
    /\ Take(s, pc, next)
    /\ Mail(s, purpose) \/ ("notice_lost" \in MayRaise /\ UNCHANGED mailed)
    /\ UNCHANGED <<tables, queue, curated, tallied, crashes, burned>>

NotifyUser(s) == Notify(s, "notify_user", "apology", "notify_owner")
NotifyOwner(s) == Notify(s, "notify_owner", "owner", "unwind")

\* Mutant: the wrapper does not look whether the failure is recorded already.
MutUnwindAlways(s) ==
    /\ Take(s, "unwind", "rescue")
    /\ UNCHANGED <<tables, queue, effects, crashes, burned>>

\* Mutant: the wrapper only lets the exception through.
MutUnwindNever(s) ==
    /\ Take(s, "unwind", "raise")
    /\ UNCHANGED <<tables, queue, effects, crashes, burned>>

\* record_unhandled_run_failure: nothing to do when execute_run recorded the run.
Unwind(s) ==
    /\ Take(s, "unwind", IF row[Run(s)].status \in Final THEN "raise" ELSE "rescue")
    /\ UNCHANGED <<tables, queue, effects, crashes, burned>>

Rescue(s) ==
    /\ Take(s, "rescue", "notify_user")
    /\ MarkFailed(s)
    /\ UNCHANGED <<ledger, queue, effects, crashes, burned>>

-----------------------------------------------------------------------------
(* The worker process.                                                     *)

\* The process dies: its slots are gone, their jobs stay "doing".
Crash ==
    /\ crashes < MaxCrashes
    /\ \E s \in Slots : slot[s] # IdleSlot
    /\ crashes' = crashes + 1
    /\ slot' = [s \in Slots |-> IdleSlot]
    /\ UNCHANGED <<tables, queue, effects, burned>>

\* Mutant: the recovery puts interrupted jobs back into the queue.
MutRecoverRetries ==
    /\ \A s \in Slots : slot[s] = IdleSlot
    /\ \E r \in Runs : job[r] = "doing"
    /\ job' = [r \in Runs |-> IF job[r] = "doing" THEN "todo" ELSE job[r]]
    /\ UNCHANGED <<tables, ticket, issued, slot, effects, crashes, burned>>

\* Mutant: the recovery fails every interrupted run, also one that is recorded.
MutRecoverFailsAll ==
    /\ \A s \in Slots : slot[s] = IdleSlot
    /\ \E r \in Runs : job[r] = "doing"
    /\ row' = [r \in Runs |-> IF job[r] = "doing"
                             THEN [row[r] EXCEPT !.status = "failed", !.completed = TRUE]
                             ELSE row[r]]
    /\ job' = [r \in Runs |-> IF job[r] = "doing" THEN "cancelled" ELSE job[r]]
    /\ UNCHANGED <<ledger, ticket, issued, slot, effects, crashes, burned>>

\* Mutant: the recovery cancels the jobs and forgets their runs.
MutRecoverJobsOnly ==
    /\ \A s \in Slots : slot[s] = IdleSlot
    /\ \E r \in Runs : job[r] = "doing"
    /\ job' = [r \in Runs |-> IF job[r] = "doing" THEN "cancelled" ELSE job[r]]
    /\ UNCHANGED <<tables, ticket, issued, slot, effects, crashes, burned>>

\* cancel_interrupted_jobs, while no worker runs (worker-dev calls it before it
\* starts a worker and after the worker has stopped), in one transaction.
Recover ==
    /\ \A s \in Slots : slot[s] = IdleSlot
    /\ \E r \in Runs : job[r] = "doing"
    /\ row' = [r \in Runs |->
                 IF /\ job[r] = "doing"
                    /\ row[r].status \notin Final
                    /\ ~row[r].reply /\ ~row[r].completed
                 THEN [row[r] EXCEPT !.status = "failed", !.completed = TRUE]
                 ELSE row[r]]
    /\ job' = [r \in Runs |-> IF job[r] = "doing" THEN "cancelled" ELSE job[r]]
    /\ UNCHANGED <<ledger, ticket, issued, slot, effects, crashes, burned>>

Execute(s) ==
    \/ LoadRun(s) \/ MarkRunning(s) \/ Decide(s) \/ SetUp(s) \/ AgentEnds(s)
    \/ SendLimited(s) \/ RecordLimited(s) \/ CurateLimited(s) \/ LabelLimited(s)
    \/ RecordQuiet(s) \/ Tally(s)
    \/ ReadAttachments(s) \/ SendReply(s) \/ RecordCompletion(s) \/ Curate(s)
    \/ StepRaises(s) \/ SendRaisesLate(s)
    \/ RecordFailure(s) \/ NotifyUser(s) \/ NotifyOwner(s) \/ Unwind(s) \/ Rescue(s)
    \/ Return(s) \/ Raise(s)

Next ==
    \/ \E r \in Runs : Enqueue(r)
    \/ \E s \in Slots : (\E r \in Runs : Claim(s, r)) \/ Execute(s)
    \/ Crash
    \/ Recover

Spec == Init /\ [][Next]_vars

\* A worker keeps executing what it claimed and claims what it can, and the
\* operator (or worker-dev) starts a worker again after it died, which recovers.
FairSpec ==
    /\ Spec
    /\ \A s \in Slots : WF_vars(Execute(s))
    /\ WF_vars(\E s \in Slots, r \in Runs : Claim(s, r))
    /\ WF_vars(Recover)

-----------------------------------------------------------------------------
(* Properties.                                                             *)

Ended(r) == job[r] \in {"succeeded", "failed"}

Answers(r) == mailed[r].reply + mailed[r].limited

\* Two slots never execute runs of one assistant (jobs/app.py: the lock
\* "assistant-<id>" serializes concurrent inbounds at execution time), whatever
\* raises, and also after a worker died in the middle of a run.
SerialPerAssistant ==
    \A s, t \in Slots :
        s # t /\ slot[s] # IdleSlot /\ slot[t] # IdleSlot => ~SameAssistant(Run(s), Run(t))

\* No run is answered twice, neither by a second execution after a crash nor by a
\* step that is taken again after an exception.
AtMostOneReply == \A r \in Runs : Answers(r) <= 1

\* The end user gets one mail for a run at most: an apology, which says that no
\* reply was generated, is never sent after a reply (error_envelope.py).
AtMostOneAnswer == \A r \in Runs : Answers(r) + mailed[r].apology <= 1

\* A run that is over left a mail to the end user, unless the agent chose to stay
\* quiet: no failure goes unnoticed (execute_run, run_agent's wrapper).
NoSilentRun ==
    \A r \in Runs :
        Ended(r) => row[r].status = "quiet_exited" \/ Answers(r) + mailed[r].apology >= 1

\* What the run row says was sent was sent.
CompletedMeansAnswered ==
    \A r \in Runs :
        /\ row[r].status = "completed" => Answers(r) >= 1 /\ row[r].reply
        /\ row[r].status = "budget_limited" => mailed[r].limited >= 1 /\ r \notin burned

\* Tokens that were consumed are charged, once: the budget governor reads the
\* ledger (record_failure: "budget cap stays accurate").
BurnedIsCharged == \A r \in Runs : Ended(r) /\ r \in burned => ledger[r] = 1

\* A run the table shows as running has a job that is being executed or that the
\* recovery will find; it does not stay running for ever.
RunningIsOwned == \A r \in Runs : row[r].status = "running" => job[r] = "doing"

\* A run that has reached a final status keeps it, but for the label of a limited
\* run: neither a late failure nor the recovery of its job reopens or fails it.
FinishedStaysFinished ==
    [][\A r \in Runs :
          row[r].status \in Final /\ row'[r].status # row[r].status =>
             /\ row[r].status = "completed" /\ row'[r].status = "budget_limited"
             /\ mailed[r].limited = 1 /\ mailed[r].reply = 0]_vars

\* A job that is deferred gets its run to a final status, although a worker may
\* die in the middle of it or of another run of the assistant.
EveryDeferredRunFinishes ==
    \A r \in Runs : job[r] = "todo" ~> row[r].status \in Final

\* The queue and the worker implement the serial execution.
Phase(r) ==
    CASE job[r] = "none" -> "new"
      [] job[r] = "todo" -> "waiting"
      [] job[r] = "doing" -> "active"
      [] OTHER -> "over"

Serial == INSTANCE SerialExecution WITH
              phase <- [r \in Runs |-> Phase(r)],
              arrivals <- issued,
              place <- ticket,
              answered <- {r \in Runs : Answers(r) > 0}

\* Every step of the worker, the queue and the recovery is a step of the serial
\* execution or changes nothing it can see.
ImplementsSerialExecution == Serial!Spec
=============================================================================
