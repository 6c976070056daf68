# A TLA+ verification of email-assistant

`email-assistant` runs personal assistants that people talk to by e-mail. A mail
arrives at a webhook, is filed in a thread of the assistant it is addressed to and
becomes a *run*; a worker executes the run (it asks a language model, which may use
tools in a sandbox) and answers by e-mail. Scheduled tasks wake an assistant at given
times, surfaces (small web applications) call it over HTTP, a budget limits what it
may spend.

The modules here are translated from the Python source (`src/src/email_agent`,
written below without that prefix). `PROJECT.json` maps every definition to the lines
it stands for.

## 1. Inventory

| component | state it keeps | operations | what makes it hard |
|---|---|---|---|
| Webhook and intake (`web/app.py`, `web/assistant_tools.py`, `runtime/assistant_runtime.py` accept_*, `domain/inbound_persister.py`, `domain/thread_resolver.py`) | `email_threads`, `email_messages`, `message_index`, `agent_runs`, the job queue | `accept_inbound`, `accept_surface_action` | three transactions and an enqueue per request, concurrent and repeated deliveries, a death between any two steps |
| Router (`domain/router.py`) | none (reads end users, allow-lists, budgets) | `resolve` | order of the rejections |
| Run execution (`assistant_runtime.py` execute_run, `domain/run_recorder.py`, `error_envelope.py`, `budget_reply.py`) | `agent_runs`, `usage_ledger`, `run_steps`, outbound messages | `execute_run`, `record_*`, failure notifications | about fifteen commits and mails in a row, nested exception handlers, a timeout |
| Job queue and recovery (`jobs/app.py`, `jobs/recovery.py`, `cli.py` worker-dev) | `procrastinate_jobs` | defer, claim under the assistant's lock, finish, `cancel_interrupted_jobs` | a dead worker's jobs keep their lock |
| Scheduled tasks (`scheduled/tick.py`, `scheduled/service.py`) | `scheduled_tasks`, `scheduled_task_fires` | create, delete, tick; the counters in the runtime | a tick does irrevocable things inside one long transaction, late and concurrent ticks, counters written from stale reads |
| Budget (`domain/budget_governor.py`, `cli.py` seed) | `budgets`, `usage_ledger` | `decide` | boundaries; time passes between decision and charge |
| Sandboxes (`sandbox/*_environment.py`) | containers and volumes, in-process file systems and their snapshots | `get_workspace`, exec, read, write, snapshot, recreate | a byte cache that goes stale, background snapshots written in place by several processes, a recreation that is not atomic |
| Skills, projections, starter files (`sandbox/skills.py`, `source_projection.py`, `domain/workspace_projector.py`) | files in the workspace | project, load | file layout |
| Agent and tools (`agent/`) | the tools' context during a run, `run_steps`, the message history of a thread | the tools | tool calls run in parallel; usage and steps must survive an exception and must not be taken twice from a history; what follows the record of a run may raise |
| Reply envelope, footer, participants (`domain/`) | none | building and stripping | headers must lead back to mails that may not be recorded yet; quotes of quotes |
| Mail adapters (`mail/`) | none | parse, send | an accepted mail whose answer is lost |
| Surfaces and tokens (`web/surfaces.py`, `surface_tokens.py`, `surface_settings.py`, `app.py`) | `surface_tokens`, `assistant_surfaces` | create, revoke, enable, disable, verify, proxy | transactions that overlap without locks, addresses that change while a request is under way, links |
| Admin UI (`web/admin/router.py`) | none | pages, two buttons | aggregates over joins |
| Memory (`memory/`, `jobs/curate_memory.py`) | external store, a cache of users | recall, record, search, delete (called by nothing) | I/O |
| Host tools (`document/`, `pdf/`, `search/`, `github/`, `google_workspace/`) | none | calls of services | I/O |
| Tool credentials, command line, configuration, schema | rows, settings | lookup, seed, wiring | none |

**How they interact.** The web process and the tick (a periodic job) call the intake.
The intake writes rows and *defers* a `run_agent` job with the lock
`assistant-<id>`. The worker claims jobs, and executes runs, by calling
`execute_run`. The tick, the worker and the intake all write the counters of
scheduled tasks. The budget is read by the worker and charged by the run recorder.
All share one PostgreSQL database; processes hold nothing in memory that matters but
the sandboxes and the memory cache.

**What makes each part correct.** Intake: one message, one run and one job for a mail,
in the right thread of the right assistant. Execution: runs of an assistant are serial
and in order, answered once, with rows that tell what was really sent, and none is
stuck. Scheduled tasks: served once for each due time, paused at their limit, never
forgotten. Budget: overshot by less than one run, and back when the period ends; the
ledger has what a run used, its trace each tool call once. Workspaces: what was written is what
is read, a save that meets no other one leaves a whole copy, and no upgrade loses files. Surfaces: a revoked token
opens nothing, a request reaches its own assistant. Correspondence: an answer is filed with
the mail it answers, and everybody who should read a reply gets it.

The hazards, each at its line, are listed in `PROJECT.json` with the properties that
cover them.

## 2. Modules

| module | models | role |
|---|---|---|
| `Inbox` | what the intake promises its callers and the queue | abstract |
| `Intake` | a request from its arrival to its answer | detailed; implements `Inbox` |
| `IntakeProofs` | types, no duplicate message, run or job, threads kept apart, replies join, what is acknowledged is enqueued, only mails reset counters, `Intake` implements `Inbox` | proofs |
| `SerialExecution` | what queue and worker promise | abstract |
| `RunExecution` | queue, worker, `execute_run`, recovery | detailed; implements `SerialExecution` |
| `RunExecutionProofs` | types, serial execution, at most one answer, `RunExecution` implements `SerialExecution`; rows, mails and charges agree | proofs |
| `ScheduledTasks` | task rows under ticks, worker and mails | detailed |
| `ScheduledTasksProofs` | types, a due time is served once and again only for faults, paused tasks stay quiet, the audit log matches the runs | proofs |
| `BudgetPeriod` | decision, charge and time | component of `Spending` |
| `AgentTurn` | one call of the agent: responses, tool calls, steps, usage | component of `Spending` |
| `Spending` | `AgentTurn` and `BudgetPeriod` together: what a run used against what it is charged | composition |
| `SpendingProofs` | sums over finite sets; use is charged, calls are traced once, the overshoot, the notice | proofs |
| `WorkspaceCopies` | what the snapshots of a workspace promise | abstract |
| `BashkitWorkspace` | the in-process workspaces and their snapshots | detailed; implements `WorkspaceCopies` |
| `DockerWorkspace` | containers and volumes, and their recreation | detailed |
| `DockerWorkspaceProofs` | files outlive upgrades, handles stay alive | proofs |
| `Workspaces` | a deployment with one or the other provider | composition |
| `WorkspacesProofs` | cached bytes are current, `BashkitWorkspace` implements `WorkspaceCopies`; that and what `DockerWorkspaceProofs` shows, for a deployment | proofs |
| `SurfaceAccess` | tokens, settings, addresses and requests of surfaces | detailed |
| `SurfaceAccessProofs` | finished calls are binding, requests reach their assistant, links lead home | proofs |
| `Conversation` | the mails to and from one assistant, their headers, footers and threads | detailed |
| `ConversationProofs` | answers are filed with their run, threads hold one conversation, footers stay out, the end user is copied | proofs |
| `MC*` | small instances | TLC |

Operators named `Mut...` are variants of the definition they stand before, with a
mistake this code could plausibly contain; every property is broken by one of them.

### Intake

A handler `h` executes one request, `request[h].pc` is its next step. One action is one
transaction, or one statement whose result is used later: `Receive`/`Drop` (router),
`Precheck` (the earlier run of a surface action), `JoinThread`/`CreateThread`
(`ThreadResolver.resolve`, which commits on its own), `FindDuplicate`/`FindNothing`
(the `SELECT` of `persist_inbound`), `Insert`/`InsertConflict` (the commit of message,
index entry and run, or the unique key that refuses it), `Reset` (unanswered counters),
`Defer` (the job) and `Ack`. `Notify` is the other side of the counters: a scheduled task of an
assistant in `Tasked` notifies the end user, between any two steps of the requests (how the
counters grow and pause a task is in `ScheduledTasks`). `Die` is an exception or the death of the process before a
step named in `Faults`.

`threads`, `messages` and `runs` are append-only sequences, so a row's id is its
position. The message row and its index entry are one record, because they are
written by one transaction. A mail is identified with its `Message-Id`; `Mentions`
gives its `In-Reply-To` and then its `References` from last to first, the order in which
the resolver tries them. The index also contains outbound mails: they lead to the
thread of their run, as the inbound mail of that run does, and are left out.
Bodies and attachments are left out; the router's outcome is a constant (`Routable`).
Each nudge of a scheduled task has a fresh id, so `Deliver` brings it once; mails and
surface calls with an idempotency key may come again.

`Inbox` is the promise: a pair of mail and assistant that the router accepts is stored once,
then enqueued once at most, and answered only when it is stored; an observer of the tables
sees nothing else, and nothing is taken back. The refinement counts the messages of a pair
(`stored`) and the jobs of their runs (`work`); `answered` is `acked`. It says "at most once" where the
design document says "exactly one", see `MCIntakeLostJob`; that the job is enqueued in the end,
under fairness and without that death, is `DeliveredIsEventuallyQueued`.

### RunExecution

A slot of the worker executes one run, `slot[s].pc` is its next step. `row` keeps the
status, `completed_at`, the reply's id and the message history of `agent_runs`; `ledger`
counts usage rows; `mailed` counts the mails the provider accepted, by purpose. Every
step that commits or sends is an action. `MayRaise` names the steps that may raise;
`Handler` says where the exception goes: to the handler around the delivery (which
records the failure and apologises), or out of `execute_run` to the wrapper in
`jobs/app.py`, which does the same unless the row is already final. `AgentEnds` has the
five ways in which a call of the agent ends. `Crash` removes the slots and leaves their
jobs `doing`; `Recover` is `cancel_interrupted_jobs`, which `worker-dev` calls while no
worker runs.

The queue is external. It is modelled as the code uses it: jobs with the same lock are
never executed together and are fetched in the order of their ids.
`burned` is a history variable: runs for which the model consumed tokens.

`SerialExecution` is the promise: runs are `new`, `waiting`, `active` and `over`, one of
an assistant is active at a time, the oldest first, and it is answered at most once,
while it is active. The refinement maps job states to phases, `ticket` to the order of
arrival, and the mails sent to `answered`.

### ScheduledTasks

`tick[k]` is the transaction of a tick: the rows it has locked (`FOR UPDATE SKIP
LOCKED`), what they will become, the fire rows and the tags of runs. `CommitTick` makes
them visible at once; `Abort` forgets them. Mails, and runs (which `accept_inbound`
commits on its own), do not wait for that commit: `Serve`, `NewRun`. The worker executes
a run, reads the task's counter (`ReadTask`) and writes it (`WriteTask`), which waits
for a lock but not for a fresh value. A mail of the user does the same with all
counters (`ReadCounters`, `WriteCounters`). `served` counts what a task caused for each
time it was due; `told` counts notifications since the user last wrote.
Cron expressions are every minute; `BeginTick` takes any minute up to now, since a tick
may be executed long after the minute it was deferred for.

### BudgetPeriod, AgentTurn and Spending

`BudgetPeriod`: one assistant, whose runs are serial. `ledger[t]` is what was charged at time `t`.
`decide` is `Allow` or `Refuse`, the recorder is `Charge`, and `Tick` may come between. The
period starts at 0 and ends at `PeriodEnd`, as `seed` writes it; nothing in the code changes
it.

`AgentTurn` is the inside of `AssistantAgent.run`: the model answers with text or with tool
calls (`Model`), the calls run in parallel (`ToolRuns`, `WebSearch`, which also costs), the hook
of each one writes its step (`RecordStep`), and the model is asked again (`ToolsReturn`). The run
ends with a reply, which is recorded (`RecordReply`) before what follows the record is done: the defer
of the memory job, the counter of the task. When that succeeds the run is over (`Return`); when it raises, the
handler of the delivery records the same run again, as failed (`FailLate`, charged twice). The agent may choose to say
nothing (`QuietExit`). A failure before the record is charged once: one of the model or a hook (`FailAgent`, whose
usage is summed from the captured messages), or one of the attachments, the mail or the record itself (`FailDelivery`).
A run whose usage is recorded nowhere ends as `lost`: `TimeOut`, and `LoseRecord`, where the record of a quiet
exit or of a failure raises, the exception is none that carries usage, or the worker dies.
`history` is the message history a completed run leaves for the next one of its
thread: it is part of the messages that are captured, so usage and steps could be counted twice.
`consumed` is a history variable, what the run really used.
`Spending` joins the two: `Start` is the governor's permission and the beginning of the turn,
`EndTurn` the rows of the ledger with the end of the turn.

### WorkspaceCopies, BashkitWorkspace, DockerWorkspace and Workspaces

`BashkitWorkspace`: `env[p]` is the workspace in process `p` (the worker; the command line):
its virtual file system, the mount that hides a part of it, the byte cache, and the tasks
(`pending`) that have still to save it in the background. Contents are texts, binaries
or nothing; `Effects` is whatever a command may do to them. Every tool that writes is an action. A path has
several `Spellings` ("a", "x/../a"): Bashkit writes the same file, the cache keeps an entry for each, and `spelt` remembers
how the last write spelt it.
`BashkitSnapshotStore.save` writes the file in place, without a lock or a rename, so a save is two steps:
`Persist` opens and empties the file (`Torn`), `Persisted` has written it; between them other processes
save and load (`saving` is who is writing, `mixed` that two were at once). Saves that overlap leave what one of them
wrote or a file that is neither. `SaveFails` and `Exit` cut a save off; `MigrateToBashkit` and `Migrated` replace the
snapshot from outside.
Of `from_snapshot`, which is Bashkit's, it is assumed that it raises for a file that is not one whole snapshot, so
nobody opens a `Torn` one.
`WorkspaceCopies` says what that adds up to: each process has a copy of its own; a save by one writer
alone leaves the writer's whole present copy, never an older one; of a save that is cut off or overlaps another
only that what it leaves is whole or unreadable, and that nobody starts from the unreadable; whoever ends a save
last wins. That callers *do* overwrite and spoil each other's saves is thus part of the promise, as it is of the code.

`DockerWorkspace`: `caller[c].pc` is the next call to the Docker daemon in
`_ensure_container_sync`, one action per call, since each may fail and other callers may come between.
A container is named by its `id`; a handle that a caller holds may be of one that is gone. `kept` is a
history variable: what the assistant last had in its workspace; `blame` names the faults
and overlaps that may have lost it. `Workspaces` composes the two as a deployment does: one or the other.

### SurfaceAccess

An operator (a call of the admin API or the command line) reads in a transaction (`Begin`)
and writes when it commits (`CommitTokens`, `CommitSurface`). A request goes through the middleware
(`Ask`), the settings (`LoadSettings`), the token (`Verify`), the address of the container
(`ResolveTarget`) and is forwarded (`Forward`); a browser may follow a link of the page (`Follow`).
Two routes the edge answers itself, each for one method: `_action/run` for POST (`Act`) and `_check` for GET (`Check`);
with another method the same path is forwarded like any other (`OwnRoute`). `Move` changes the address of a container.

A path is the sequence of its segments; an empty segment stands between two slashes, and the proxy drops the ones
in front (`Stripped`). A page has four kinds of link (`Links`): relative ones, which may climb, values
from the root that the rewriter sees, values from the root in places where it does not look (`unseen`: attributes that
`_REWRITE_ATTRS` does not name, styles, scripts), and the server's own address written out (`absolute`). `Rewritten` is the
rewriter, which leaves a value with two slashes in front alone (`NamesHost`); `Strays` names every link of which it is not
claimed that it leads home. `retired` and
`closed` are history variables: what finished operations have revoked and disabled, and
`request[r].refused` is what was retired when the request came.

### Conversation

All mails in the world (`mails`, a Message-Id is a position), those that reached the assistant,
those that are stored and indexed, and the queue of runs. `Write` is a person with any mail
client: answering any mail it has, quoting above or below, with or without References.
`Arrive` is the resolver and the persister, in one step (their transactions are in `Intake`);
`SendReply` and `RecordReply` are two, since mails overtake the record. `Fail` sends the note and the
report that nobody records. A body is abstracted to whose words are above and below its first footer.
`topic` is a history field: the mail a conversation began with.

## 3. Runs

Passing runs.

| run | instance | shows |
|---|---|---|
| `MCIntake` | two handlers, a mail to two assistants and its answer (which one of them rejects), two deliveries of each pair, one death | one message, one run, at most one job per mail; threads do not cross assistants; an answer joins the thread the assistant knew when it arrived |
| `MCIntakeCalls` | mail, nudge and surface call to one assistant, one death before the commit, fairness | an acknowledged call has its job; the counters are reset only by the request of a new real mail, before its run is enqueued, although a task notifies at any time; a mail that was delivered is eventually enqueued; refinement of `Inbox` |
| `MCRunExecution` | two runs of one assistant and one of another, two slots, one crash, exceptions before the answer leaves | serial, in order, one mail for a run that ends, one charge; refinement of `SerialExecution` |
| `MCRunExecutionRows` | two runs of one assistant, one crash, everything may raise but the steps after the completion is recorded and the wrapper itself, mails whose answer is lost, fairness | rows tell the truth, do not change once final, and every deferred run gets there |
| `MCScheduledTasks` | two cron tasks (one asks the agent and pauses at its first reply, one mails directly and pauses at its second), two ticks, four minutes, a mail of the user | one service per due time; a task at its limit is paused and quiet |
| `MCScheduledTasksFaults` | a one-off and a cron task, two ticks, two failures of any kind, fairness | audit log and tags agree; a task is served again only where a failure explains it; a due task advances |
| `MCSpending` | two threads, two runs and a third request, two responses with two tool calls each, a limit of three; a run may fail before, in and after its record | the ledger has what a run used, more for a failed one only by its thread's history, and twice for one that fails after its record; each call is traced once; overshoot below one run; the notice's number of days |
| `MCWorkspaces` | two processes of a Bashkit workspace and a migration, whose saves may overlap, three changes, one exit or failed save, two spellings, or two callers of a Docker container with an upgrade and two faults of any kind | cached bytes are current for the spelling a file was written with; refinement of `WorkspaceCopies`; files are lost only where a failure or an overlap explains it; handles are alive |
| `MCSurfaces` | two assistants, three operations of which two overlap, a request with any method, credentials and one of six paths (empty segments and the edge's own routes among them), any link of its page followed once, two moves | finished calls bind; requests reach their assistant; links lead home unless they are of a kind that `Strays` names |
| `MCConversation` | owner, end user and stranger, four mails | an answer joins its thread, threads hold one conversation, no footer is stored, the end user reads recorded answers |

Runs that find a disagreement between the code and what its documents, comments or
messages say.

| run | what happens |
|---|---|
| `MCIntakeLostJob` | the request dies between the commit and the enqueue; the redelivery finds the message, is acknowledged, and nothing is ever enqueued |
| `MCConversationLostWords` | a person answers below the quoted reply; its footer is where the stored body ends, although the design document says that nothing is stripped |

More of them have a configuration here, to be run by hand, with `tlc -config`:

| configuration (module) | what happens |
|---|---|
| `MCRunExecutionLateFailure` (`MCRunExecution`) | something after `send_reply` raises: the user gets the answer and then an apology saying that there is none (`AtMostOneAnswer`) |
| `MCScheduledTasksRollback` (`MCScheduledTasks`) | the command of one task raises: the transaction of the tick is rolled back although another task's mail is out, and it is sent again (`AtMostOncePerDueTime`) |
| `MCScheduledTasksLostReset` (`MCScheduledTasks`) | the worker writes a counter it read before a mail reset it: the task pauses although the user answered (`PausedOnlyWhenUnanswered`) |
| `MCSpendingReset` (`MCSpending`) | after the period has ended the spent budget still refuses, because nothing moves the period (`BackAfterReset`) |
| `MCSpendingOvercharge` (`MCSpending`) | a run of a thread with a history fails: the usage of the earlier runs is charged again (`FailedRunPaysForItself`) |
| `MCSpendingLateFailure` (`MCSpending`) | the defer of the memory job, or the counter of the task, raises after the reply was recorded: the run is recorded as failed with the same usage, so the budget, which `run_recorder.py:213` says stays accurate for failed runs, counts it twice (`LateFailureIsChargedOnce`) |

**Bounds, and why they are enough.** Two handlers, two slots and two ticks are the
smallest numbers at which two of them meet; a third would only repeat an encounter. Two
assistants are needed to see that one does not affect the other; two runs of one
assistant to see order. Two deliveries make one duplicate and one retry. One crash
(`MaxCrashes`) makes one recovery, after which the state has no trace of it but cancelled
jobs and final rows; the theorems hold for every bound. Two responses with two calls make
a turn in which calls overlap and one in which a history precedes them. One file, one mail and
one binary make every state of the cache, and two spellings an entry that is not the last one written; three
changes, in two processes or a migration and a process, make a pending save that another overtakes or meets, and one exit
or failed save cuts one off. Two images make one recreation, which two callers may begin. Three operations
make two that overlap and one that comes after; two addresses let one container get the other's; a link that climbs one directory
(`MaxUp`) stays on a page of two segments and leaves one of a single segment. Four mails make
a mail, its reply, the answer to that and one more; the theorems hold for any number. Two failures in the scheduled
tasks let one failure follow another on the same row. `Horizon` gives a cron task
enough minutes to be due, to be served late and to be due again. Handlers are
interchangeable, so `MCIntake` uses their symmetry, as `MCWorkspaces` does of its processes and
callers and `MCSurfaces` of its assistants, operators and addresses; runs with a liveness property use
none. `CHECK_DEADLOCK FALSE` is set because a bounded system stops when its mails, runs
or minutes are used up; that nothing stops early is what the liveness properties say.

**Fairness, and why the code justifies it.** *Intake*: the web server executes every
request it has accepted (weak fairness of each handler's steps), and the mail provider
delivers again what was not answered with a 200; nothing is assumed of surface
calls or nudges, which nobody retries under the same id. *Run execution*: the event loop
of a worker executes its jobs, and its fetch loop claims what can be claimed; after a
crash an operator, or `worker-dev`, starts a worker again and recovers. No fairness is
assumed of `Crash` or of exceptions. *Scheduled tasks*: the clock advances, the
periodic job is deferred every minute and executed, a tick that has begun goes on.
The other modules state safety only and assume no fairness.

**Conditions of the properties.** `AtMostOneAnswer`, `NoSilentRun` and `BurnedIsCharged`
are checked with the exceptions before the answer leaves and without the timeout: later
exceptions break the first (`MCRunExecutionLateFailure`), a failed notification the
second by design (it is caught and logged), and see below for the third.
`UseIsCharged` says nothing of runs that end as `lost`: those that timed out, whose record raised or whose worker died;
and it says of a run that fails after its record that it is charged twice. `CacheIsCurrent` is about the spelling a file was last written
with. `ImplementsCopies` promises whole copies only of saves that meet no other one and are not cut off. `FilesSurvive` and `HandleIsAlive`
name what they except: failures inside a recreation, and callers that meet one. `LinksLeadHome`
excepts what `Strays` names: values the rewriter does not look at, absolute addresses and other hosts, relative links of a page
that was asked for without its last slash or that climb above the server's root, and a server's own path that looks as if it had the
prefix; and a link to a route of the edge, with its method, is answered by the edge. `AnswersJoinTheThread` excepts the answer of a client that drops the References and
overtakes the record of the reply. `EndUserReadsAnswers` assumes that only owner and end
user may write. The modules whose type invariant is in no run (`Intake`, `ScheduledTasks`, `Spending`,
`Workspaces`, `SurfaceAccess`, `Conversation`) have one all the same; it was checked while they were written, and the `TypeCorrect` of their proofs, where there is one, shows it.

## 4. Proofs

`IntakeProofs` is checked by TLAPS for any mails, assistants, handlers, mentions and
bounds of deliveries and faults, from `IntakeAssumption` alone.

- `TypeCorrect`: `TypeOK` needs to know that a request has found its thread before it
  stores a message in it and its run before it enqueues it, and that only routed mails
  become requests (`RequestInv`). The lemmas before `StepTypes` say once what beginning,
  moving on and ending a request keep.
- `MessagesAreUnique`: `OneMessagePerMail` is inductive given the types. Only `Insert`
  adds a message, and its guard, the unique key, has just found none.
- `RunsAreUnique`: `RunInv` says that each message has one run, in the same thread. That
  is why the fallback of a duplicate delivery (`EnsureQueuedRun`) adds nothing.
- `JobsAreUnique`: `AtMostOneJobPerRun` is not inductive, since it does not say why a
  request may enqueue. `JobInv` adds that the run a request owes a job exists and has
  none (`OwedIsNotQueued`), that no two requests owe the same one (`OwedByOne`), and that
  jobs belong to runs (`JobsHaveRuns`), so that a run just inserted has no job either.
- `ThreadsStayApart`: `ThreadInv` adds to the threads of stored messages the threads that
  requests in progress have resolved.
- `RepliesJoinTheirThread` and `AcceptedIsEnqueued` rest on `PromiseIInv`, the types,
  `RunInv` and `PromiseInv`. Its `Informed` says, for each step of a request, what the request has
  found out and what it still owes: a request that knew a mail when it arrived finds its row, since
  rows are never removed; one that is about to say yes has seen the row of its mail; a
  reset is due only to the request that inserted a mail. `AcceptedIsEnqueued` assumes
  `EnqueueHolds` (no death between the commit and the defer, `Faults \cap {"reset", "defer"} = {}`),
  from which a stored mail has its job or a request that is about to enqueue it. Without it
  the statement is false: `MCIntakeLostJob`.
- `InboxRefinement`: `ImplementsInbox`, from `InboxInv`, which joins `PromiseIInv`, `JobInv` and
  `OneMessagePerMail`. `Insert` is `Store` (`InsertStores`): its guard has found no message, so the
  count goes from 0 to 1. `Defer` is `Enqueue` (`DeferEnqueues`): the request knows its run, the
  run's message is the only one of the pair and has no other run, and an owed run has no job. `Ack`
  is `Answer` (`AckAnswers`): who says yes has seen the row. Every other step, the
  duplicate's fallback and the deaths included, changes nothing that `Inbox` sees.
- `OnlyMailResets`: from `InboxInv` as well. A request at its reset owes its run
  (`OwedIsNotQueued`), its mail has one message and the message one run, so nothing of that mail is
  enqueued yet (`OwedMailIsNotQueued`): a delivery that comes again after the enqueue cannot be the
  one that clears the counters, whatever `Notify` has counted since.

`RunExecutionProofs` is checked for any runs,
assistants, slots, sets of outcomes and exceptions and any number of crashes, from
`RunExecutionAssumption` alone.

- `TypeCorrect`: `TypeOK` is inductive as it stands. `StepTypes` goes through the steps of
  a slot; the lemmas before it say what `Take`, `Except`, `Mail` and `Charge` do.
- `SerialExecutionPerAssistant`: `SerialPerAssistant` is not inductive, since it does not
  say why a claim is safe. `LockInv` adds that the run of a busy slot has a job that is
  `doing`, that two slots have different runs, and that of two jobs with one lock at most one is `doing`
  (`OneJobPerLock`). `Claim` keeps the last because `Claimable` refuses a
  held lock, `EndJob` and `Recover` only let go of locks, and `Crash` empties the slots
  and leaves the jobs alone.
- `AnsweredAtMostOnce`: `AtMostOneReply` needs to know that a slot about to answer has not
  answered yet. `AnswerInv` says that a run with a job not yet claimed, or whose slot
  is at a step from which it may still send (`BeforeAnswering`), has no answer; and that
  steps never lead back to those (`NoWayBack`).
- `SerialRefinement`: every step maps to `Arrive`, `Start`, `Answer` or `Finish`, or
  leaves the mapped variables alone; it uses `LockInv` (a slot that sends belongs to an
  active run) and `AnswerInv` (the run it answers is not answered).
- The rows: `RowIInv` adds to `AnswerInv` what is true of a run at each step of the slot that
  executes it (`At`: its status, its mails and its charges), of a run that no slot has begun (`Fresh`), of one that
  slots have left (`Left`), and that no row claims more than was sent (`Honest`). It is inductive for any exceptions, and
  `RowsTellTheTruth` follows from it as it stands. The other five theorems hold under a
  hypothesis on the exceptions, and the invariant says what is true under each of them:

  | theorem | hypothesis | steps that must not raise |
  |---|---|---|
  | `RunningRunsHaveJobs` | `WrapperHolds` | the wrapper's record and its rescue |
  | `OneMailPerRun` | `AnswerIsLast` | what comes after an answer has left: the mail whose reply is lost, the records of the limited and the completed run, curating, the task's tally |
  | `NoRunEndsSilently` | `NoticesLeave` | the apology, whose exception is logged, and the wrapper around it |
  | `TokensAreCharged` | `UsageSurvives` | the record of a quiet run or of a failure, and what follows the record of a completed one; no timeout |
  | `FinishedRunsStayFinished` | `RecordIsLast` | curating and the tally, after the record of a completed run |

  No hypothesis can be weakened: TLC finds each property violated when any one of the steps its
  hypothesis names may raise (or, for `TokensAreCharged`, the timeout may happen), and none when
  all other steps may. So they say exactly which handlers the code's promises rest on.

`ConversationProofs` is checked for any people, assistant and number of mails, from
`ConversationAssumption`.

- `TypeCorrect`: mails are only appended, so ids stay valid.
- `OneConversationPerThread` and `AnswersAreFiledWithTheirRun` rest on one inductive invariant,
  `IInv`. `Chained` says that what a mail refers to belongs to its conversation and that an envelope
  of the assistant refers to the mail it answers; `Filed`, that a thread is named by a stored mail
  of the conversation and that what a stored mail refers to and is stored too is in its thread; `Queued` and `Pending`, that the
  runs in the queue are of stored mails and that the reply in progress answers the first of
  them. Without `Chained` a thread could be joined by way of a mail that another thread holds.
- `FootersAreStripped` and `EndUserIsCopied` each add one conjunct about stored mails; the
  second assumes `AllowedSenders \subseteq {Owner, EndUser}`.

`SurfaceAccessProofs` is checked for any assistants, operators, requests, addresses and bounds.

- `FinishedOperationsBind`: `RevokedIsRefused` is not inductive, since two calls that overlap
  each write what they have read. `SeenWhatIsActive` says why that is harmless for tokens: a
  call knows every token that was active when it began, and tokens never become active again; so when
  it ends everything before it is out of use, whoever else commits. `DisablesAlone` says the same of settings: a
  call that met no call to enable the surface either writes the row or has seen it disabled, and it still is.
- `LinksAreRewritten`: paths are sequences over any set of segments, empty ones among them. `OnSurface` says that the page a request has got is one of
  the surface its address names; the rest is about what `Rewritten`, `Resolved` and `Proxied` do to the kinds of link
  (`ProxiedPath`, `RelativePath`, `LinkPaths`). What is left of a path without the slashes in front begins at its first
  segment that is not empty; that there is a first one (`StartExists`) rests on the least element of a set of
  numbers, from the library's well-founded induction. `StrippedRelative` is the core: to cut a page's path for a relative link
  that does not climb above the root, and to drop the slashes in front, may be done in either order. `MaxUp` need only be a number (`UpAssumption`).
- `ForwardedHome`: `Routed` follows a request from the settings to its target, `Apart` says that Docker gives
  an address to one container at a time.

`ScheduledTasksProofs` is checked for any tasks, ticks, faults and bounds, from
`ScheduledTasksAssumption`. All its theorems rest on one inductive invariant, `IInv`.

- `TypeCorrect` is its first part, `Types`.
- `ServedAgainIsAFault`: `Held` says what a lock is worth: the rows a tick holds are active, no other
  tick holds them, and those it has still to handle are as it read them and due. `Counted` adds
  that a time was served at most as often as there were faults, and once more only if it is
  `Past`: the row, or what the tick that holds it will write, is after that time or no longer
  active. Without the uncommitted row in `Past` a tick could serve a time between two of its own steps twice.
- `ServedAtMostOnce` assumes `Faults = {}`, from which `NoFaults` follows; `ServedAgainIsAFault` is what remains
  with faults.
- `PausedTasksStayQuiet` needs `Held` too: what serves a task holds its row, and a row that is held is active.
- `AuditLogMatchesRuns` rests on `AuditIInv`, which adds `AuditInv` to `IInv`. `Logged` says that the dispatches in the log are as many as
  the tagged runs. `Marks` says what a tick that has not committed will add to both: for each dispatch it will log,
  the tag of one run that has none yet and that no other dispatch tags, from a row it holds. So both
  sides of the count move together, at the commit, and an abort moves neither.

`DockerWorkspaceProofs` is checked for any callers, files, images and faults. Its theorems assume that
an empty workspace is one of the workspaces and that no workspace is not.

- `FilesOutliveUpgrades` and `HandlesStayAlive`: `Place` says at which steps a caller can be recreating and has
  a container in hand. `Alone`: a recreation that `blame` says met nobody has no other caller beside it,
  so that handles stay those of the container. `Safe`: until something happens, a recreation has in its
  archive what the assistant last had, and container and volume are gone, or new, as its step says.

`WorkspacesProofs` is checked for any processes, callers, files, mails, contents and spellings. Of `BashkitWorkspace`, from
`BashkitAssumption`, in which `Files # {}` is what makes a workspace different from no workspace:

- `CachedBytesAreCurrent`: an entry of the cache is taken when no command has run since it was
  made. `Current` says that entries are never of a later generation, that an entry of the present
  one, under the spelling of the last write (`spelt`), decodes to what is in the file, and that mails, which a mount may replace, are never cached.
- `BashkitImplementsCopies`: a process maps to its copy, or to none when it has ended (`CopyOf`). `Quiet`,
  an ended process has nothing left to save, is what the step of `Persist` needs, and `FileInv`, that whoever writes the file
  is open and what is in it is a tree or `Torn`, what the two steps of a save need: an environment does not change while it is
  saved, so what the save leaves is its present copy.

`CopiesStayWhole`, `FilesOutliveUpgrades` and `HandlesStayAlive` carry these and the theorems of
`DockerWorkspaceProofs` over to `Workspaces`: a deployment starts its workspace as any other and takes a step of
it or leaves it alone, so `WorkspacesSpec` implies the specifications of both providers.

`SpendingProofs` is checked for any threads, prices, limits, periods and numbers of runs, responses and calls, from
`AgentTurnAssumption` and `BudgetPeriodAssumption`.

- Costs are sums over finite sets. The first part shows that the fold which defines such a sum has a
  solution on every finite set (`AddsExists`) and only one (`AddsAgree`), and from that, that any element may be
  added last, that a part of a sum is no larger and that a sum grows with its terms (`SumTakesOut`,
  `SumIsMonotone`, `SumGrows`). A smallest counterexample (`SmallestSet`) takes the place of induction,
  whose library theorems the provers here cannot use.
- `LedgerCoversUse`: `UseIsKnown` says that until a run is over its own responses and searches cost what it
  used, and `ChargedSoFar` that it is charged with its record, exactly that, and nothing before; so the second record of a late failure
  makes it twice. `RunsInOrder` is why a response of an earlier run in the history is never counted as the
  run's own; a failure is charged the whole history, which is no less (`PartsAreCheaper`). `HistoryIsKnown`, all that was
  captured cost what the run used and what the history had cost, keeps the overcharge within the latter.
- `TraceShowsEachCallOnce`: `CallsInOrder` says that the calls asked for are the first ones, so that the
  next ones were never recorded, and that a response leaves room for those of the responses to come.
- `OverspendingIsBounded`: `StartedWithin`, while a run is not charged the period is within its limit,
  since runs are serial and nothing else writes the ledger.
- `RepliesPromiseTheReset`: `RoundedUp`, about a division that rounds up.

Only model-checked: liveness (TLAPS proves nothing about fairness or ENABLED here):
`DeliveredIsEventuallyQueued`, `EveryDeferredRunFinishes` and `DueTaskAdvances`. Every other property of a passing
run is stated by a theorem. That a sum is computed by the fold TLC evaluates is part of the proofs; that the
properties the other runs violate are violated is shown by TLC's traces alone.

## 5. Known divergences without a run of their own

Met while modelling, and left as observations.

- `ThreadResolver.resolve` commits a new thread before the duplicate is recognised, so two
  overlapping deliveries of a mail leave a thread without a message.
- `record_failure` in the timeout handler has no usage: the tokens of a run that timed
  out are never charged. Nor are those of a quiet run whose record raises (`assistant_runtime.py:645`), since the wrapper (749) knows
  no usage. The failed run that `MCSpendingLateFailure` shows keeps its message history.
- A run that the worker finishes before the tick has committed its tag is not counted as
  a notification.
- Costs after the end of the budget period are compared with nothing.
- `cancel_interrupted_jobs` marks runs failed and tells nobody.
- The reply of a client that drops the References, when it overtakes the record of the mail it
  answers, starts a thread of its own. So does the answer to a notice or a direct mail of a
  scheduled task, which are never indexed.
- Two people with auto-responders, or one, and the assistant answer each other until the budget is spent.
- The budget reply to the owner has no copy for the end user.
- Two calls to create a token at the same time leave two active ones, while
  `docs/apple-shortcuts-surface-api.md:3` speaks of one. Two first calls to enable a surface
  may end in a conflict of keys.
- A relative link on a page that was asked for without the slash at its end leads to
  `/surfaces/...`, one level too high, and so does one that climbs above the root, which a browser would stop at on the server itself.
- A path from the root in an attribute that `_REWRITE_ATTRS` does not name (`srcset`, `formaction`, `iframe` and others), in a style, in
  a script or in a page that cannot be decoded, leads out of the surface, as does a redirect of the server to its own address.
- A container that was stopped when its image became outdated is never recreated: its export raises, at
  every call. A second caller during a recreation may find an empty workspace, or lose its container.
- The snapshot is written in place: a process that starts while another one saves may meet half a file, saves that overlap may leave
  a mixture, and one that is cut off a part. Such a file makes every start of that workspace raise until a process that has it
  open saves again.
- `_normalize` does not resolve `..`: bytes written as `x/../a` and then written anew as `a` are still read back under the first
  spelling, until a command runs.
- `migrate-workspace-to-bashkit --force` is overwritten by the next snapshot of a worker that has the
  workspace open.
- A binary that a command wrote cannot be read back as bytes: only a text view of it exists.

## 6. Not modelled

Contents of mails, prompts and files; parsing and rendering; the language model beyond
its responses; what host tools ask of outside services; migrations; the clean-up of
old finished jobs, which nothing reads; `cancel_interrupted_jobs` beside a living worker, which is a
mistake of the operator. Tool credentials are one query. The rules of routing (aliases, normalised
addresses) and the participants block are pure text. The memory store is an outside service, and the one
operation that could meet another, `delete_assistant`, is called by nothing. The in-memory
environments, stores and mail adapters are test doubles.

## 7. Plan

1. Done: `Intake` with `Inbox`, `RunExecution` with `SerialExecution`, `ScheduledTasks`: the path of a mail and of a nudge to its
   answer; `Conversation`: what that path makes of a correspondence; `Spending`: what it costs;
   `Workspaces` and `SurfaceAccess`: what the assistant works in and serves. Proofs of every safety
   property of the passing runs.
2. Next: proofs of what the observations of section 5 leave: under which conditions
   a notification is counted, and a paused task was really unanswered.
