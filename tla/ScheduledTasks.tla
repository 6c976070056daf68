---------------------------- MODULE ScheduledTasks ----------------------------
(***************************************************************************)
(* The scheduled tasks of one assistant and the three parties that change  *)
(* their rows:                                                             *)
(*                                                                         *)
(*   - ticks (tick_scheduled_tasks_impl), which lock the due rows with FOR  *)
(*     UPDATE SKIP LOCKED, run commands, send mails and create runs on the *)
(*     way, and write everything about the rows in one commit at the end;  *)
(*   - the worker, which executes the runs and counts each reply as an     *)
(*     unanswered notification (_record_scheduled_visible_notification);   *)
(*   - a mail of the user, which resets the counters                       *)
(*     (_reset_scheduled_unanswered_counters).                             *)
(*                                                                         *)
(* The last two read a row and write it later. A write waits for the lock  *)
(* of a tick; what it writes was computed from what was read.              *)
(***************************************************************************)
EXTENDS Naturals, Sequences, FiniteSets

CONSTANTS
    Tasks,
    Kind,        \* [Tasks -> {"once", "cron"}]
    Mode,        \* [Tasks -> Modes]: the agent only, a command first, a command and a direct mail
    Limit,       \* [Tasks -> Nat]: max_unanswered_runs, 0 for none
    Ticks,       \* ticks that may run at the same time
    NoTask,      \* the tag of a run that no scheduled task triggered
    Faults,      \* what may go wrong: a subset of FaultKinds
    MaxFaults,   \* bound: things that go wrong
    MaxReplies,  \* bound: mails of the user
    Horizon      \* bound: minutes the clock runs; a cron task is due every minute

Modes == {"agent", "command", "direct"}

\* A tick dies; a row's command raises, or exits with an error; the direct mail is
\* not sent, or sent and reported as failed; accept_inbound raises or drops the
\* mail, or raises between the commit of the run and its enqueue.
FaultKinds == {"crash", "command_raises", "command_fails", "direct_fails", "direct_fails_late",
               "dispatch_fails", "enqueue_fails"}

ASSUME ScheduledTasksAssumption ==
    /\ Kind \in [Tasks -> {"once", "cron"}]
    /\ Mode \in [Tasks -> Modes]
    /\ Limit \in [Tasks -> Nat]
    /\ NoTask \notin Tasks
    /\ Faults \subseteq FaultKinds
    /\ MaxFaults \in Nat /\ MaxReplies \in Nat /\ Horizon \in Nat

VARIABLES
    clock,    \* minutes
    task,     \* scheduled_tasks: status, next_run_at, consecutive_unanswered_runs
    fires,    \* scheduled_task_fires: rows of each task and status
    runs,     \* agent_runs of the tasks: triggering task, triggered_by_scheduled_task_id, state
    tick,     \* what each tick has in its transaction
    worker,   \* the run the worker has finished and what it read of the task
    reply,    \* the rows a mail of the user is about to reset
    replies,  \* mails of the user so far
    faults    \* things that went wrong so far

\* History variables: mails and runs that each task caused for each time it was due,
\* and the notifications sent since a mail of the user last reset the counters.
VARIABLES served, told

vars == <<clock, task, fires, runs, tick, worker, reply, replies, faults, served, told>>

Times == 0..(Horizon + 1)

TaskRow == [status: {"absent", "active", "paused", "completed", "deleted"}, next: Times,
            unanswered: Nat]

FireKinds == {"quiet_exited", "command_failed", "sent_direct", "continued", "paused",
              "agent_quiet_exited"}

\* A run: queued, without a job, finished, or about to be counted.
RunStates == {"queued", "jobless", "counting", "counted", "uncounted", "quiet", "failed"}

IdleTick == [now |-> 0, todo |-> {}, rows |-> <<>>, fires |-> [t \in Tasks |-> {}], tags |-> {}]

IdleWorker == [pc |-> "idle", run |-> 0, seen |-> 0]

TypeOK ==
    /\ clock \in 0..Horizon
    /\ task \in [Tasks -> TaskRow]
    /\ fires \in [Tasks -> [FireKinds -> Nat]]
    /\ runs \in Seq([task: Tasks, tag: Tasks \cup {NoTask}, state: RunStates])
    /\ \A k \in Ticks :
          /\ tick[k].now \in 0..Horizon
          /\ tick[k].todo \subseteq DOMAIN tick[k].rows
          /\ DOMAIN tick[k].rows \subseteq Tasks
          /\ \A t \in DOMAIN tick[k].rows : tick[k].rows[t] \in TaskRow
          /\ tick[k].fires \in [Tasks -> SUBSET FireKinds]
          /\ tick[k].tags \subseteq (DOMAIN runs) \X Tasks
    /\ worker \in [pc: {"idle", "read", "write", "quiet"}, run: Nat, seen: Nat]
    /\ reply \subseteq Tasks
    /\ replies \in 0..MaxReplies
    /\ faults \in 0..MaxFaults
    /\ served \in [Tasks -> [Times -> Nat]]
    /\ told \in [Tasks -> Nat]

Init ==
    /\ clock = 0
    /\ task = [t \in Tasks |-> [status |-> "absent", next |-> 0, unanswered |-> 0]]
    /\ fires = [t \in Tasks |-> [f \in FireKinds |-> 0]]
    /\ runs = <<>>
    /\ tick = [k \in Ticks |-> IdleTick]
    /\ worker = IdleWorker
    /\ reply = {}
    /\ replies = 0
    /\ faults = 0
    /\ served = [t \in Tasks |-> [n \in Times |-> 0]]
    /\ told = [t \in Tasks |-> 0]

\* Mutant: the due rows are read without FOR UPDATE.
MutLocked == {}

\* Rows locked by ticks: FOR UPDATE lasts until the commit or the rollback.
Locked == UNION {DOMAIN tick[k].rows : k \in Ticks}

\* compute_next_run: the first time after now that the cron expression names.
NextRun(now) == now + 1

-----------------------------------------------------------------------------
(* ScheduledTaskService, called by the agent's tools and the admin.        *)

\* create_once takes any time; create_cron computes the first one.
Create(t) ==
    /\ task[t].status = "absent"
    /\ \E n \in Times :
          /\ Kind[t] = "cron" => n = NextRun(clock)
          /\ task' = [task EXCEPT ![t] = [status |-> "active", next |-> n, unanswered |-> 0]]
    /\ UNCHANGED <<clock, fires, runs, tick, worker, reply, replies, faults, served, told>>

\* delete: the fires go with the row, the tags of its runs become null.
Delete(t) ==
    /\ task[t].status \notin {"absent", "deleted"}
    /\ t \notin Locked
    /\ task' = [task EXCEPT ![t].status = "deleted"]
    /\ fires' = [fires EXCEPT ![t] = [f \in FireKinds |-> 0]]
    /\ runs' = [i \in DOMAIN runs |->
                  IF runs[i].tag = t THEN [runs[i] EXCEPT !.tag = NoTask] ELSE runs[i]]
    /\ UNCHANGED <<clock, tick, worker, reply, replies, faults, served, told>>

-----------------------------------------------------------------------------
(* A tick. It may be executed long after the minute it was deferred for.   *)

Due(now) == {t \in Tasks : task[t].status = "active" /\ task[t].next <= now}

BeginTick(k, now) ==
    /\ tick[k] = IdleTick
    /\ Due(now) \ Locked # {}
    /\ LET rows == [t \in Due(now) \ Locked |-> task[t]]
       IN tick' = [tick EXCEPT ![k] = [IdleTick EXCEPT !.now = now, !.todo = DOMAIN rows,
                                                       !.rows = rows]]
    /\ UNCHANGED <<clock, task, fires, runs, worker, reply, replies, faults, served, told>>

\* The tick's next row, by next_run_at; the ids that break ties are random.
Handling(k, t) ==
    /\ t \in tick[k].todo
    /\ \A u \in tick[k].todo : tick[k].rows[t].next <= tick[k].rows[u].next

\* The tick is done with row t: its new values, fire rows and the tags of runs.
Handled(k, t, row, new, tags) ==
    tick' = [tick EXCEPT ![k].todo = @ \ {t}, ![k].rows[t] = row,
                         ![k].fires[t] = new, ![k].tags = @ \cup tags]

\* _mark_fired
Fired(k, t) ==
    IF Kind[t] = "once" THEN [tick[k].rows[t] EXCEPT !.status = "completed"]
    ELSE [tick[k].rows[t] EXCEPT !.next = NextRun(tick[k].now)]

Exhausted(t, count) == Kind[t] = "cron" /\ Limit[t] > 0 /\ count >= Limit[t]

\* The effects of handling a row that do not wait for the commit.
Serve(k, t, visible) ==
    /\ served' = [served EXCEPT ![t][tick[k].rows[t].next] = @ + 1]
    /\ told' = IF visible THEN [told EXCEPT ![t] = @ + 1] ELSE told

Fault(kind) ==
    /\ kind \in Faults
    /\ faults < MaxFaults
    /\ faults' = faults + 1

\* Mutant: a row with nothing to tell does not advance.
MutCommandDeclines(k, t) ==
    /\ Handling(k, t) /\ Mode[t] # "agent"
    /\ Handled(k, t, tick[k].rows[t], {}, {})
    /\ UNCHANGED <<clock, task, fires, runs, worker, reply, replies, faults, served, told>>

\* Exit status 1: nothing to tell this time.
CommandDeclines(k, t) ==
    /\ Handling(k, t) /\ Mode[t] # "agent"
    /\ Handled(k, t, Fired(k, t), {"quiet_exited"}, {})
    /\ UNCHANGED <<clock, task, fires, runs, worker, reply, replies, faults, served, told>>

\* Another exit status, or nothing to send: the row stays due.
CommandFails(k, t) ==
    /\ Handling(k, t) /\ Mode[t] # "agent"
    /\ Fault("command_fails")
    /\ Handled(k, t, tick[k].rows[t], {"command_failed"}, {})
    /\ UNCHANGED <<clock, task, fires, runs, worker, reply, replies, served, told>>

\* The command's output goes to the user, and the notification is counted.
SendDirect(k, t) ==
    /\ Handling(k, t) /\ Mode[t] = "direct"
    /\ LET count == tick[k].rows[t].unanswered + 1
           row == [Fired(k, t) EXCEPT !.unanswered = count]
       IN IF Exhausted(t, count)
          THEN Handled(k, t, [row EXCEPT !.status = "paused"], {"sent_direct", "paused"}, {})
          ELSE Handled(k, t, row, {"sent_direct"}, {})
    /\ Serve(k, t, TRUE)
    /\ UNCHANGED <<clock, task, fires, runs, worker, reply, replies, faults>>

\* An exception of the direct mail is caught and the row stays due.
DirectFails(k, t) ==
    /\ Handling(k, t) /\ Mode[t] = "direct"
    /\ \/ Fault("direct_fails") /\ UNCHANGED <<served, told>>
       \/ Fault("direct_fails_late") /\ Serve(k, t, TRUE)
    /\ Handled(k, t, tick[k].rows[t], {}, {})
    /\ UNCHANGED <<clock, task, fires, runs, worker, reply, replies>>

NewRun(t, state) == runs' = Append(runs, [task |-> t, tag |-> NoTask, state |-> state])

\* Mutant: the run is tagged in a transaction of its own.
MutDispatch(k, t) ==
    /\ Handling(k, t) /\ Mode[t] # "direct"
    /\ runs' = Append(runs, [task |-> t, tag |-> t, state |-> "queued"])
    /\ Handled(k, t, Fired(k, t), {"continued"}, {})
    /\ Serve(k, t, FALSE)
    /\ UNCHANGED <<clock, task, fires, worker, reply, replies, faults>>

\* accept_inbound commits the run and enqueues it; the tick tags it in its own transaction.
Dispatch(k, t) ==
    /\ Handling(k, t) /\ Mode[t] # "direct"
    /\ NewRun(t, "queued")
    /\ Handled(k, t, Fired(k, t), {"continued"}, {<<Len(runs) + 1, t>>})
    /\ Serve(k, t, FALSE)
    /\ UNCHANGED <<clock, task, fires, worker, reply, replies, faults>>

\* accept_inbound raises, or the router drops the mail: the row stays due.
DispatchFails(k, t) ==
    /\ Handling(k, t) /\ Mode[t] # "direct"
    /\ \/ Fault("dispatch_fails") /\ UNCHANGED runs
       \/ Fault("enqueue_fails") /\ NewRun(t, "jobless")
    /\ Handled(k, t, tick[k].rows[t], {}, {})
    /\ UNCHANGED <<clock, task, fires, worker, reply, replies, served, told>>

\* The transaction rolls back: a command raises, or the process dies.
Abort(k) ==
    /\ tick[k] # IdleTick
    /\ \/ Fault("crash")
       \/ Fault("command_raises") /\ \E t \in Tasks : Handling(k, t) /\ Mode[t] # "agent"
    /\ tick' = [tick EXCEPT ![k] = IdleTick]
    /\ UNCHANGED <<clock, task, fires, runs, worker, reply, replies, served, told>>

CommitTick(k) ==
    /\ tick[k] # IdleTick /\ tick[k].todo = {}
    /\ task' = [t \in Tasks |-> IF t \in DOMAIN tick[k].rows THEN tick[k].rows[t] ELSE task[t]]
    /\ fires' = [t \in Tasks |-> [f \in FireKinds |->
                    fires[t][f] + IF f \in tick[k].fires[t] THEN 1 ELSE 0]]
    /\ runs' = [i \in DOMAIN runs |->
                  IF <<i, runs[i].task>> \in tick[k].tags
                  THEN [runs[i] EXCEPT !.tag = runs[i].task] ELSE runs[i]]
    /\ tick' = [tick EXCEPT ![k] = IdleTick]
    /\ UNCHANGED <<clock, worker, reply, replies, faults, served, told>>

-----------------------------------------------------------------------------
(* The worker: one run of the assistant at a time, in order.               *)

\* execute_run up to its end: the user gets a reply, or the agent exits quietly, or it fails.
ExecuteRun(i) ==
    /\ worker = IdleWorker
    /\ i \in DOMAIN runs /\ runs[i].state = "queued"
    /\ \A j \in 1..(i - 1) : runs[j].state # "queued"
    /\ \/ /\ runs' = [runs EXCEPT ![i].state = "counting"]
          /\ worker' = [IdleWorker EXCEPT !.pc = "read", !.run = i]
          /\ told' = [told EXCEPT ![runs[i].task] = @ + 1]
       \/ /\ runs' = [runs EXCEPT ![i].state = "quiet"]
          /\ worker' = [IdleWorker EXCEPT !.pc = "quiet", !.run = i]
          /\ UNCHANGED told
       \/ /\ runs' = [runs EXCEPT ![i].state = "failed"]
          /\ UNCHANGED <<worker, told>>
    /\ UNCHANGED <<clock, task, fires, tick, reply, replies, faults, served>>

\* The counter of the task is read, unless the run has no tag (yet, or any more).
ReadTask ==
    /\ worker.pc = "read"
    /\ LET t == runs[worker.run].tag
       IN IF t = NoTask
          THEN /\ worker' = IdleWorker
               /\ runs' = [runs EXCEPT ![worker.run].state = "uncounted"]
          ELSE /\ worker' = [worker EXCEPT !.pc = "write", !.seen = task[t].unanswered]
               /\ UNCHANGED runs
    /\ UNCHANGED <<clock, task, fires, tick, reply, replies, faults, served, told>>

\* The counter is written; the task pauses when its limit is reached.
WriteTask ==
    /\ worker.pc = "write"
    /\ runs[worker.run].task \notin Locked
    /\ worker' = IdleWorker
    /\ LET t == runs[worker.run].tag
           count == worker.seen + 1
       IN IF t = NoTask      \* deleted meanwhile: the update matches no row and raises
          THEN /\ runs' = [runs EXCEPT ![worker.run].state = "uncounted"]
               /\ UNCHANGED <<task, fires>>
          ELSE /\ runs' = [runs EXCEPT ![worker.run].state = "counted"]
               /\ IF Exhausted(t, count)
                  THEN /\ task' = [task EXCEPT ![t].unanswered = count, ![t].status = "paused"]
                       /\ fires' = [fires EXCEPT ![t]["paused"] = @ + 1]
                  ELSE /\ task' = [task EXCEPT ![t].unanswered = count]
                       /\ UNCHANGED fires
    /\ UNCHANGED <<clock, tick, reply, replies, faults, served, told>>

\* The fire row of a quiet exit refers to the task's row and waits for its lock.
LogQuietExit ==
    /\ worker.pc = "quiet"
    /\ runs[worker.run].tag \notin Locked
    /\ worker' = IdleWorker
    /\ LET t == runs[worker.run].tag
       IN fires' = IF t = NoTask THEN fires ELSE [fires EXCEPT ![t]["agent_quiet_exited"] = @ + 1]
    /\ UNCHANGED <<clock, task, runs, tick, reply, replies, faults, served, told>>

-----------------------------------------------------------------------------
(* A mail of the user, in the web process.                                 *)

Unanswered == {t \in Tasks : task[t].status # "deleted" /\ task[t].unanswered # 0}

ReadCounters ==
    /\ reply = {} /\ Unanswered # {}
    /\ replies < MaxReplies
    /\ replies' = replies + 1
    /\ reply' = Unanswered
    /\ UNCHANGED <<clock, task, fires, runs, tick, worker, faults, served, told>>

\* All rows are written, or none when one of them was deleted meanwhile.
WriteCounters ==
    /\ reply # {}
    /\ reply \cap Locked = {}
    /\ reply' = {}
    /\ IF \E t \in reply : task[t].status = "deleted"
       THEN UNCHANGED <<task, told>>
       ELSE /\ task' = [t \in Tasks |-> IF t \in reply THEN [task[t] EXCEPT !.unanswered = 0]
                                        ELSE task[t]]
            /\ told' = [t \in Tasks |-> 0]
    /\ UNCHANGED <<clock, fires, runs, tick, worker, replies, faults, served>>

-----------------------------------------------------------------------------
Minute ==
    /\ clock < Horizon
    /\ clock' = clock + 1
    /\ UNCHANGED <<task, fires, runs, tick, worker, reply, replies, faults, served, told>>

TickStep(k) ==
    \/ \E t \in Tasks :
          \/ CommandDeclines(k, t) \/ CommandFails(k, t)
          \/ SendDirect(k, t) \/ DirectFails(k, t)
          \/ Dispatch(k, t) \/ DispatchFails(k, t)
    \/ CommitTick(k)

Worker == (\E i \in DOMAIN runs : ExecuteRun(i)) \/ ReadTask \/ WriteTask \/ LogQuietExit

Next ==
    \/ \E t \in Tasks : Create(t) \/ Delete(t)
    \/ \E k \in Ticks : (\E now \in 0..clock : BeginTick(k, now)) \/ TickStep(k) \/ Abort(k)
    \/ Worker
    \/ ReadCounters \/ WriteCounters
    \/ Minute

Spec == Init /\ [][Next]_vars

\* Time passes, a tick is deferred every minute and executed, and a tick that has
\* begun goes on.
FairSpec ==
    /\ Spec
    /\ WF_vars(Minute)
    /\ WF_vars(\E k \in Ticks : BeginTick(k, clock))
    /\ \A k \in Ticks : WF_vars(TickStep(k))

-----------------------------------------------------------------------------
(* Properties.                                                             *)

\* For one time it is due, a task causes one mail or one run at most, however many
\* ticks run at the same time or late (tick.py: concurrent ticks cannot double-fire;
\* on success the row advances).
AtMostOncePerDueTime == \A t \in Tasks : \A n \in Times : served[t][n] <= 1

\* And a failure, also one that rolls back a whole batch, serves a task again at most once.
ServedAgainOnlyForFaults == \A t \in Tasks : \A n \in Times : served[t][n] <= 1 + faults

\* The audit log and the runs agree: a "continued" fire for each tagged run.
AuditMatchesTags ==
    \A t \in Tasks :
        task[t].status # "deleted" =>
            fires[t]["continued"] = Cardinality({i \in DOMAIN runs : runs[i].tag = t})

\* A paused task does nothing more and stays paused, even when the worker pauses it
\* while a tick is at work.
PausedStaysQuiet ==
    [][\A t \in Tasks :
          task[t].status = "paused" =>
             served'[t] = served[t] /\ task'[t].status \in {"paused", "deleted"}]_vars

\* A task is paused after Limit notifications without a mail of the user in between
\* (assistant_agent.py, schedule tools).
PausedOnlyWhenUnanswered ==
    [][\A t \in Tasks :
          task[t].status = "active" /\ task'[t].status = "paused" => told'[t] >= Limit[t]]_vars

\* A task that is due advances, completes, pauses or is deleted, although ticks abort
\* and dispatches fail.
DueTaskAdvances ==
    \A t \in Tasks : \A n \in 0..Horizon :
        task[t].status = "active" /\ task[t].next = n
            ~> task[t].status # "active" \/ task[t].next > n
=============================================================================
