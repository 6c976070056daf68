------------------------------- MODULE Intake -------------------------------
(***************************************************************************)
(* The intake path of the assistant: one request (a Mailgun webhook, a     *)
(* surface or assistant-tools call, or the scheduled tick) runs            *)
(* AssistantRuntime.accept_inbound or accept_surface_action, which         *)
(*                                                                         *)
(*   - routes the mail to an assistant (AssistantRouter),                  *)
(*   - finds or creates its thread in a transaction of its own             *)
(*     (ThreadResolver.resolve commits),                                   *)
(*   - persists message, index entry and queued run in a second            *)
(*     transaction (persist_inbound, _ensure_queued_run),                  *)
(*   - resets the unanswered counters in a third one (a scheduled task     *)
(*     counts the notifications nobody answers), and                       *)
(*   - defers the run_agent job, only when the message is new.             *)
(*                                                                         *)
(* Requests run concurrently, the same mail may be delivered many times,   *)
(* and a request may die before any of its steps.                          *)
(***************************************************************************)
EXTENDS Naturals, Sequences, FiniteSets

CONSTANTS
    Mails,          \* provider message ids (a mail's Message-Id, an idempotency key)
    Assistants,
    Kind,           \* [Mails -> Kinds]: which caller brings the mail
    Mentions,       \* [Mails -> Seq(Mails)]: In-Reply-To, then References from last to first
    Deliverable,    \* the <<mail, assistant>> pairs that callers deliver
    Routable,       \* the deliverable pairs the router accepts
    Tasked,         \* the assistants with scheduled tasks, which notify the end user
    Handlers,       \* concurrent requests
    Faults,         \* the steps before which a request may die (exception or crash)
    MaxDeliveries,  \* bound: deliveries of one pair
    MaxFaults       \* bound: requests that die

Kinds == {"email", "scheduled", "surface"}

Steps == {"precheck", "resolve", "lookup", "insert", "reset", "defer", "ack"}

ASSUME IntakeAssumption ==
    /\ Kind \in [Mails -> Kinds]
    /\ Mentions \in [Mails -> Seq(Mails)]
    /\ Deliverable \subseteq Mails \X Assistants
    /\ Routable \subseteq Deliverable
    /\ Tasked \subseteq Assistants
    /\ Faults \subseteq Steps
    /\ MaxDeliveries \in Nat
    /\ MaxFaults \in Nat

VARIABLES
    threads,     \* email_threads: sequence of [assistant, root]; a row's id is its position
    messages,    \* inbound email_messages and their message_index entries, in commit order
    runs,        \* agent_runs: sequence of [message, thread]; a row's id is its position
    jobs,        \* run_agent jobs deferred so far, as a sequence of run ids
    unanswered,  \* per assistant: has some task a non-zero unanswered counter
    request,     \* what each handler is executing
    deliveries,  \* deliveries of each pair so far
    acked,       \* pairs answered as accepted (HTTP 200, or Accepted to the caller)
    faults       \* requests that died so far

\* History variable: the mails the assistant had indexed when the request arrived.
VARIABLE saw

db == <<threads, messages, runs, jobs, unanswered>>
vars == <<threads, messages, runs, jobs, unanswered, request, deliveries, acked, faults, saw>>

Idle == [pc |-> "idle"]

Requests == [pc: Steps, mail: Mails, to: Assistants, thread: Nat, run: Nat]

Message == [assistant: Assistants, mail: Mails, thread: Nat \ {0}]

TypeOK ==
    /\ threads \in Seq([assistant: Assistants, root: Mails])
    /\ messages \in Seq(Message)
    /\ runs \in Seq([message: Nat \ {0}, thread: Nat \ {0}])
    /\ jobs \in Seq(Nat \ {0})
    /\ unanswered \in [Assistants -> BOOLEAN]
    /\ request \in [Handlers -> {Idle} \cup Requests]
    /\ deliveries \in [Deliverable -> 0..MaxDeliveries]
    /\ acked \subseteq Deliverable
    /\ faults \in 0..MaxFaults
    /\ saw \in [Handlers -> SUBSET Mails]

Init ==
    /\ threads = <<>>
    /\ messages = <<>>
    /\ runs = <<>>
    /\ jobs = <<>>
    /\ unanswered = [a \in Assistants |-> FALSE]
    /\ request = [h \in Handlers |-> Idle]
    /\ deliveries = [d \in Deliverable |-> 0]
    /\ acked = {}
    /\ faults = 0
    /\ saw = [h \in Handlers |-> {}]

-----------------------------------------------------------------------------
(* The database as the handlers query it.                                  *)

\* Mutant: the lookup by provider_message_id forgets the assistant.
MutRowsOf(a, m) == {i \in DOMAIN messages : messages[i].mail = m}

\* The message rows with the unique key (assistant_id, provider_message_id).
RowsOf(a, m) == {i \in DOMAIN messages : messages[i].assistant = a /\ messages[i].mail = m}

\* The mails of an assistant that message_index knows.
Indexed(a) == {m \in Mails : RowsOf(a, m) # {}}

RunsOf(i) == {r \in DOMAIN runs : runs[r].message = i}

At(h, step) == request[h].pc = step

GoTo(h, step) == request' = [request EXCEPT ![h].pc = step]

Finish(h) == request' = [request EXCEPT ![h] = Idle]

Begin(h, m, a, step) ==
    /\ request' = [request EXCEPT ![h] =
                      [pc |-> step, mail |-> m, to |-> a, thread |-> 0, run |-> 0]]
    /\ saw' = [saw EXCEPT ![h] = Indexed(a)]

\* The tick gives each nudge an id of its own: only other callers deliver one again.
Deliver(h, d) ==
    /\ request[h] = Idle
    /\ Kind[d[1]] = "scheduled" => deliveries[d] = 0
    /\ deliveries[d] < MaxDeliveries
    /\ deliveries' = [deliveries EXCEPT ![d] = @ + 1]

-----------------------------------------------------------------------------
(* One action per step of a request.                                       *)

\* The router rejects the mail: nothing is written and the caller is answered.
Drop(h, d) ==
    /\ Deliver(h, d)
    /\ d \notin Routable
    /\ UNCHANGED <<db, request, acked, faults, saw>>

\* The router accepts it. A surface action first looks for an earlier run.
Receive(h, d) ==
    /\ Deliver(h, d)
    /\ d \in Routable
    /\ Begin(h, d[1], d[2], IF Kind[d[1]] = "surface" THEN "precheck" ELSE "resolve")
    /\ UNCHANGED <<db, acked, faults>>

\* accept_surface_action answers with the run of an earlier call, if there is one.
Precheck(h) ==
    /\ At(h, "precheck")
    /\ GoTo(h, IF \E i \in RowsOf(request[h].to, request[h].mail) : RunsOf(i) # {}
               THEN "ack" ELSE "resolve")
    /\ UNCHANGED <<db, deliveries, acked, faults, saw>>

\* The first mentioned mail that the assistant has indexed gives the thread.
JoinThread(h) ==
    /\ At(h, "resolve")
    /\ LET a == request[h].to
           refs == Mentions[request[h].mail]
       IN \E k \in DOMAIN refs :
             /\ \A j \in 1..(k - 1) : refs[j] \notin Indexed(a)
             /\ \E i \in RowsOf(a, refs[k]) :
                   request' = [request EXCEPT ![h].pc = "lookup",
                                              ![h].thread = messages[i].thread]
    /\ UNCHANGED <<db, deliveries, acked, faults, saw>>

\* Mutant: only the first mention, In-Reply-To, is looked up.
MutCreateThread(h) ==
    /\ At(h, "resolve")
    /\ \A k \in DOMAIN Mentions[request[h].mail] :
          k = 1 => Mentions[request[h].mail][k] \notin Indexed(request[h].to)
    /\ threads' = Append(threads, [assistant |-> request[h].to, root |-> request[h].mail])
    /\ request' = [request EXCEPT ![h].pc = "lookup", ![h].thread = Len(threads) + 1]
    /\ UNCHANGED <<messages, runs, jobs, unanswered, deliveries, acked, faults, saw>>

\* No mention is indexed: a new thread is committed before the message exists.
CreateThread(h) ==
    /\ At(h, "resolve")
    /\ \A k \in DOMAIN Mentions[request[h].mail] :
          Mentions[request[h].mail][k] \notin Indexed(request[h].to)
    /\ threads' = Append(threads, [assistant |-> request[h].to, root |-> request[h].mail])
    /\ request' = [request EXCEPT ![h].pc = "lookup", ![h].thread = Len(threads) + 1]
    /\ UNCHANGED <<messages, runs, jobs, unanswered, deliveries, acked, faults, saw>>

\* Mutant: the run is created without looking for one.
MutEnsureQueuedRun(i, t) == runs' = Append(runs, [message |-> i, thread |-> t])

\* _ensure_queued_run: a run row for message row i, unless there is one already.
EnsureQueuedRun(i, t) ==
    runs' = IF RunsOf(i) # {} THEN runs ELSE Append(runs, [message |-> i, thread |-> t])

\* Mutant: a duplicate delivery enqueues the run it found.
MutFindDuplicate(h) ==
    /\ At(h, "lookup")
    /\ \E i \in RowsOf(request[h].to, request[h].mail) :
          \E r \in RunsOf(i) :
             request' = [request EXCEPT ![h].pc = "defer", ![h].run = r]
    /\ UNCHANGED <<db, deliveries, acked, faults, saw>>

\* Mutant: a duplicate delivery resets the counters again.
MutFindDuplicateResets(h) ==
    /\ At(h, "lookup")
    /\ RowsOf(request[h].to, request[h].mail) # {}
    /\ unanswered' = [unanswered EXCEPT ![request[h].to] = FALSE]
    /\ GoTo(h, "ack")
    /\ UNCHANGED <<threads, messages, runs, jobs, deliveries, acked, faults, saw>>

\* persist_inbound finds the message of an earlier delivery: created = False,
\* the transaction commits and neither the reset nor the enqueue happens.
FindDuplicate(h) ==
    /\ At(h, "lookup")
    /\ \E i \in RowsOf(request[h].to, request[h].mail) : EnsureQueuedRun(i, request[h].thread)
    /\ GoTo(h, "ack")
    /\ UNCHANGED <<threads, messages, jobs, unanswered, deliveries, acked, faults, saw>>

\* persist_inbound finds nothing; the insert comes later in the transaction.
FindNothing(h) ==
    /\ At(h, "lookup")
    /\ RowsOf(request[h].to, request[h].mail) = {}
    /\ GoTo(h, "insert")
    /\ UNCHANGED <<db, deliveries, acked, faults, saw>>

\* The transaction of persist_inbound and _ensure_queued_run, and where the request goes next.
InsertThen(h, next) ==
    /\ messages' = Append(messages, [assistant |-> request[h].to, mail |-> request[h].mail,
                                     thread |-> request[h].thread])
    /\ EnsureQueuedRun(Len(messages) + 1, request[h].thread)
    /\ request' = [request EXCEPT ![h].pc = next, ![h].run = Len(runs) + 1]
    /\ UNCHANGED <<threads, jobs, unanswered, deliveries, acked, faults, saw>>

\* Mutant: no unique key on (assistant_id, provider_message_id).
MutInsertTwice(h) ==
    /\ At(h, "insert")
    /\ InsertThen(h, IF Kind[request[h].mail] = "email" THEN "reset" ELSE "defer")

\* Mutant: a surface action is answered without enqueueing its run.
MutInsertForgets(h) ==
    /\ At(h, "insert")
    /\ RowsOf(request[h].to, request[h].mail) = {}
    /\ InsertThen(h, CASE Kind[request[h].mail] = "email" -> "reset"
                        [] Kind[request[h].mail] = "scheduled" -> "defer"
                        [] OTHER -> "ack")

\* Message, index entry and queued run commit together (created = True).
Insert(h) ==
    /\ At(h, "insert")
    /\ RowsOf(request[h].to, request[h].mail) = {}
    /\ InsertThen(h, IF Kind[request[h].mail] = "email" THEN "reset" ELSE "defer")

\* A concurrent delivery committed first: the unique constraint aborts the
\* transaction, the exception leaves accept_inbound and nobody is answered.
InsertConflict(h) ==
    /\ At(h, "insert")
    /\ RowsOf(request[h].to, request[h].mail) # {}
    /\ Finish(h)
    /\ UNCHANGED <<db, deliveries, acked, faults, saw>>

\* Mutant: the handler returns after the reset.
MutReset(h) ==
    /\ At(h, "reset")
    /\ unanswered' = [unanswered EXCEPT ![request[h].to] = FALSE]
    /\ GoTo(h, "ack")
    /\ UNCHANGED <<threads, messages, runs, jobs, deliveries, acked, faults, saw>>

\* A real mail, not a scheduled or surface one, resets the unanswered counters.
Reset(h) ==
    /\ At(h, "reset")
    /\ unanswered' = [unanswered EXCEPT ![request[h].to] = FALSE]
    /\ GoTo(h, "defer")
    /\ UNCHANGED <<threads, messages, runs, jobs, deliveries, acked, faults, saw>>

\* A scheduled task has notified the end user: its counter of unanswered runs goes up,
\* at any time between the steps of the requests.
Notify(a) ==
    /\ a \in Tasked
    /\ unanswered' = [unanswered EXCEPT ![a] = TRUE]
    /\ UNCHANGED <<threads, messages, runs, jobs, request, deliveries, acked, faults, saw>>

\* The job is deferred after, and outside, the transaction that made the run.
Defer(h) ==
    /\ At(h, "defer")
    /\ jobs' = Append(jobs, request[h].run)
    /\ GoTo(h, "ack")
    /\ UNCHANGED <<threads, messages, runs, unanswered, deliveries, acked, faults, saw>>

Ack(h) ==
    /\ At(h, "ack")
    /\ acked' = acked \cup {<<request[h].mail, request[h].to>>}
    /\ Finish(h)
    /\ UNCHANGED <<db, deliveries, faults, saw>>

\* The request dies before its next step commits: an exception (the caller sees
\* a 500) or a crash of the web process. What was committed stays.
Die(h) ==
    /\ request[h].pc \in Faults
    /\ faults < MaxFaults
    /\ faults' = faults + 1
    /\ Finish(h)
    /\ UNCHANGED <<db, deliveries, acked, saw>>

Step(h) ==
    \/ Precheck(h) \/ JoinThread(h) \/ CreateThread(h) \/ FindDuplicate(h) \/ FindNothing(h)
    \/ Insert(h) \/ InsertConflict(h) \/ Reset(h) \/ Defer(h) \/ Ack(h)

Next ==
    \/ \E h \in Handlers :
          \/ \E d \in Deliverable : Drop(h, d) \/ Receive(h, d)
          \/ Step(h)
          \/ Die(h)
    \/ \E a \in Assistants : Notify(a)

Spec == Init /\ [][Next]_vars

\* The mails the provider brings to an assistant that accepts them.
MailDeliveries == {d \in Routable : Kind[d[1]] = "email"}

\* The web server keeps executing the requests it has accepted, and the mail
\* provider delivers again what was not answered.
FairSpec ==
    /\ Spec
    /\ \A h \in Handlers : WF_vars(Step(h))
    /\ \A d \in MailDeliveries : WF_vars(d \notin acked /\ \E h \in Handlers : Receive(h, d))

-----------------------------------------------------------------------------
(* Properties.                                                             *)

Queued(d) == \E i \in RowsOf(d[2], d[1]) : \E r \in RunsOf(i) : \E j \in DOMAIN jobs : jobs[j] = r

BeingQueued(d) ==
    \E h \in Handlers : /\ request[h].pc \in {"reset", "defer"}
                       /\ request[h].mail = d[1] /\ request[h].to = d[2]

\* However deliveries of one mail overlap, the assistant has at most one
\* message for it (the unique key of email_messages, persist_inbound).
OneMessagePerMail ==
    \A i, j \in DOMAIN messages :
        messages[i].assistant = messages[j].assistant /\ messages[i].mail = messages[j].mail
            => i = j

\* Every message has exactly one run, in the thread of the message, although
\* agent_runs has no unique key on inbound_message_id (_ensure_queued_run).
OneRunPerMessage ==
    /\ \A i \in DOMAIN messages : Cardinality(RunsOf(i)) = 1
    /\ \A r \in DOMAIN runs :
          runs[r].message \in DOMAIN messages /\ runs[r].thread = messages[runs[r].message].thread

\* No run is enqueued twice, however often its mail is delivered (accept_inbound
\* defers only when persist_inbound created the message).
AtMostOneJobPerRun ==
    \A i, j \in DOMAIN jobs : jobs[i] = jobs[j] => i = j

\* A message is filed in a thread of its own assistant, even when it mentions
\* mails of another assistant (ThreadResolver._find_thread_by_message_id).
ThreadsDoNotCrossAssistants ==
    \A i \in DOMAIN messages :
        /\ messages[i].thread \in DOMAIN threads
        /\ threads[messages[i].thread].assistant = messages[i].assistant

\* A mail that mentions a mail the assistant already knew when the request
\* arrived goes to the thread of one of the mails it mentions.
ReplyJoinsKnownThread ==
    \A h \in Handlers :
        request[h].pc \in {"lookup", "insert"} =>
            LET mentioned == {Mentions[request[h].mail][k] :
                                 k \in DOMAIN Mentions[request[h].mail]}
            IN mentioned \cap saw[h] # {} =>
                  \E m \in mentioned : \E i \in RowsOf(request[h].to, m) :
                      messages[i].thread = request[h].thread

\* The counters of an assistant are cleared by the request of a real mail to it, when the
\* mail is stored and before its run is enqueued: whatever notifications come in between, the
\* synthetic mail of a scheduled task, a surface call, and a delivery of a mail whose run is
\* enqueued already leave them alone (accept_inbound resets only when the message is new).
OnlyMailResetsCounters ==
    [][\A a \in Assistants : unanswered[a] /\ ~unanswered'[a] =>
          \E h \in Handlers :
              /\ request[h] # Idle /\ request'[h] # request[h]
              /\ request[h].to = a /\ Kind[request[h].mail] = "email"
              /\ RowsOf(a, request[h].mail) # {}
              /\ ~Queued(<<request[h].mail, a>>)
      ]_vars

\* A caller that was told its mail is accepted can rely on its run_agent job: it
\* is enqueued, or the request that made the run is still on its way to do it
\* (accept_inbound enqueues in the request that created the message only).
AckedIsQueued == \A d \in acked : Queued(d) \/ BeingQueued(d)

\* A routable mail that was delivered once is eventually enqueued.
DeliveredIsEventuallyQueued ==
    \A d \in MailDeliveries : deliveries[d] > 0 ~> Queued(d)

-----------------------------------------------------------------------------
(* What Intake implements.                                                 *)

JobsOf(d) == {j \in DOMAIN jobs : runs[jobs[j]].message \in RowsOf(d[2], d[1])}

Mailbox == INSTANCE Inbox WITH
               Pairs <- Deliverable,
               Accepted <- Routable,
               stored <- [d \in Deliverable |-> Cardinality(RowsOf(d[2], d[1]))],
               work <- [d \in Deliverable |-> Cardinality(JobsOf(d))],
               answered <- acked

\* Whatever overlaps, is repeated or dies, the tables of the intake change only as those of
\* an inbox that handles one delivery of a mail at a time (accept_inbound, "enqueues exactly
\* one run_agent job per unique pair" but for the jobs that are never enqueued).
ImplementsInbox == Mailbox!Spec
=============================================================================
