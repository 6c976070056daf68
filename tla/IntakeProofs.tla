---------------------------- MODULE IntakeProofs ----------------------------
(***************************************************************************)
(* Theorems about Intake, for any mails, assistants, handlers and faults.  *)
(***************************************************************************)
EXTENDS Intake, FiniteSetTheorems, TLAPS

-----------------------------------------------------------------------------
(* Types.                                                                  *)

\* A request knows its thread before it uses it, and its run before it enqueues it.
ThreadKnown == \A h \in Handlers : request[h].pc \in {"lookup", "insert"} => request[h].thread # 0
RunKnown == \A h \in Handlers : request[h].pc \in {"reset", "defer"} => request[h].run # 0

\* Only routed mails get as far as a request.
PairRouted ==
    \A h \in Handlers : request[h].pc \in Steps => <<request[h].mail, request[h].to>> \in Routable

RequestInv == ThreadKnown /\ RunKnown /\ PairRouted

TypeInv == TypeOK /\ RequestInv

\* A handler at a step of a request executes one.
LEMMA AtStepIsBusy ==
    ASSUME TypeOK, NEW h \in Handlers, request[h].pc \in Steps
    PROVE  request[h] \in Requests
<1>1. request[h] \in {Idle} \cup Requests
  BY DEF TypeOK
<1>2. request[h] # Idle
  BY DEF Idle, Steps
<1> QED BY <1>1, <1>2

\* The rows a query returns are positions of messages.
LEMMA RowsAreMessages ==
    ASSUME TypeOK, NEW a \in Assistants, NEW m \in Mails, NEW i \in RowsOf(a, m)
    PROVE  /\ i \in DOMAIN messages /\ i \in Nat \ {0}
           /\ messages[i] \in Message
           /\ messages[i].assistant = a /\ messages[i].mail = m
BY DEF RowsOf, TypeOK

\* EnsureQueuedRun keeps the type of runs, whether it finds a run or appends one.
LEMMA EnsureType ==
    ASSUME TypeOK, NEW i \in Nat \ {0}, NEW t \in Nat \ {0}, EnsureQueuedRun(i, t)
    PROVE  runs' \in Seq([message: Nat \ {0}, thread: Nat \ {0}])
<1>1. [message |-> i, thread |-> t] \in [message: Nat \ {0}, thread: Nat \ {0}]
  OBVIOUS
<1>2. runs \in Seq([message: Nat \ {0}, thread: Nat \ {0}])
  BY DEF TypeOK
<1>3. Append(runs, [message |-> i, thread |-> t]) \in Seq([message: Nat \ {0}, thread: Nat \ {0}])
  BY <1>1, <1>2
<1> QED BY <1>2, <1>3 DEF EnsureQueuedRun

\* Bookkeeping of the handlers: a request moves on, or ends.
LEMMA GoToTypes ==
    ASSUME TypeInv, NEW h \in Handlers, NEW step \in Steps, request[h].pc \in Steps,
           GoTo(h, step),
           step \in {"lookup", "insert"} => request[h].thread # 0,
           step \in {"reset", "defer"} => request[h].run # 0
    PROVE  /\ request' \in [Handlers -> {Idle} \cup Requests]
           /\ RequestInv'
<1>1. request[h] \in Requests
  BY AtStepIsBusy DEF TypeInv
<1>2. request \in [Handlers -> {Idle} \cup Requests]
  BY DEF TypeInv, TypeOK
<1>3. [request[h] EXCEPT !.pc = step] \in Requests
  BY <1>1 DEF Requests
<1>4. request' = [request EXCEPT ![h] = [request[h] EXCEPT !.pc = step]]
  BY DEF GoTo
<1>5. request' \in [Handlers -> {Idle} \cup Requests]
  BY <1>2, <1>3, <1>4
<1>6. \A g \in Handlers : request'[g] = IF g = h THEN [request[h] EXCEPT !.pc = step] ELSE request[g]
  BY <1>2, <1>4
<1>7. /\ request'[h].pc = step /\ request'[h].thread = request[h].thread
      /\ request'[h].run = request[h].run
  BY <1>1, <1>6 DEF Requests
<1>8. ThreadKnown'
  BY <1>6, <1>7 DEF ThreadKnown, TypeInv, RequestInv
<1>9. RunKnown'
  BY <1>6, <1>7 DEF RunKnown, TypeInv, RequestInv
<1>10. PairRouted'
  BY <1>1, <1>6 DEF PairRouted, TypeInv, RequestInv, Requests
<1> QED BY <1>5, <1>8, <1>9, <1>10 DEF RequestInv

\* A handler that finishes its request keeps the types: it is idle again.
LEMMA FinishTypes ==
    ASSUME TypeInv, NEW h \in Handlers, Finish(h)
    PROVE  /\ request' \in [Handlers -> {Idle} \cup Requests]
           /\ RequestInv'
<1>1. request \in [Handlers -> {Idle} \cup Requests]
  BY DEF TypeInv, TypeOK
<1>2. \A g \in Handlers : request'[g] = IF g = h THEN Idle ELSE request[g]
  BY <1>1 DEF Finish
<1>3. request' \in [Handlers -> {Idle} \cup Requests]
  BY <1>1 DEF Finish
<1>4. ThreadKnown'
  BY <1>2 DEF ThreadKnown, TypeInv, RequestInv, Idle
<1>5. RunKnown'
  BY <1>2 DEF RunKnown, TypeInv, RequestInv, Idle
<1>6. PairRouted'
  BY <1>2 DEF PairRouted, TypeInv, RequestInv, Idle, Steps
<1> QED BY <1>3, <1>4, <1>5, <1>6 DEF RequestInv

\* A request begins: its thread and its run are not known yet.
LEMMA BeginTypes ==
    ASSUME TypeInv, NEW h \in Handlers, NEW m \in Mails, NEW a \in Assistants,
           NEW step \in {"precheck", "resolve"}, <<m, a>> \in Routable, Begin(h, m, a, step)
    PROVE  /\ request' \in [Handlers -> {Idle} \cup Requests]
           /\ saw' \in [Handlers -> SUBSET Mails]
           /\ RequestInv'
<1> DEFINE new == [pc |-> step, mail |-> m, to |-> a, thread |-> 0, run |-> 0]
<1>1. request \in [Handlers -> {Idle} \cup Requests] /\ saw \in [Handlers -> SUBSET Mails]
  BY DEF TypeInv, TypeOK
<1>2. new \in Requests
  BY DEF Requests, Steps
<1>3. request' = [request EXCEPT ![h] = new] /\ saw' = [saw EXCEPT ![h] = Indexed(a)]
  BY DEF Begin
<1>4. Indexed(a) \in SUBSET Mails
  BY DEF Indexed
<1>5. /\ request' \in [Handlers -> {Idle} \cup Requests]
      /\ saw' \in [Handlers -> SUBSET Mails]
  <2> HIDE DEF new
  <2> QED BY <1>1, <1>2, <1>3, <1>4
<1>6. \A g \in Handlers : request'[g] = IF g = h THEN new ELSE request[g]
  <2> HIDE DEF new
  <2> QED BY <1>1, <1>3
<1>7. new.pc \notin {"lookup", "insert", "reset", "defer"} /\ new.mail = m /\ new.to = a
  OBVIOUS
<1>8. RequestInv'
  <2> HIDE DEF new
  <2> QED BY <1>6, <1>7 DEF ThreadKnown, RunKnown, PairRouted, TypeInv, RequestInv
<1> QED BY <1>5, <1>8

\* A request that learns its thread goes on to the lookup.
LEMMA ThreadTypes ==
    ASSUME TypeInv, NEW h \in Handlers, request[h].pc \in Steps, NEW t \in Nat \ {0},
           request' = [request EXCEPT ![h].pc = "lookup", ![h].thread = t]
    PROVE  /\ request' \in [Handlers -> {Idle} \cup Requests]
           /\ RequestInv'
<1> DEFINE new == [request[h] EXCEPT !.pc = "lookup", !.thread = t]
<1>1. request[h] \in Requests
  BY AtStepIsBusy DEF TypeInv
<1>2. request \in [Handlers -> {Idle} \cup Requests]
  BY DEF TypeInv, TypeOK
<1>3. /\ new \in Requests /\ new.pc = "lookup" /\ new.thread = t
      /\ new.mail = request[h].mail /\ new.to = request[h].to
  BY <1>1 DEF Requests, Steps
<1>4. request' = [request EXCEPT ![h] = new]
  OBVIOUS
<1> HIDE DEF new
<1>5. request' \in [Handlers -> {Idle} \cup Requests]
  BY <1>2, <1>3, <1>4
<1>6. \A g \in Handlers : request'[g] = IF g = h THEN new ELSE request[g]
  BY <1>2, <1>4
<1>7. RequestInv'
  BY <1>1, <1>3, <1>6 DEF ThreadKnown, RunKnown, PairRouted, TypeInv, RequestInv, Requests
<1> QED BY <1>5, <1>7

\* A request that has made its run goes on with the reset or the enqueue.
LEMMA RunTypes ==
    ASSUME TypeInv, NEW h \in Handlers, request[h].pc \in Steps, NEW r \in Nat \ {0},
           NEW step \in {"reset", "defer"},
           request' = [request EXCEPT ![h].pc = step, ![h].run = r]
    PROVE  /\ request' \in [Handlers -> {Idle} \cup Requests]
           /\ RequestInv'
<1> DEFINE new == [request[h] EXCEPT !.pc = step, !.run = r]
<1>1. request[h] \in Requests
  BY AtStepIsBusy DEF TypeInv
<1>2. request \in [Handlers -> {Idle} \cup Requests]
  BY DEF TypeInv, TypeOK
<1>3. /\ new \in Requests /\ new.pc \in {"reset", "defer"} /\ new.run = r
      /\ new.mail = request[h].mail /\ new.to = request[h].to
  BY <1>1 DEF Requests, Steps
<1>4. request' = [request EXCEPT ![h] = new]
  OBVIOUS
<1> HIDE DEF new
<1>5. request' \in [Handlers -> {Idle} \cup Requests]
  BY <1>2, <1>3, <1>4
<1>6. \A g \in Handlers : request'[g] = IF g = h THEN new ELSE request[g]
  BY <1>2, <1>4
<1>7. RequestInv'
  BY <1>1, <1>3, <1>6 DEF ThreadKnown, RunKnown, PairRouted, TypeInv, RequestInv, Requests
<1> QED BY <1>5, <1>7

\* One more delivery is within the bound.
LEMMA DeliverType ==
    ASSUME TypeOK, NEW h \in Handlers, NEW d \in Deliverable, Deliver(h, d)
    PROVE  deliveries' \in [Deliverable -> 0..MaxDeliveries]
<1>1. deliveries \in [Deliverable -> 0..MaxDeliveries] /\ MaxDeliveries \in Nat
  BY IntakeAssumption DEF TypeOK
<1>2. deliveries[d] + 1 \in 0..MaxDeliveries
  BY <1>1 DEF Deliver
<1> QED BY <1>1, <1>2 DEF Deliver

\* What the tables keep when a step leaves them alone.
LEMMA TablesKept ==
    ASSUME TypeOK, UNCHANGED db
    PROVE  /\ threads' \in Seq([assistant: Assistants, root: Mails])
           /\ messages' \in Seq(Message)
           /\ runs' \in Seq([message: Nat \ {0}, thread: Nat \ {0}])
           /\ jobs' \in Seq(Nat \ {0})
           /\ unanswered' \in [Assistants -> BOOLEAN]
BY DEF TypeOK, db

\* Every action keeps the types.
LEMMA StepTypes ==
    ASSUME TypeInv, NEW h \in Handlers, Step(h)
    PROVE  TypeInv'
<1> USE DEF TypeInv, RequestInv
<1>1. CASE Precheck(h)
  <2>1. request[h].pc \in Steps
    BY <1>1 DEF Precheck, At, Steps
  <2>2. PICK step \in {"ack", "resolve"} : GoTo(h, step)
    BY <1>1 DEF Precheck
  <2>3. request' \in [Handlers -> {Idle} \cup Requests] /\ RequestInv'
    BY <2>1, <2>2, GoToTypes DEF Steps
  <2> QED BY <1>1, <2>3, TablesKept DEF Precheck, TypeOK
<1>2. CASE JoinThread(h)
  <2>1. request[h].pc \in Steps
    BY <1>2 DEF JoinThread, At, Steps
  <2>2. request[h] \in Requests
    BY <2>1, AtStepIsBusy
  <2>3. PICK k \in DOMAIN Mentions[request[h].mail] :
           \E i \in RowsOf(request[h].to, Mentions[request[h].mail][k]) :
              request' = [request EXCEPT ![h].pc = "lookup", ![h].thread = messages[i].thread]
    BY <1>2 DEF JoinThread
  <2>4. Mentions[request[h].mail] \in Seq(Mails)
    BY <2>2, IntakeAssumption DEF Requests
  <2>5. Mentions[request[h].mail][k] \in Mails /\ request[h].to \in Assistants
    BY <2>2, <2>3, <2>4 DEF Requests
  <2>6. PICK i \in RowsOf(request[h].to, Mentions[request[h].mail][k]) :
           request' = [request EXCEPT ![h].pc = "lookup", ![h].thread = messages[i].thread]
    BY <2>3
  <2>7. messages[i].thread \in Nat \ {0}
    BY <2>5, <2>6, RowsAreMessages DEF Message
  <2>8. request' \in [Handlers -> {Idle} \cup Requests] /\ RequestInv'
    BY <2>1, <2>6, <2>7, ThreadTypes
  <2> QED BY <1>2, <2>8, TablesKept DEF JoinThread, TypeOK
<1>3. CASE CreateThread(h)
  <2>1. request[h].pc \in Steps
    BY <1>3 DEF CreateThread, At, Steps
  <2>2. request[h] \in Requests
    BY <2>1, AtStepIsBusy
  <2>3. Len(threads) + 1 \in Nat \ {0}
    BY DEF TypeOK
  <2>4. request' \in [Handlers -> {Idle} \cup Requests] /\ RequestInv'
    BY <1>3, <2>1, <2>3, ThreadTypes DEF CreateThread
  <2>5. threads' \in Seq([assistant: Assistants, root: Mails])
    <3>1. [assistant |-> request[h].to, root |-> request[h].mail] \in
             [assistant: Assistants, root: Mails]
      BY <2>2 DEF Requests
    <3> QED BY <1>3, <3>1 DEF CreateThread, TypeOK
  <2> QED BY <1>3, <2>4, <2>5 DEF CreateThread, TypeOK
<1>4. CASE FindDuplicate(h)
  <2>1. request[h].pc \in Steps /\ request[h].pc = "lookup"
    BY <1>4 DEF FindDuplicate, At, Steps
  <2>2. request[h] \in Requests
    BY <2>1, AtStepIsBusy
  <2>3. request[h].thread \in Nat \ {0}
    BY <2>1, <2>2 DEF Requests, ThreadKnown
  <2>4. PICK i \in RowsOf(request[h].to, request[h].mail) : EnsureQueuedRun(i, request[h].thread)
    BY <1>4 DEF FindDuplicate
  <2>5. i \in Nat \ {0}
    BY <2>2, <2>4, RowsAreMessages DEF Requests
  <2>6. runs' \in Seq([message: Nat \ {0}, thread: Nat \ {0}])
    BY <2>3, <2>4, <2>5, EnsureType
  <2>7. request' \in [Handlers -> {Idle} \cup Requests] /\ RequestInv'
    BY <1>4, <2>1, GoToTypes DEF FindDuplicate, Steps
  <2> QED BY <1>4, <2>6, <2>7 DEF FindDuplicate, TypeOK
<1>5. CASE FindNothing(h)
  <2>1. request[h].pc \in Steps /\ request[h].thread # 0
    BY <1>5 DEF FindNothing, At, Steps, ThreadKnown
  <2>2. request' \in [Handlers -> {Idle} \cup Requests] /\ RequestInv'
    BY <1>5, <2>1, GoToTypes DEF FindNothing, Steps
  <2> QED BY <1>5, <2>2, TablesKept DEF FindNothing, TypeOK
<1>6. CASE Insert(h)
  <2>1. request[h].pc \in Steps /\ request[h].pc = "insert"
    BY <1>6 DEF Insert, At, Steps
  <2>2. request[h] \in Requests
    BY <2>1, AtStepIsBusy
  <2>3. request[h].thread \in Nat \ {0}
    BY <2>1, <2>2 DEF Requests, ThreadKnown
  <2>4. PICK step \in {"reset", "defer"} : InsertThen(h, step)
    BY <1>6 DEF Insert
  <2>5. Len(messages) + 1 \in Nat \ {0} /\ Len(runs) + 1 \in Nat \ {0}
    BY DEF TypeOK
  <2>6. runs' \in Seq([message: Nat \ {0}, thread: Nat \ {0}])
    BY <2>3, <2>4, <2>5, EnsureType DEF InsertThen
  <2>7. messages' \in Seq(Message)
    <3>1. [assistant |-> request[h].to, mail |-> request[h].mail, thread |-> request[h].thread]
             \in Message
      BY <2>2, <2>3 DEF Requests, Message
    <3> QED BY <2>4, <3>1 DEF InsertThen, TypeOK
  <2>8. request' \in [Handlers -> {Idle} \cup Requests] /\ RequestInv'
    BY <2>1, <2>4, <2>5, RunTypes DEF InsertThen
  <2> QED BY <2>4, <2>6, <2>7, <2>8 DEF InsertThen, TypeOK
<1>7. CASE InsertConflict(h)
  <2>1. request' \in [Handlers -> {Idle} \cup Requests] /\ RequestInv'
    BY <1>7, FinishTypes DEF InsertConflict
  <2> QED BY <1>7, <2>1, TablesKept DEF InsertConflict, TypeOK
<1>8. CASE Reset(h)
  <2>1. request[h].pc \in Steps /\ request[h].run # 0
    BY <1>8 DEF Reset, At, Steps, RunKnown
  <2>2. request' \in [Handlers -> {Idle} \cup Requests] /\ RequestInv'
    BY <1>8, <2>1, GoToTypes DEF Reset, Steps
  <2>3. unanswered' \in [Assistants -> BOOLEAN]
    BY <1>8 DEF Reset, TypeOK
  <2> QED BY <1>8, <2>2, <2>3 DEF Reset, TypeOK
<1>9. CASE Defer(h)
  <2>1. request[h].pc \in Steps /\ request[h].run # 0
    BY <1>9 DEF Defer, At, Steps, RunKnown
  <2>2. request[h].run \in Nat \ {0}
    BY <2>1, AtStepIsBusy DEF Requests
  <2>3. jobs' \in Seq(Nat \ {0})
    BY <1>9, <2>2 DEF Defer, TypeOK
  <2>4. request' \in [Handlers -> {Idle} \cup Requests] /\ RequestInv'
    BY <1>9, <2>1, GoToTypes DEF Defer, Steps
  <2> QED BY <1>9, <2>3, <2>4 DEF Defer, TypeOK
<1>10. CASE Ack(h)
  <2>1. request' \in [Handlers -> {Idle} \cup Requests] /\ RequestInv'
    BY <1>10, FinishTypes DEF Ack
  <2>2. <<request[h].mail, request[h].to>> \in Deliverable
    BY <1>10, IntakeAssumption DEF Ack, At, Steps, PairRouted
  <2> QED BY <1>10, <2>1, <2>2, TablesKept DEF Ack, TypeOK
<1> QED BY <1>1, <1>2, <1>3, <1>4, <1>5, <1>6, <1>7, <1>8, <1>9, <1>10 DEF Step

\* Every step, of a handler, of the provider or a death, keeps the types.
LEMMA NextTypes ==
    ASSUME TypeInv, [Next]_vars
    PROVE  TypeInv'
<1>1. CASE UNCHANGED vars
  BY <1>1 DEF vars, TypeInv, TypeOK, RequestInv, ThreadKnown, RunKnown, PairRouted, RowsOf, RunsOf
<1>2. ASSUME NEW h \in Handlers, NEW d \in Deliverable, Drop(h, d)
      PROVE  TypeInv'
  <2>1. deliveries' \in [Deliverable -> 0..MaxDeliveries]
    BY <1>2, DeliverType DEF Drop, TypeInv
  <2>2. RequestInv'
    BY <1>2 DEF Drop, TypeInv, RequestInv, ThreadKnown, RunKnown, PairRouted
  <2> QED BY <1>2, <2>1, <2>2, TablesKept DEF Drop, TypeInv, TypeOK
<1>3. ASSUME NEW h \in Handlers, NEW d \in Deliverable, Receive(h, d)
      PROVE  TypeInv'
  <2>1. deliveries' \in [Deliverable -> 0..MaxDeliveries]
    BY <1>3, DeliverType DEF Receive, TypeInv
  <2>2. d[1] \in Mails /\ d[2] \in Assistants /\ <<d[1], d[2]>> \in Routable
    <3>1. PICK m \in Mails, a \in Assistants : d = <<m, a>>
      BY IntakeAssumption
    <3> QED BY <1>3, <3>1 DEF Receive
  <2>3. PICK step \in {"precheck", "resolve"} : Begin(h, d[1], d[2], step)
    BY <1>3 DEF Receive
  <2>4. /\ request' \in [Handlers -> {Idle} \cup Requests]
        /\ saw' \in [Handlers -> SUBSET Mails]
        /\ RequestInv'
    BY <2>2, <2>3, BeginTypes
  <2> QED BY <1>3, <2>1, <2>4, TablesKept DEF Receive, TypeInv, TypeOK
<1>4. ASSUME NEW h \in Handlers, Die(h)
      PROVE  TypeInv'
  <2>1. request' \in [Handlers -> {Idle} \cup Requests] /\ RequestInv'
    BY <1>4, FinishTypes DEF Die
  <2>2. faults' \in 0..MaxFaults
    BY <1>4, IntakeAssumption DEF Die, TypeInv, TypeOK
  <2> QED BY <1>4, <2>1, <2>2, TablesKept DEF Die, TypeInv, TypeOK
<1>5. ASSUME NEW a \in Assistants, Notify(a)
      PROVE  TypeInv'
  <2>1. unanswered' \in [Assistants -> BOOLEAN]
    BY <1>5 DEF Notify, TypeInv, TypeOK
  <2>2. RequestInv'
    BY <1>5 DEF Notify, TypeInv, RequestInv, ThreadKnown, RunKnown, PairRouted
  <2> QED BY <1>5, <2>1, <2>2 DEF Notify, TypeInv, TypeOK
<1> QED BY <1>1, <1>2, <1>3, <1>4, <1>5, StepTypes DEF Next

\* At the start the types hold.
LEMMA InitTypes == ASSUME Init PROVE TypeInv
<1>1. TypeOK
  BY IntakeAssumption DEF Init, TypeOK
<1>2. RequestInv
  BY DEF Init, RequestInv, ThreadKnown, RunKnown, PairRouted, Idle, Steps
<1> QED BY <1>1, <1>2 DEF TypeInv

\* The variables of Intake keep their types, whichever requests overlap or die.
THEOREM TypeCorrect == Spec => []TypeOK
<1>1. Init => TypeInv
  BY InitTypes
<1>2. TypeInv /\ [Next]_vars => TypeInv'
  BY NextTypes
<1>3. TypeInv => TypeOK
  BY DEF TypeInv
<1> QED BY <1>1, <1>2, <1>3, PTL DEF Spec

-----------------------------------------------------------------------------
(* Messages.                                                               *)

\* The transaction of Insert adds one message, which its guard found to be new.
LEMMA InsertNew ==
    ASSUME TypeInv, OneMessagePerMail, NEW h \in Handlers, Insert(h)
    PROVE  OneMessagePerMail'
<1>1. request[h] \in Requests
  BY AtStepIsBusy DEF Insert, At, Steps, TypeInv
<1>2. RowsOf(request[h].to, request[h].mail) = {}
  BY DEF Insert
<1> DEFINE new == [assistant |-> request[h].to, mail |-> request[h].mail,
                   thread |-> request[h].thread]
<1>3. messages' = Append(messages, new)
  BY DEF Insert, InsertThen
<1>4. \A i \in DOMAIN messages : ~(messages[i].assistant = new.assistant /\ messages[i].mail = new.mail)
  BY <1>2 DEF RowsOf
<1> HIDE DEF new
<1>5. messages \in Seq(Message)
  BY DEF TypeInv, TypeOK
<1>6. /\ DOMAIN messages' = DOMAIN messages \cup {Len(messages) + 1}
      /\ \A i \in DOMAIN messages : messages'[i] = messages[i]
      /\ messages'[Len(messages) + 1] = new
  BY <1>3, <1>5
<1> QED BY <1>4, <1>6 DEF OneMessagePerMail

\* No step makes a second message of a mail: only Insert adds one.
LEMMA StepMessages ==
    ASSUME TypeInv, OneMessagePerMail, [Next]_vars
    PROVE  OneMessagePerMail'
<1>1. CASE UNCHANGED messages
  BY <1>1 DEF OneMessagePerMail
<1>2. ASSUME NEW h \in Handlers, Insert(h)
      PROVE  OneMessagePerMail'
  BY <1>2, InsertNew
<1> QED
  BY <1>1, <1>2 DEF Next, vars, db, Step, Drop, Receive, Precheck, JoinThread, CreateThread,
     FindDuplicate, FindNothing, InsertConflict, Reset, Defer, Ack, Die, Notify

\* However deliveries overlap, an assistant has one message for a mail.
THEOREM MessagesAreUnique == Spec => []OneMessagePerMail
<1>1. Init => TypeInv /\ OneMessagePerMail
  BY InitTypes DEF Init, OneMessagePerMail
<1>2. TypeInv /\ OneMessagePerMail /\ [Next]_vars => TypeInv' /\ OneMessagePerMail'
  BY NextTypes, StepMessages
<1> QED BY <1>1, <1>2, PTL DEF Spec

-----------------------------------------------------------------------------
(* Runs.                                                                   *)

\* Every message has a run, and only one.
OneRunEach == \A i \in DOMAIN messages : \E r \in DOMAIN runs : RunsOf(i) = {r}

\* Every run has a message, in the same thread.
RunsHaveMessages ==
    \A r \in DOMAIN runs :
        runs[r].message \in DOMAIN messages /\ runs[r].thread = messages[runs[r].message].thread

RunInv == OneRunEach /\ RunsHaveMessages

\* The fallback of a duplicate delivery finds a run, so it adds none.
LEMMA DuplicateHasRun ==
    ASSUME TypeInv, RunInv, NEW h \in Handlers, FindDuplicate(h)
    PROVE  UNCHANGED runs
<1>1. request[h] \in Requests
  BY AtStepIsBusy DEF FindDuplicate, At, Steps, TypeInv
<1>2. PICK i \in RowsOf(request[h].to, request[h].mail) : EnsureQueuedRun(i, request[h].thread)
  BY DEF FindDuplicate
<1>3. i \in DOMAIN messages
  BY <1>2 DEF RowsOf
<1>4. RunsOf(i) # {}
  BY <1>3 DEF RunInv, OneRunEach
<1> QED BY <1>2, <1>4 DEF EnsureQueuedRun

\* What Insert does to messages and runs.
LEMMA InsertRows ==
    ASSUME TypeInv, RunInv, NEW h \in Handlers, Insert(h)
    PROVE  /\ DOMAIN messages' = DOMAIN messages \cup {Len(messages) + 1}
           /\ DOMAIN runs' = DOMAIN runs \cup {Len(runs) + 1}
           /\ Len(messages) + 1 \notin DOMAIN messages /\ Len(runs) + 1 \notin DOMAIN runs
           /\ \A i \in DOMAIN messages : messages'[i] = messages[i]
           /\ \A r \in DOMAIN runs : runs'[r] = runs[r]
           /\ messages'[Len(messages) + 1].thread = request[h].thread
           /\ runs'[Len(runs) + 1].thread = request[h].thread
           /\ runs'[Len(runs) + 1].message = Len(messages) + 1
<1>1. messages \in Seq(Message) /\ runs \in Seq([message: Nat \ {0}, thread: Nat \ {0}])
  BY DEF TypeInv, TypeOK
<1>2. Len(messages) + 1 \notin DOMAIN messages /\ Len(runs) + 1 \notin DOMAIN runs
  BY <1>1
<1>3. RunsOf(Len(messages) + 1) = {}
  BY <1>2 DEF RunsOf, RunInv, RunsHaveMessages
<1> DEFINE message == [assistant |-> request[h].to, mail |-> request[h].mail,
                       thread |-> request[h].thread]
           run == [message |-> Len(messages) + 1, thread |-> request[h].thread]
<1>4. messages' = Append(messages, message) /\ runs' = Append(runs, run)
  BY <1>3 DEF Insert, InsertThen, EnsureQueuedRun
<1>5. /\ message.thread = request[h].thread
      /\ run.thread = request[h].thread /\ run.message = Len(messages) + 1
  OBVIOUS
<1> HIDE DEF message, run
<1>6. /\ DOMAIN messages' = DOMAIN messages \cup {Len(messages) + 1}
      /\ \A i \in DOMAIN messages : messages'[i] = messages[i]
      /\ messages'[Len(messages) + 1] = message
  BY <1>1, <1>4
<1>7. /\ DOMAIN runs' = DOMAIN runs \cup {Len(runs) + 1}
      /\ \A r \in DOMAIN runs : runs'[r] = runs[r]
      /\ runs'[Len(runs) + 1] = run
  BY <1>1, <1>4
<1> QED BY <1>2, <1>5, <1>6, <1>7

\* Insert gives the new message the new run.
LEMMA InsertRuns ==
    ASSUME TypeInv, RunInv, NEW h \in Handlers, Insert(h)
    PROVE  RunInv'
<1> DEFINE m == Len(messages) + 1
           n == Len(runs) + 1
<1>1. /\ DOMAIN messages' = DOMAIN messages \cup {m} /\ DOMAIN runs' = DOMAIN runs \cup {n}
      /\ m \notin DOMAIN messages /\ n \notin DOMAIN runs
      /\ \A i \in DOMAIN messages : messages'[i] = messages[i]
      /\ \A r \in DOMAIN runs : runs'[r] = runs[r]
      /\ messages'[m].thread = request[h].thread
      /\ runs'[n].thread = request[h].thread /\ runs'[n].message = m
  BY InsertRows
<1> HIDE DEF m, n
<1>2. RunsHaveMessages'
  BY <1>1 DEF RunInv, RunsHaveMessages
<1>3. ASSUME NEW i \in DOMAIN messages'
      PROVE  \E r \in DOMAIN runs' : RunsOf(i)' = {r}
  <2>1. CASE i = m
    <3>1. RunsOf(i)' = {n}
      BY <1>1, <2>1 DEF RunsOf, RunInv, RunsHaveMessages
    <3> QED BY <1>1, <3>1
  <2>2. CASE i # m
    <3>1. PICK r \in DOMAIN runs : RunsOf(i) = {r}
      BY <1>1, <2>2 DEF RunInv, OneRunEach
    <3>2. RunsOf(i)' = {r}
      BY <1>1, <2>2, <3>1 DEF RunsOf
    <3> QED BY <1>1, <3>1, <3>2
  <2> QED BY <2>1, <2>2
<1> QED BY <1>2, <1>3 DEF RunInv, OneRunEach

\* The run invariant speaks of messages and runs only.
LEMMA RunsKept ==
    ASSUME RunInv, UNCHANGED <<messages, runs>>
    PROVE  RunInv'
BY DEF RunInv, OneRunEach, RunsHaveMessages, RunsOf

\* Every step keeps one run for each message.
LEMMA StepRuns ==
    ASSUME TypeInv, RunInv, [Next]_vars
    PROVE  RunInv'
<1>1. ASSUME NEW h \in Handlers, Insert(h)
      PROVE  RunInv'
  BY <1>1, InsertRuns
<1>2. ASSUME NEW h \in Handlers, FindDuplicate(h)
      PROVE  RunInv'
  <2>1. UNCHANGED <<messages, runs>>
    BY <1>2, DuplicateHasRun DEF FindDuplicate
  <2> QED BY <2>1, RunsKept
<1>3. CASE UNCHANGED <<messages, runs>>
  BY <1>3, RunsKept
<1> QED
  BY <1>1, <1>2, <1>3 DEF Next, vars, db, Step, Drop, Receive, Precheck, JoinThread,
     CreateThread, FindNothing, InsertConflict, Reset, Defer, Ack, Die, Notify

\* Every message has exactly one run, in the thread of the message.
THEOREM RunsAreUnique == Spec => []OneRunPerMessage
<1>1. Init => TypeInv /\ RunInv
  BY InitTypes DEF Init, RunInv, OneRunEach, RunsHaveMessages
<1>2. TypeInv /\ RunInv /\ [Next]_vars => TypeInv' /\ RunInv'
  BY NextTypes, StepRuns
<1>3. RunInv => OneRunPerMessage
  <2> SUFFICES ASSUME RunInv
               PROVE  OneRunPerMessage
    OBVIOUS
  <2>1. \A i \in DOMAIN messages : Cardinality(RunsOf(i)) = 1
    BY FS_Singleton DEF RunInv, OneRunEach
  <2> QED BY <2>1 DEF OneRunPerMessage, RunInv, RunsHaveMessages
<1> QED BY <1>1, <1>2, <1>3, PTL DEF Spec

-----------------------------------------------------------------------------
(* Jobs.                                                                   *)

\* A request that made a run and has not enqueued it yet.
Owes(h) == request[h].pc \in {"reset", "defer"}

\* A job is for a run that exists; a run that is still owed one has none; and it is
\* owed by one request only.
JobsHaveRuns == \A j \in DOMAIN jobs : jobs[j] \in DOMAIN runs
OwedIsNotQueued ==
    \A h \in Handlers :
        Owes(h) => request[h].run \in DOMAIN runs /\ \A j \in DOMAIN jobs : jobs[j] # request[h].run
OwedByOne ==
    \A g, h \in Handlers : g # h /\ Owes(g) /\ Owes(h) => request[g].run # request[h].run

JobInv == JobsHaveRuns /\ OwedIsNotQueued /\ OwedByOne /\ AtMostOneJobPerRun

\* A step that keeps jobs and runs, and after which nobody owes what he did not owe before.
LEMMA JobsKept ==
    ASSUME JobInv, UNCHANGED <<runs, jobs>>,
           \A h \in Handlers : Owes(h)' => Owes(h) /\ request'[h].run = request[h].run
    PROVE  JobInv'
<1>1. JobsHaveRuns' /\ AtMostOneJobPerRun'
  BY DEF JobInv, JobsHaveRuns, AtMostOneJobPerRun
<1>2. OwedIsNotQueued' /\ OwedByOne'
  BY DEF JobInv, OwedIsNotQueued, OwedByOne
<1> QED BY <1>1, <1>2 DEF JobInv

\* The request that inserts a run is the one that owes its job.
LEMMA InsertJobs ==
    ASSUME TypeInv, RunInv, JobInv, NEW h \in Handlers, Insert(h)
    PROVE  JobInv'
<1> DEFINE n == Len(runs) + 1
<1>1. /\ DOMAIN runs' = DOMAIN runs \cup {n} /\ n \notin DOMAIN runs
      /\ jobs' = jobs
  BY InsertRows DEF Insert, InsertThen
<1>2. request[h] \in Requests /\ request \in [Handlers -> {Idle} \cup Requests]
  BY AtStepIsBusy DEF Insert, At, Steps, TypeInv, TypeOK
<1>3. PICK step \in {"reset", "defer"} :
         request' = [request EXCEPT ![h].pc = step, ![h].run = n]
  BY DEF Insert, InsertThen
<1> DEFINE new == [request[h] EXCEPT !.pc = step, !.run = n]
<1>4. request' = [request EXCEPT ![h] = new] /\ new.run = n
  BY <1>2, <1>3 DEF Requests
<1> HIDE DEF n, new
<1>5. /\ request'[h].run = n
      /\ \A g \in Handlers \ {h} : request'[g] = request[g]
  BY <1>2, <1>4
<1>6. JobsHaveRuns' /\ AtMostOneJobPerRun'
  BY <1>1 DEF JobInv, JobsHaveRuns, AtMostOneJobPerRun
<1>7. OwedIsNotQueued'
  BY <1>1, <1>5 DEF JobInv, JobsHaveRuns, OwedIsNotQueued, Owes
<1>8. OwedByOne'
  BY <1>1, <1>5 DEF JobInv, OwedIsNotQueued, OwedByOne, Owes
<1> QED BY <1>6, <1>7, <1>8 DEF JobInv

\* The request that enqueues a run owes nothing any more.
LEMMA DeferJobs ==
    ASSUME TypeInv, JobInv, NEW h \in Handlers, Defer(h)
    PROVE  JobInv'
<1>1. request[h] \in Requests /\ request \in [Handlers -> {Idle} \cup Requests]
  BY AtStepIsBusy DEF Defer, At, Steps, TypeInv, TypeOK
<1>2. Owes(h)
  BY DEF Defer, At, Owes
<1>3. jobs \in Seq(Nat \ {0}) /\ jobs' = Append(jobs, request[h].run) /\ runs' = runs
  BY DEF Defer, TypeInv, TypeOK
<1>4. /\ DOMAIN jobs' = DOMAIN jobs \cup {Len(jobs) + 1}
      /\ \A j \in DOMAIN jobs : jobs'[j] = jobs[j]
      /\ jobs'[Len(jobs) + 1] = request[h].run
  BY <1>3
<1>5. ~Owes(h)' /\ \A g \in Handlers \ {h} : request'[g] = request[g]
  BY <1>1 DEF Defer, GoTo, Owes, Requests
<1>6. JobsHaveRuns'
  BY <1>2, <1>3, <1>4 DEF JobInv, JobsHaveRuns, OwedIsNotQueued
<1>7. OwedIsNotQueued'
  BY <1>2, <1>3, <1>4, <1>5 DEF JobInv, OwedIsNotQueued, OwedByOne, Owes
<1>8. OwedByOne'
  BY <1>5 DEF JobInv, OwedByOne, Owes
<1>9. AtMostOneJobPerRun'
  BY <1>2, <1>4 DEF JobInv, OwedIsNotQueued, AtMostOneJobPerRun
<1> QED BY <1>6, <1>7, <1>8, <1>9 DEF JobInv

\* A request that ends, begins or moves on without a run of its own owes nothing.
LEMMA OthersKept ==
    ASSUME TypeInv, JobInv, UNCHANGED <<runs, jobs>>, NEW h \in Handlers, NEW new,
           request' = [request EXCEPT ![h] = new],
           new.pc \in {"reset", "defer"} => Owes(h) /\ new.run = request[h].run
    PROVE  JobInv'
<1>1. request \in [Handlers -> {Idle} \cup Requests]
  BY DEF TypeInv, TypeOK
<1>2. \A g \in Handlers : request'[g] = IF g = h THEN new ELSE request[g]
  BY <1>1
<1>3. \A g \in Handlers : Owes(g)' => Owes(g) /\ request'[g].run = request[g].run
  BY <1>2 DEF Owes
<1> QED BY <1>3, JobsKept

\* The steps of a request other than Insert and Defer.
LEMMA StepJobs ==
    ASSUME TypeInv, RunInv, JobInv, NEW h \in Handlers, Step(h)
    PROVE  JobInv'
<1>1. CASE Insert(h)
  BY <1>1, InsertJobs
<1>2. CASE Defer(h)
  BY <1>2, DeferJobs
<1>3. ASSUME NEW step, GoTo(h, step), step \notin {"reset", "defer"}, request[h].pc \in Steps,
             UNCHANGED <<runs, jobs>>
      PROVE  JobInv'
  <2>1. request[h] \in Requests
    BY <1>3, AtStepIsBusy DEF TypeInv
  <2>2. [request[h] EXCEPT !.pc = step].pc = step
    BY <2>1 DEF Requests
  <2>3. request' = [request EXCEPT ![h] = [request[h] EXCEPT !.pc = step]]
    BY <1>3 DEF GoTo
  <2> QED BY <1>3, <2>2, <2>3, OthersKept
<1>4. ASSUME NEW t, request' = [request EXCEPT ![h].pc = "lookup", ![h].thread = t],
             request[h].pc \in Steps, UNCHANGED <<runs, jobs>>
      PROVE  JobInv'
  <2> DEFINE new == [request[h] EXCEPT !.pc = "lookup", !.thread = t]
  <2>1. request[h] \in Requests
    BY <1>4, AtStepIsBusy DEF TypeInv
  <2>2. new.pc = "lookup"
    BY <2>1 DEF Requests
  <2>3. request' = [request EXCEPT ![h] = new]
    BY <1>4
  <2> HIDE DEF new
  <2> QED BY <1>4, <2>2, <2>3, OthersKept
<1>5. CASE Precheck(h)
  <2>1. PICK step \in {"ack", "resolve"} : GoTo(h, step)
    BY <1>5 DEF Precheck
  <2> QED BY <1>3, <1>5, <2>1 DEF Precheck, At, Steps, db
<1>6. CASE JoinThread(h)
  <2>1. \E t : request' = [request EXCEPT ![h].pc = "lookup", ![h].thread = t]
    BY <1>6 DEF JoinThread
  <2> QED BY <1>4, <1>6, <2>1 DEF JoinThread, At, Steps, db
<1>7. CASE CreateThread(h)
  BY <1>4, <1>7 DEF CreateThread, At, Steps
<1>8. CASE FindDuplicate(h)
  <2>1. UNCHANGED runs
    BY <1>8, DuplicateHasRun
  <2> QED BY <1>3, <1>8, <2>1 DEF FindDuplicate, At, Steps
<1>9. CASE FindNothing(h)
  BY <1>3, <1>9 DEF FindNothing, At, Steps, db
<1>10. CASE InsertConflict(h) \/ Ack(h)
  <2>1. request' = [request EXCEPT ![h] = Idle] /\ UNCHANGED <<runs, jobs>>
    BY <1>10 DEF InsertConflict, Ack, Finish, db
  <2> QED BY <2>1, OthersKept DEF Idle
<1>11. CASE Reset(h)
  <2>1. request[h] \in Requests /\ Owes(h)
    BY <1>11, AtStepIsBusy DEF Reset, At, Steps, TypeInv, Owes
  <2>2. request' = [request EXCEPT ![h] = [request[h] EXCEPT !.pc = "defer"]]
    BY <1>11 DEF Reset, GoTo
  <2>3. [request[h] EXCEPT !.pc = "defer"].run = request[h].run
    BY <2>1 DEF Requests
  <2> QED BY <1>11, <2>1, <2>2, <2>3, OthersKept DEF Reset
<1> QED
  BY <1>1, <1>2, <1>5, <1>6, <1>7, <1>8, <1>9, <1>10, <1>11 DEF Step

\* Every step keeps one job for each run, and nobody owes what is queued.
LEMMA NextJobs ==
    ASSUME TypeInv, RunInv, JobInv, [Next]_vars
    PROVE  JobInv'
<1>1. CASE UNCHANGED vars
  BY <1>1, JobsKept DEF vars, Owes
<1>2. ASSUME NEW h \in Handlers, NEW d \in Deliverable, Drop(h, d)
      PROVE  JobInv'
  BY <1>2, JobsKept DEF Drop, db, Owes
<1>3. ASSUME NEW h \in Handlers, NEW d \in Deliverable, Receive(h, d)
      PROVE  JobInv'
  <2>1. PICK step \in {"precheck", "resolve"} : Begin(h, d[1], d[2], step)
    BY <1>3 DEF Receive
  <2>2. UNCHANGED <<runs, jobs>>
    BY <1>3 DEF Receive, db
  <2> QED BY <2>1, <2>2, OthersKept DEF Begin
<1>4. ASSUME NEW h \in Handlers, Die(h)
      PROVE  JobInv'
  <2>1. request' = [request EXCEPT ![h] = Idle] /\ UNCHANGED <<runs, jobs>>
    BY <1>4 DEF Die, Finish, db
  <2> QED BY <2>1, OthersKept DEF Idle
<1>5. ASSUME NEW a \in Assistants, Notify(a)
      PROVE  JobInv'
  BY <1>5, JobsKept DEF Notify, Owes
<1> QED BY <1>1, <1>2, <1>3, <1>4, <1>5, StepJobs DEF Next

\* No run is enqueued twice, however often its mail is delivered.
THEOREM JobsAreUnique == Spec => []AtMostOneJobPerRun
<1>1. Init => TypeInv /\ RunInv /\ JobInv
  <2> SUFFICES ASSUME Init
               PROVE  TypeInv /\ RunInv /\ JobInv
    OBVIOUS
  <2>1. RunInv
    BY DEF Init, RunInv, OneRunEach, RunsHaveMessages
  <2>2. JobInv
    BY DEF Init, JobInv, JobsHaveRuns, OwedIsNotQueued, OwedByOne, AtMostOneJobPerRun, Owes, Idle
  <2> QED BY <2>1, <2>2, InitTypes
<1>2. TypeInv /\ RunInv /\ JobInv /\ [Next]_vars => TypeInv' /\ RunInv' /\ JobInv'
  BY NextTypes, StepRuns, NextJobs
<1>3. JobInv => AtMostOneJobPerRun
  BY DEF JobInv
<1> QED BY <1>1, <1>2, <1>3, PTL DEF Spec

-----------------------------------------------------------------------------
(* Threads.                                                                *)

\* Thread t is one of assistant a.
ThreadOf(t, a) == t \in DOMAIN threads /\ threads[t].assistant = a

Filing(h) == request[h].pc \in {"lookup", "insert"}

\* A request files its message in a thread of its assistant.
ResolvedRight == \A h \in Handlers : Filing(h) => ThreadOf(request[h].thread, request[h].to)

FiledRight == \A i \in DOMAIN messages : ThreadOf(messages[i].thread, messages[i].assistant)

ThreadInv == ResolvedRight /\ FiledRight

\* A step after which handler h is at new and nobody else has moved.
LEMMA ThreadsKept ==
    ASSUME TypeInv, ThreadInv, UNCHANGED <<threads, messages>>, NEW h \in Handlers, NEW new,
           request' = [request EXCEPT ![h] = new],
           new.pc \in {"lookup", "insert"} => ThreadOf(new.thread, new.to)
    PROVE  ThreadInv'
<1>1. request \in [Handlers -> {Idle} \cup Requests]
  BY DEF TypeInv, TypeOK
<1>2. \A g \in Handlers : request'[g] = IF g = h THEN new ELSE request[g]
  BY <1>1
<1> QED BY <1>2 DEF ThreadInv, ResolvedRight, FiledRight, ThreadOf, Filing

\* Nobody has moved.
LEMMA ThreadsStutter ==
    ASSUME ThreadInv, UNCHANGED <<threads, messages, request>>
    PROVE  ThreadInv'
BY DEF ThreadInv, ResolvedRight, FiledRight, ThreadOf, Filing

\* A new thread belongs to the assistant of the request.
LEMMA CreateFiles ==
    ASSUME TypeInv, ThreadInv, NEW h \in Handlers, CreateThread(h)
    PROVE  ThreadInv'
<1> DEFINE n == Len(threads) + 1
           new == [request[h] EXCEPT !.pc = "lookup", !.thread = n]
           row == [assistant |-> request[h].to, root |-> request[h].mail]
<1>1. request[h] \in Requests /\ request \in [Handlers -> {Idle} \cup Requests]
  BY AtStepIsBusy DEF CreateThread, At, Steps, TypeInv, TypeOK
<1>2. /\ request' = [request EXCEPT ![h] = new] /\ threads' = Append(threads, row)
      /\ messages' = messages
  BY DEF CreateThread
<1>3. new.thread = n /\ new.to = request[h].to /\ row.assistant = request[h].to
  BY <1>1 DEF Requests
<1>4. threads \in Seq([assistant: Assistants, root: Mails])
  BY DEF TypeInv, TypeOK
<1> HIDE DEF new, row
<1>5. /\ DOMAIN threads' = DOMAIN threads \cup {n}
      /\ \A t \in DOMAIN threads : threads'[t] = threads[t]
      /\ threads'[n] = row
  BY <1>2, <1>4
<1>6. \A g \in Handlers : request'[g] = IF g = h THEN new ELSE request[g]
  BY <1>1, <1>2
<1> HIDE DEF n
<1>7. ResolvedRight'
  BY <1>3, <1>5, <1>6 DEF ThreadInv, ResolvedRight, ThreadOf, Filing
<1>8. FiledRight'
  BY <1>2, <1>5 DEF ThreadInv, FiledRight, ThreadOf
<1> QED BY <1>7, <1>8 DEF ThreadInv

\* The thread of a mentioned message of the assistant is one of the assistant.
LEMMA JoinFiles ==
    ASSUME TypeInv, ThreadInv, NEW h \in Handlers, JoinThread(h)
    PROVE  ThreadInv'
<1>1. request[h] \in Requests
  BY AtStepIsBusy DEF JoinThread, At, Steps, TypeInv
<1>2. PICK i \in DOMAIN messages :
         /\ messages[i].assistant = request[h].to
         /\ request' = [request EXCEPT ![h].pc = "lookup", ![h].thread = messages[i].thread]
  BY DEF JoinThread, RowsOf
<1> DEFINE new == [request[h] EXCEPT !.pc = "lookup", !.thread = messages[i].thread]
<1>3. request' = [request EXCEPT ![h] = new]
  BY <1>2
<1>4. new.thread = messages[i].thread /\ new.to = request[h].to
  BY <1>1 DEF Requests
<1> HIDE DEF new
<1>5. ThreadOf(new.thread, new.to)
  BY <1>2, <1>4 DEF ThreadInv, FiledRight
<1>6. UNCHANGED <<threads, messages>>
  BY DEF JoinThread, db
<1> QED BY <1>3, <1>5, <1>6, ThreadsKept

\* The message goes to the thread that was resolved.
LEMMA InsertFiles ==
    ASSUME TypeInv, ThreadInv, NEW h \in Handlers, Insert(h)
    PROVE  ThreadInv'
<1> DEFINE new == [assistant |-> request[h].to, mail |-> request[h].mail,
                   thread |-> request[h].thread]
<1>1. request[h] \in Requests /\ request \in [Handlers -> {Idle} \cup Requests]
  BY AtStepIsBusy DEF Insert, At, Steps, TypeInv, TypeOK
<1>2. messages \in Seq(Message) /\ messages' = Append(messages, new) /\ threads' = threads
  BY DEF Insert, InsertThen, TypeInv, TypeOK
<1>3. ThreadOf(new.thread, new.assistant)
  BY DEF Insert, At, ThreadInv, ResolvedRight, Filing
<1> HIDE DEF new
<1>4. /\ DOMAIN messages' = DOMAIN messages \cup {Len(messages) + 1}
      /\ \A i \in DOMAIN messages : messages'[i] = messages[i]
      /\ messages'[Len(messages) + 1] = new
  BY <1>2
<1>5. FiledRight'
  BY <1>2, <1>3, <1>4 DEF ThreadInv, FiledRight, ThreadOf
<1>6. \A g \in Handlers : Filing(g)' => Filing(g) /\ request'[g] = request[g]
  <2> DEFINE step == IF Kind[request[h].mail] = "email" THEN "reset" ELSE "defer"
  <2>1. request' = [request EXCEPT ![h].pc = step, ![h].run = Len(runs) + 1]
    BY DEF Insert, InsertThen
  <2>2. step \in {"reset", "defer"}
    OBVIOUS
  <2> HIDE DEF step
  <2>3. request'[h].pc = step /\ \A g \in Handlers \ {h} : request'[g] = request[g]
    BY <1>1, <2>1 DEF Requests
  <2> QED BY <2>2, <2>3 DEF Filing
<1>7. ResolvedRight'
  BY <1>2, <1>6 DEF ThreadInv, ResolvedRight, ThreadOf
<1> QED BY <1>5, <1>7 DEF ThreadInv

\* Every step of a request resolves and files into threads of its assistant.
LEMMA StepThreads ==
    ASSUME TypeInv, ThreadInv, NEW h \in Handlers, Step(h)
    PROVE  ThreadInv'
<1>1. ASSUME NEW step, GoTo(h, step), request[h].pc \in Steps, UNCHANGED <<threads, messages>>,
             step \in {"lookup", "insert"} => Filing(h)
      PROVE  ThreadInv'
  <2>1. request[h] \in Requests
    BY <1>1, AtStepIsBusy DEF TypeInv
  <2> DEFINE new == [request[h] EXCEPT !.pc = step]
  <2>2. new.pc = step /\ new.thread = request[h].thread /\ new.to = request[h].to
    BY <2>1 DEF Requests
  <2>3. request' = [request EXCEPT ![h] = new]
    BY <1>1 DEF GoTo
  <2> HIDE DEF new
  <2>4. new.pc \in {"lookup", "insert"} => ThreadOf(new.thread, new.to)
    BY <1>1, <2>2 DEF ThreadInv, ResolvedRight
  <2> QED BY <1>1, <2>3, <2>4, ThreadsKept
<1>2. CASE Precheck(h)
  <2>1. PICK step \in {"ack", "resolve"} : GoTo(h, step)
    BY <1>2 DEF Precheck
  <2> QED BY <1>1, <1>2, <2>1 DEF Precheck, At, Steps, db
<1>3. CASE FindDuplicate(h)
  BY <1>1, <1>3 DEF FindDuplicate, At, Steps
<1>4. CASE FindNothing(h)
  BY <1>1, <1>4 DEF FindNothing, At, Steps, db, Filing
<1>5. CASE Reset(h)
  BY <1>1, <1>5 DEF Reset, At, Steps
<1>6. CASE Defer(h)
  BY <1>1, <1>6 DEF Defer, At, Steps
<1>7. CASE InsertConflict(h) \/ Ack(h)
  <2>1. request' = [request EXCEPT ![h] = Idle] /\ UNCHANGED <<threads, messages>>
    BY <1>7 DEF InsertConflict, Ack, Finish, db
  <2> QED BY <2>1, ThreadsKept DEF Idle
<1> QED
  BY <1>2, <1>3, <1>4, <1>5, <1>6, <1>7, CreateFiles, JoinFiles, InsertFiles DEF Step

\* Every step keeps threads of two assistants apart.
LEMMA NextThreads ==
    ASSUME TypeInv, ThreadInv, [Next]_vars
    PROVE  ThreadInv'
<1>1. CASE UNCHANGED vars
  BY <1>1, ThreadsStutter DEF vars
<1>2. ASSUME NEW h \in Handlers, NEW d \in Deliverable, Drop(h, d)
      PROVE  ThreadInv'
  BY <1>2, ThreadsStutter DEF Drop, db
<1>3. ASSUME NEW h \in Handlers, NEW d \in Deliverable, Receive(h, d)
      PROVE  ThreadInv'
  <2>1. PICK step \in {"precheck", "resolve"} : Begin(h, d[1], d[2], step)
    BY <1>3 DEF Receive
  <2>2. UNCHANGED <<threads, messages>>
    BY <1>3 DEF Receive, db
  <2> QED BY <2>1, <2>2, ThreadsKept DEF Begin
<1>4. ASSUME NEW h \in Handlers, Die(h)
      PROVE  ThreadInv'
  <2>1. request' = [request EXCEPT ![h] = Idle] /\ UNCHANGED <<threads, messages>>
    BY <1>4 DEF Die, Finish, db
  <2> QED BY <2>1, ThreadsKept DEF Idle
<1>5. ASSUME NEW a \in Assistants, Notify(a)
      PROVE  ThreadInv'
  BY <1>5, ThreadsStutter DEF Notify
<1> QED BY <1>1, <1>2, <1>3, <1>4, <1>5, StepThreads DEF Next

\* A message is filed in a thread of its own assistant, whatever it mentions.
THEOREM ThreadsStayApart == Spec => []ThreadsDoNotCrossAssistants
<1>1. Init => TypeInv /\ ThreadInv
  BY InitTypes DEF Init, ThreadInv, ResolvedRight, FiledRight, Filing, Idle
<1>2. TypeInv /\ ThreadInv /\ [Next]_vars => TypeInv' /\ ThreadInv'
  BY NextTypes, NextThreads
<1>3. ThreadInv => ThreadsDoNotCrossAssistants
  BY DEF ThreadInv, FiledRight, ThreadOf, ThreadsDoNotCrossAssistants
<1> QED BY <1>1, <1>2, <1>3, PTL DEF Spec

-----------------------------------------------------------------------------
(* Promises.                                                               *)

\* The tables that a delivery reads only gain rows.
TablesGrow ==
    /\ \A i \in DOMAIN messages : i \in DOMAIN messages' /\ messages'[i] = messages[i]
    /\ \A r \in DOMAIN runs : r \in DOMAIN runs' /\ runs'[r] = runs[r]
    /\ \A j \in DOMAIN jobs : j \in DOMAIN jobs' /\ jobs'[j] = jobs[j]

Mentioned(h) == {Mentions[request[h].mail][k] : k \in DOMAIN Mentions[request[h].mail]}

\* A request that goes on with a thread found it by a mail the assistant knew, if its
\* mail mentions one.
Joined(h) ==
    Mentioned(h) \cap saw[h] # {} =>
        \E m \in Mentioned(h) : \E i \in RowsOf(request[h].to, m) :
            messages[i].thread = request[h].thread

\* What a request has found or written when it comes to a step.
Informed(h) ==
    /\ request[h].pc \in Steps => saw[h] \subseteq Indexed(request[h].to)
    /\ Filing(h) => Joined(h)
    /\ Owes(h) => /\ request[h].run \in DOMAIN runs
                  /\ runs[request[h].run].message \in RowsOf(request[h].to, request[h].mail)
    /\ request[h].pc = "reset" => Kind[request[h].mail] = "email"
    /\ request[h].pc = "ack" => RowsOf(request[h].to, request[h].mail) # {}

\* No request dies between the commit of a run and the enqueue of its job.
EnqueueHolds == Faults \cap {"reset", "defer"} = {}

\* What is stored is enqueued, or its request is about to enqueue it.
StoredIsQueued ==
    \A d \in Deliverable : RowsOf(d[2], d[1]) # {} => Queued(d) \/ BeingQueued(d)

PromiseInv ==
    /\ \A h \in Handlers : Informed(h)
    /\ \A d \in acked : RowsOf(d[2], d[1]) # {}
    /\ EnqueueHolds => StoredIsQueued

PromiseIInv == TypeInv /\ RunInv /\ PromiseInv

\* Queries find what they found before.
LEMMA RowsGrow ==
    ASSUME TablesGrow, NEW a, NEW m
    PROVE  /\ RowsOf(a, m) \subseteq RowsOf(a, m)'
           /\ Indexed(a) \subseteq Indexed(a)'
<1>1. \A x : RowsOf(a, x) \subseteq RowsOf(a, x)'
  BY DEF TablesGrow, RowsOf
<1> QED BY <1>1 DEF Indexed

\* No step removes or changes a message, a run or a job.
LEMMA StepGrows ==
    ASSUME TypeInv, RunInv, [Next]_vars
    PROVE  TablesGrow
<1>1. ASSUME NEW h \in Handlers, Insert(h)
      PROVE  TablesGrow
  BY <1>1, InsertRows DEF TablesGrow, Insert, InsertThen
<1>2. ASSUME NEW h \in Handlers, Defer(h)
      PROVE  TablesGrow
  <2>1. request[h].run \in Nat \ {0} /\ jobs \in Seq(Nat \ {0})
    BY <1>2, AtStepIsBusy DEF TypeInv, TypeOK, RequestInv, RunKnown, Requests, Defer, At, Steps
  <2>2. jobs' = Append(jobs, request[h].run)
    BY <1>2 DEF Defer
  <2>3. \A j \in DOMAIN jobs : j \in DOMAIN jobs' /\ jobs'[j] = jobs[j]
    BY <2>1, <2>2
  <2> QED BY <1>2, <2>3 DEF TablesGrow, Defer
<1>3. ASSUME NEW h \in Handlers, FindDuplicate(h)
      PROVE  TablesGrow
  BY <1>3, DuplicateHasRun DEF TablesGrow, FindDuplicate
<1>4. CASE UNCHANGED <<messages, runs, jobs>>
  BY <1>4 DEF TablesGrow
<1> QED
  BY <1>1, <1>2, <1>3, <1>4 DEF Next, vars, db, Step, Drop, Receive, Precheck, JoinThread,
     CreateThread, FindNothing, InsertConflict, Reset, Ack, Die, Notify

\* What a handler knows stays true while the others act.
LEMMA InformedKept ==
    ASSUME TablesGrow, NEW h \in Handlers, Informed(h), request'[h] = request[h], saw'[h] = saw[h]
    PROVE  Informed(h)'
<1>1. \A a, m : RowsOf(a, m) \subseteq RowsOf(a, m)' /\ Indexed(a) \subseteq Indexed(a)'
  BY RowsGrow
<1>2. Filing(h)' => Joined(h)'
  <2> SUFFICES ASSUME Filing(h), Mentioned(h) \cap saw[h] # {}
               PROVE  \E m \in Mentioned(h) : \E i \in RowsOf(request[h].to, m)' :
                         messages'[i].thread = request[h].thread
    BY DEF Filing, Joined, Mentioned
  <2>1. PICK m \in Mentioned(h) :
           \E i \in RowsOf(request[h].to, m) : messages[i].thread = request[h].thread
    BY DEF Informed, Joined
  <2>2. PICK i \in RowsOf(request[h].to, m) : messages[i].thread = request[h].thread
    BY <2>1
  <2>3. i \in RowsOf(request[h].to, m)' /\ messages'[i] = messages[i]
    BY <1>1, <2>2 DEF RowsOf, TablesGrow
  <2> QED BY <2>2, <2>3
<1>3. Owes(h)' => /\ request'[h].run \in DOMAIN runs'
                  /\ runs'[request'[h].run].message \in RowsOf(request[h].to, request[h].mail)'
  BY <1>1 DEF Informed, Owes, TablesGrow
<1>4. request'[h].pc \in Steps => saw'[h] \subseteq Indexed(request[h].to)'
  BY <1>1 DEF Informed
<1>5. request'[h].pc = "ack" => RowsOf(request[h].to, request[h].mail)' # {}
  BY <1>1 DEF Informed
<1> QED BY <1>2, <1>3, <1>4, <1>5 DEF Informed

\* The handlers a step leaves alone.
Others(h) == \A g \in Handlers \ {h} : request'[g] = request[g] /\ saw'[g] = saw[g]

\* The request keeps its mail and its assistant.
SameMail(h) ==
    /\ request'[h].mail = request[h].mail /\ request'[h].to = request[h].to
    /\ saw' = saw

\* A request goes to a step.
LEMMA GoToEffect ==
    ASSUME TypeInv, NEW h \in Handlers, request[h].pc \in Steps, NEW step, GoTo(h, step), saw' = saw
    PROVE  /\ Others(h) /\ SameMail(h) /\ request'[h].pc = step
           /\ request'[h].thread = request[h].thread /\ request'[h].run = request[h].run
<1>1. request[h] \in Requests /\ request \in [Handlers -> {Idle} \cup Requests]
  BY AtStepIsBusy DEF TypeInv, TypeOK
<1>2. request' = [request EXCEPT ![h] = [request[h] EXCEPT !.pc = step]]
  BY DEF GoTo
<1> QED BY <1>1, <1>2 DEF Others, SameMail, Requests

\* A request goes to the lookup with a thread.
LEMMA ThreadEffect ==
    ASSUME TypeInv, NEW h \in Handlers, request[h].pc \in Steps, NEW t, saw' = saw,
           request' = [request EXCEPT ![h].pc = "lookup", ![h].thread = t]
    PROVE  Others(h) /\ SameMail(h) /\ request'[h].pc = "lookup" /\ request'[h].thread = t
<1>1. request[h] \in Requests /\ request \in [Handlers -> {Idle} \cup Requests]
  BY AtStepIsBusy DEF TypeInv, TypeOK
<1> DEFINE new == [request[h] EXCEPT !.pc = "lookup", !.thread = t]
<1>2. /\ new.pc = "lookup" /\ new.thread = t
      /\ new.mail = request[h].mail /\ new.to = request[h].to
  BY <1>1 DEF Requests
<1>3. request' = [request EXCEPT ![h] = new]
  OBVIOUS
<1> HIDE DEF new
<1> QED BY <1>1, <1>2, <1>3 DEF Others, SameMail

\* A request goes to a step with a run.
LEMMA RunEffect ==
    ASSUME TypeInv, NEW h \in Handlers, request[h].pc \in Steps, NEW step, NEW r, saw' = saw,
           request' = [request EXCEPT ![h].pc = step, ![h].run = r]
    PROVE  Others(h) /\ SameMail(h) /\ request'[h].pc = step /\ request'[h].run = r
<1>1. request[h] \in Requests /\ request \in [Handlers -> {Idle} \cup Requests]
  BY AtStepIsBusy DEF TypeInv, TypeOK
<1> DEFINE new == [request[h] EXCEPT !.pc = step, !.run = r]
<1>2. /\ new.pc = step /\ new.run = r
      /\ new.mail = request[h].mail /\ new.to = request[h].to
  BY <1>1 DEF Requests
<1>3. request' = [request EXCEPT ![h] = new]
  OBVIOUS
<1> HIDE DEF new
<1> QED BY <1>1, <1>2, <1>3 DEF Others, SameMail

\* A request that ends.
LEMMA FinishEffect ==
    ASSUME TypeInv, NEW h \in Handlers, Finish(h), saw' = saw
    PROVE  Others(h) /\ request'[h].pc = "idle" /\ Informed(h)'
<1>1. Others(h) /\ request'[h].pc = "idle"
  BY DEF TypeInv, TypeOK, Finish, Idle, Others
<1> QED BY <1>1 DEF Informed, Filing, Owes, Steps

\* What a request has seen stays seen: only the rest has to be shown of its next step.
LEMMA InformedMoves ==
    ASSUME TablesGrow, NEW h \in Handlers, Informed(h), request[h].pc \in Steps, SameMail(h),
           Filing(h)' => Joined(h)',
           Owes(h)' => /\ request'[h].run \in DOMAIN runs'
                       /\ runs'[request'[h].run].message \in
                             RowsOf(request[h].to, request[h].mail)',
           request'[h].pc = "reset" => Kind[request[h].mail] = "email",
           request'[h].pc = "ack" => RowsOf(request[h].to, request[h].mail) # {}
    PROVE  Informed(h)'
<1>1. \A a, m : RowsOf(a, m) \subseteq RowsOf(a, m)' /\ Indexed(a) \subseteq Indexed(a)'
  BY RowsGrow
<1>2. saw'[h] \subseteq Indexed(request[h].to)'
  BY <1>1 DEF Informed, SameMail
<1>3. request'[h].pc = "ack" => RowsOf(request[h].to, request[h].mail)' # {}
  BY <1>1 DEF SameMail
<1>4. request'[h].pc = "reset" => Kind[request'[h].mail] = "email"
  BY DEF SameMail
<1> QED BY <1>2, <1>3, <1>4 DEF Informed

\* What Insert stores is the mail of the request, with the run of the request.
LEMMA InsertEffect ==
    ASSUME TypeInv, RunInv, NEW h \in Handlers, Insert(h)
    PROVE  /\ Others(h) /\ SameMail(h) /\ Owes(h)'
           /\ request'[h].pc = "reset" => Kind[request[h].mail] = "email"
           /\ request'[h].run \in DOMAIN runs'
           /\ runs'[request'[h].run].message \in RowsOf(request[h].to, request[h].mail)'
           /\ \A a, m : RowsOf(a, m) = {} /\ RowsOf(a, m)' # {} =>
                 a = request[h].to /\ m = request[h].mail
<1> DEFINE n == Len(runs) + 1
           k == Len(messages) + 1
           step == IF Kind[request[h].mail] = "email" THEN "reset" ELSE "defer"
           new == [assistant |-> request[h].to, mail |-> request[h].mail,
                   thread |-> request[h].thread]
<1>1. /\ request[h].pc \in Steps /\ saw' = saw
      /\ request' = [request EXCEPT ![h].pc = step, ![h].run = n]
      /\ messages' = Append(messages, new)
  BY DEF Insert, InsertThen, At, Steps
<1>2. step \in {"reset", "defer"} /\ (step = "reset" => Kind[request[h].mail] = "email")
  OBVIOUS
<1>3. DOMAIN runs' = DOMAIN runs \cup {n} /\ runs'[n].message = k
  BY InsertRows
<1>4. new.assistant = request[h].to /\ new.mail = request[h].mail
  OBVIOUS
<1>5. messages \in Seq(Message)
  BY DEF TypeInv, TypeOK
<1> HIDE DEF new, step
<1>6. /\ DOMAIN messages' = DOMAIN messages \cup {k}
      /\ \A i \in DOMAIN messages : messages'[i] = messages[i]
      /\ messages'[k] = new
  BY <1>1, <1>5
<1> HIDE DEF n, k
<1>7. Others(h) /\ SameMail(h) /\ request'[h].pc = step /\ request'[h].run = n
  BY <1>1, RunEffect
<1>8. k \in RowsOf(request[h].to, request[h].mail)'
  BY <1>4, <1>6, <1>7 DEF RowsOf, SameMail
<1>9. ASSUME NEW a, NEW m, RowsOf(a, m) = {}, RowsOf(a, m)' # {}
      PROVE  a = request[h].to /\ m = request[h].mail
  BY <1>4, <1>6, <1>9 DEF RowsOf
<1> QED BY <1>2, <1>3, <1>7, <1>8, <1>9 DEF Owes

\* Every step of a request is taken on what the request has found.
LEMMA StepInformed ==
    ASSUME TypeInv, RunInv, TablesGrow, NEW h \in Handlers, Informed(h), Step(h)
    PROVE  Others(h) /\ Informed(h)'
<1>1. CASE Precheck(h)
  <2>1. request[h].pc \in Steps /\ saw' = saw
    BY <1>1 DEF Precheck, At, Steps
  <2>2. PICK step \in {"ack", "resolve"} :
           GoTo(h, step) /\ (step = "ack" => RowsOf(request[h].to, request[h].mail) # {})
    BY <1>1 DEF Precheck
  <2>3. Others(h) /\ SameMail(h) /\ request'[h].pc = step
    BY <2>1, <2>2, GoToEffect
  <2> QED BY <2>1, <2>2, <2>3, InformedMoves DEF Filing, Owes
<1>2. CASE JoinThread(h)
  <2>1. request[h].pc \in Steps /\ saw' = saw /\ messages' = messages
    BY <1>2 DEF JoinThread, At, Steps, db
  <2>2. PICK k \in DOMAIN Mentions[request[h].mail] :
           \E i \in RowsOf(request[h].to, Mentions[request[h].mail][k]) :
              request' = [request EXCEPT ![h].pc = "lookup", ![h].thread = messages[i].thread]
    BY <1>2 DEF JoinThread
  <2>3. PICK i \in RowsOf(request[h].to, Mentions[request[h].mail][k]) :
           request' = [request EXCEPT ![h].pc = "lookup", ![h].thread = messages[i].thread]
    BY <2>2
  <2>4. /\ Others(h) /\ SameMail(h) /\ request'[h].pc = "lookup"
        /\ request'[h].thread = messages[i].thread
    BY <2>1, <2>3, ThreadEffect
  <2>5. Joined(h)'
    <3>1. PICK m : m = Mentions[request[h].mail][k]
      OBVIOUS
    <3>2. m \in Mentioned(h)' /\ i \in RowsOf(request[h].to, m)'
      BY <2>1, <2>3, <2>4, <3>1 DEF Mentioned, SameMail, RowsOf
    <3> QED BY <2>1, <2>4, <3>2 DEF Joined
  <2> QED BY <2>1, <2>4, <2>5, InformedMoves DEF Owes
<1>3. CASE CreateThread(h)
  <2>1. request[h].pc \in Steps /\ saw' = saw
    BY <1>3 DEF CreateThread, At, Steps
  <2>2. /\ Others(h) /\ SameMail(h) /\ request'[h].pc = "lookup"
    BY <1>3, <2>1, ThreadEffect DEF CreateThread
  <2>3. Mentioned(h) \cap saw[h] = {}
    BY <1>3, <2>1 DEF CreateThread, Mentioned, Informed
  <2>4. Joined(h)'
    BY <2>2, <2>3 DEF Joined, Mentioned, SameMail
  <2> QED BY <2>1, <2>2, <2>4, InformedMoves DEF Owes
<1>4. CASE FindDuplicate(h)
  <2>1. request[h].pc \in Steps /\ saw' = saw /\ RowsOf(request[h].to, request[h].mail) # {}
    BY <1>4 DEF FindDuplicate, At, Steps
  <2>2. Others(h) /\ SameMail(h) /\ request'[h].pc = "ack"
    BY <1>4, <2>1, GoToEffect DEF FindDuplicate
  <2> QED BY <2>1, <2>2, InformedMoves DEF Filing, Owes
<1>5. CASE FindNothing(h)
  <2>1. request[h].pc \in Steps /\ Filing(h) /\ saw' = saw /\ messages' = messages
    BY <1>5 DEF FindNothing, At, Steps, Filing, db
  <2>2. /\ Others(h) /\ SameMail(h) /\ request'[h].pc = "insert"
        /\ request'[h].thread = request[h].thread
    BY <1>5, <2>1, GoToEffect DEF FindNothing
  <2>3. Joined(h)'
    BY <2>1, <2>2 DEF Informed, Joined, Mentioned, SameMail, RowsOf
  <2> QED BY <2>1, <2>2, <2>3, InformedMoves DEF Owes
<1>6. CASE Insert(h)
  <2>1. request[h].pc \in Steps
    BY <1>6 DEF Insert, At, Steps
  <2>2. /\ Others(h) /\ SameMail(h) /\ Owes(h)'
        /\ request'[h].pc = "reset" => Kind[request[h].mail] = "email"
        /\ request'[h].run \in DOMAIN runs'
        /\ runs'[request'[h].run].message \in RowsOf(request[h].to, request[h].mail)'
    BY <1>6, InsertEffect
  <2>3. runs'[request'[h].run].message \in RowsOf(request[h].to, request[h].mail)'
    BY <2>2 DEF SameMail
  <2> QED BY <2>1, <2>2, <2>3, InformedMoves DEF Owes, Filing
<1>7. CASE InsertConflict(h) \/ Ack(h)
  BY <1>7, FinishEffect DEF InsertConflict, Ack
<1>8. CASE Reset(h) \/ Defer(h)
  <2>1. request[h].pc \in Steps /\ saw' = saw /\ Owes(h) /\ UNCHANGED <<runs, messages>>
    BY <1>8 DEF Reset, Defer, At, Steps, Owes
  <2>2. PICK step \in {"defer", "ack"} : GoTo(h, step)
    BY <1>8 DEF Reset, Defer
  <2>3. /\ Others(h) /\ SameMail(h) /\ request'[h].pc = step
        /\ request'[h].run = request[h].run
    BY <2>1, <2>2, GoToEffect
  <2>4. /\ request[h].run \in DOMAIN runs
        /\ runs[request[h].run].message \in RowsOf(request[h].to, request[h].mail)
    BY <2>1 DEF Informed
  <2>5. /\ request'[h].run \in DOMAIN runs'
        /\ runs'[request'[h].run].message \in RowsOf(request[h].to, request[h].mail)'
    BY <2>1, <2>3, <2>4 DEF SameMail, RowsOf
  <2> QED BY <2>1, <2>2, <2>3, <2>4, <2>5, InformedMoves DEF Filing
<1> QED BY <1>1, <1>2, <1>3, <1>4, <1>5, <1>6, <1>7, <1>8 DEF Step

\* Handlers keep what they know, whoever moves.
LEMMA NextInformed ==
    ASSUME PromiseIInv, [Next]_vars
    PROVE  \A g \in Handlers : Informed(g)'
<1> SUFFICES ASSUME NEW g \in Handlers
             PROVE  Informed(g)'
  OBVIOUS
<1>1. TypeInv /\ RunInv /\ TablesGrow /\ \A h \in Handlers : Informed(h)
  BY StepGrows DEF PromiseIInv, PromiseInv
<1>2. CASE UNCHANGED vars
  BY <1>1, <1>2, InformedKept DEF vars
<1>3. ASSUME NEW h \in Handlers, NEW d \in Deliverable, Drop(h, d)
      PROVE  Informed(g)'
  BY <1>1, <1>3, InformedKept DEF Drop
<1>4. ASSUME NEW h \in Handlers, NEW d \in Deliverable, Receive(h, d)
      PROVE  Informed(g)'
  <2>1. PICK step \in {"precheck", "resolve"} : Begin(h, d[1], d[2], step)
    BY <1>4 DEF Receive
  <2> DEFINE new == [pc |-> step, mail |-> d[1], to |-> d[2], thread |-> 0, run |-> 0]
  <2>2. request' = [request EXCEPT ![h] = new] /\ saw' = [saw EXCEPT ![h] = Indexed(d[2])]
    BY <2>1 DEF Begin
  <2>3. new.pc = step /\ new.to = d[2]
    OBVIOUS
  <2> HIDE DEF new
  <2>4. CASE g = h
    <3>1. request'[g] = new /\ saw'[g] = Indexed(d[2])
      BY <1>1, <2>2, <2>4 DEF TypeInv, TypeOK
    <3>2. Indexed(d[2]) \subseteq Indexed(d[2])'
      BY <1>1, RowsGrow
    <3> QED BY <2>3, <3>1, <3>2 DEF Informed, Filing, Owes
  <2>5. CASE g # h
    <3>1. request'[g] = request[g] /\ saw'[g] = saw[g]
      BY <1>1, <2>2, <2>5 DEF TypeInv, TypeOK
    <3> QED BY <1>1, <3>1, InformedKept
  <2> QED BY <2>4, <2>5
<1>5. ASSUME NEW h \in Handlers, Others(h) /\ Informed(h)'
      PROVE  Informed(g)'
  <2>1. CASE g # h
    <3>1. request'[g] = request[g] /\ saw'[g] = saw[g]
      BY <1>5, <2>1 DEF Others
    <3> QED BY <1>1, <3>1, InformedKept
  <2> QED BY <1>5, <2>1
<1>6. ASSUME NEW h \in Handlers, Die(h)
      PROVE  Informed(g)'
  BY <1>1, <1>5, <1>6, FinishEffect DEF Die
<1>7. ASSUME NEW h \in Handlers, Step(h)
      PROVE  Informed(g)'
  BY <1>1, <1>5, <1>7, StepInformed
<1>8. ASSUME NEW a \in Assistants, Notify(a)
      PROVE  Informed(g)'
  BY <1>1, <1>8, InformedKept DEF Notify
<1> QED BY <1>2, <1>3, <1>4, <1>6, <1>7, <1>8 DEF Next

\* The request that makes a mail's run queued, or remains about to.
LEMMA OwedIsPromised ==
    ASSUME PromiseIInv, EnqueueHolds, [Next]_vars, NEW d \in Deliverable, BeingQueued(d)
    PROVE  Queued(d)' \/ BeingQueued(d)'
<1>1. TypeInv /\ RunInv /\ TablesGrow /\ \A h \in Handlers : Informed(h)
  BY StepGrows DEF PromiseIInv, PromiseInv
<1>2. PICK g \in Handlers : Owes(g) /\ request[g].mail = d[1] /\ request[g].to = d[2]
  BY DEF BeingQueued, Owes
<1>3. /\ request[g].pc \in Steps /\ request[g] \in Requests
      /\ request[g].pc = "reset" \/ request[g].pc = "defer"
  BY <1>1, <1>2, AtStepIsBusy DEF Owes, Steps, TypeInv
<1>4. CASE request'[g] = request[g]
  BY <1>2, <1>4 DEF BeingQueued, Owes
<1>5. CASE Reset(g)
  <2>1. SameMail(g) /\ request'[g].pc = "defer"
    BY <1>1, <1>3, <1>5, GoToEffect DEF Reset
  <2> QED BY <1>2, <2>1 DEF BeingQueued, SameMail
<1>6. CASE Defer(g)
  <2>1. /\ request[g].run \in DOMAIN runs
        /\ runs[request[g].run].message \in RowsOf(d[2], d[1])
    BY <1>1, <1>2 DEF Informed
  <2>2. UNCHANGED <<runs, messages>> /\ jobs' = Append(jobs, request[g].run)
    BY <1>6 DEF Defer
  <2>3. \E j \in DOMAIN jobs' : jobs'[j] = request[g].run
    <3>1. jobs \in Seq(Nat \ {0}) /\ request[g].run \in Nat
      BY <1>1, <1>3 DEF TypeInv, TypeOK, Requests
    <3>2. Len(jobs) + 1 \in DOMAIN jobs' /\ jobs'[Len(jobs) + 1] = request[g].run
      BY <2>2, <3>1
    <3> QED BY <3>2
  <2> QED BY <2>1, <2>2, <2>3 DEF Queued, RowsOf, RunsOf
<1>7. \/ request'[g] = request[g] \/ Reset(g) \/ Defer(g)
  <2>1. CASE UNCHANGED vars
    BY <2>1 DEF vars
  <2>2. ASSUME NEW h \in Handlers, NEW e \in Deliverable, Drop(h, e) \/ Receive(h, e)
        PROVE  request'[g] = request[g]
    <3>1. request[h] = Idle /\ (Drop(h, e) => request' = request)
      BY <2>2 DEF Drop, Receive, Deliver
    <3>2. g # h
      BY <1>3, <3>1 DEF Idle, Steps
    <3> QED BY <1>1, <2>2, <3>1, <3>2 DEF Receive, Begin, TypeInv, TypeOK
  <2>3. ASSUME NEW h \in Handlers, Others(h), g # h
        PROVE  request'[g] = request[g]
    BY <2>3 DEF Others
  <2>4. ASSUME NEW h \in Handlers, Die(h)
        PROVE  request'[g] = request[g]
    <3>1. g # h
      BY <1>3, <2>4 DEF Die, EnqueueHolds
    <3>2. Others(h)
      BY <1>1, <2>4, FinishEffect DEF Die
    <3> QED BY <2>3, <3>1, <3>2
  <2>5. ASSUME NEW h \in Handlers, Step(h)
        PROVE  request'[g] = request[g] \/ Reset(g) \/ Defer(g)
    <3>1. Others(h)
      BY <1>1, <2>5, StepInformed
    <3>2. g = h => Reset(g) \/ Defer(g)
      BY <1>3, <2>5 DEF Step, Precheck, JoinThread, CreateThread, FindDuplicate, FindNothing,
                        Insert, InsertConflict, Ack, At
    <3> QED BY <2>3, <3>1, <3>2
  <2>6. ASSUME NEW a \in Assistants, Notify(a)
        PROVE  request'[g] = request[g]
    BY <2>6 DEF Notify
  <2> QED BY <2>1, <2>2, <2>4, <2>5, <2>6 DEF Next
<1> QED BY <1>4, <1>5, <1>6, <1>7

\* What is stored stays promised, and what is stored anew is promised.
LEMMA NextPromise ==
    ASSUME PromiseIInv, [Next]_vars
    PROVE  PromiseIInv'
<1>1. TypeInv /\ RunInv /\ TablesGrow /\ \A h \in Handlers : Informed(h)
  BY StepGrows DEF PromiseIInv, PromiseInv
<1>2. TypeInv' /\ RunInv'
  BY <1>1, NextTypes, StepRuns
<1>3. \A g \in Handlers : Informed(g)'
  BY NextInformed
<1>4. \A a, m : RowsOf(a, m) \subseteq RowsOf(a, m)'
  BY <1>1, RowsGrow
<1>5. ASSUME NEW d \in acked'
      PROVE  RowsOf(d[2], d[1])' # {}
  <2>1. CASE d \in acked
    BY <1>4, <2>1 DEF PromiseIInv, PromiseInv
  <2>2. CASE d \notin acked
    <3>1. PICK h \in Handlers : Ack(h)
      BY <1>5, <2>2 DEF Next, vars, Step, Drop, Receive, Precheck, JoinThread, CreateThread,
         FindDuplicate, FindNothing, Insert, InsertThen, InsertConflict, Reset, Defer, Die, Notify
    <3>2. d[1] = request[h].mail /\ d[2] = request[h].to
      BY <1>5, <2>2, <3>1 DEF Ack
    <3>3. RowsOf(request[h].to, request[h].mail) # {}
      BY <1>1, <3>1 DEF Ack, At, Informed
    <3> QED BY <1>4, <3>2, <3>3
  <2> QED BY <2>1, <2>2
<1>6. ASSUME EnqueueHolds, NEW d \in Deliverable, RowsOf(d[2], d[1])' # {}
      PROVE  Queued(d)' \/ BeingQueued(d)'
  <2>1. CASE RowsOf(d[2], d[1]) # {}
    <3>1. Queued(d) \/ BeingQueued(d)
      BY <1>6, <2>1 DEF PromiseIInv, PromiseInv, StoredIsQueued
    <3>2. Queued(d) => Queued(d)'
      BY <1>1, <1>4 DEF Queued, RunsOf, TablesGrow
    <3> QED BY <1>6, <3>1, <3>2, OwedIsPromised
  <2>2. CASE RowsOf(d[2], d[1]) = {}
    <3>1. messages' # messages
      BY <1>6, <2>2 DEF RowsOf
    <3>2. PICK h \in Handlers : Insert(h)
      BY <3>1 DEF Next, vars, db, Step, Drop, Receive, Precheck, JoinThread, CreateThread,
         FindDuplicate, FindNothing, InsertConflict, Reset, Defer, Ack, Die, Notify
    <3>3. /\ SameMail(h) /\ Owes(h)'
          /\ d[2] = request[h].to /\ d[1] = request[h].mail
      BY <1>1, <1>6, <2>2, <3>2, InsertEffect
    <3> QED BY <3>3 DEF SameMail, Owes, BeingQueued
  <2> QED BY <2>1, <2>2
<1> QED BY <1>2, <1>3, <1>5, <1>6 DEF PromiseIInv, PromiseInv, StoredIsQueued

\* They hold at the start.
LEMMA PromiseInit == ASSUME Init PROVE PromiseIInv
<1>1. RunInv
  BY DEF Init, RunInv, OneRunEach, RunsHaveMessages
<1>2. PromiseInv
  BY DEF Init, PromiseInv, Informed, Filing, Owes, Idle, Steps, StoredIsQueued, RowsOf
<1> QED BY <1>1, <1>2, InitTypes DEF PromiseIInv

\* The promises hold in every state.
LEMMA PromiseInvariance == Spec => []PromiseIInv
<1>1. Init => PromiseIInv
  BY PromiseInit
<1>2. PromiseIInv /\ [Next]_vars => PromiseIInv'
  BY NextPromise
<1> QED BY <1>1, <1>2, PTL DEF Spec

\* A mail that mentions one the assistant knew is filed with one of those it mentions.
THEOREM RepliesJoinTheirThread == Spec => []ReplyJoinsKnownThread
<1>1. PromiseIInv => ReplyJoinsKnownThread
  BY DEF PromiseIInv, PromiseInv, Informed, Filing, Joined, Mentioned, ReplyJoinsKnownThread
<1> QED BY <1>1, PromiseInvariance, PTL

\* If no request dies between the commit of its run and the enqueue, what was answered as
\* accepted is enqueued or about to be, however deliveries overlap or die elsewhere.
THEOREM AcceptedIsEnqueued ==
    ASSUME EnqueueHolds
    PROVE  Spec => []AckedIsQueued
<1>1. PromiseIInv => AckedIsQueued
  BY DEF PromiseIInv, PromiseInv, StoredIsQueued, AckedIsQueued, TypeInv, TypeOK
<1> QED BY <1>1, PromiseInvariance, PTL

-----------------------------------------------------------------------------
(* What Intake implements.                                                 *)

\* What the refinement rests on: a mail has one message, the message one run, the run at
\* most one job, and a handler acts on what it has written.
InboxInv == PromiseIInv /\ JobInv /\ OneMessagePerMail

\* The jobs and the messages of a pair can be counted.
LEMMA RowsAreOne ==
    ASSUME OneMessagePerMail, NEW a, NEW m, NEW i \in RowsOf(a, m)
    PROVE  RowsOf(a, m) = {i} /\ Cardinality(RowsOf(a, m)) = 1
<1>1. RowsOf(a, m) = {i}
  BY DEF RowsOf, OneMessagePerMail
<1> QED BY <1>1, FS_Singleton

\* The request of a pair works for that pair, which the router accepted.
LEMMA RequestPair ==
    ASSUME TypeInv, NEW h \in Handlers, request[h].pc \in Steps
    PROVE  \E d \in Routable : d \in Deliverable /\ d[1] = request[h].mail /\ d[2] = request[h].to
BY IntakeAssumption DEF TypeInv, RequestInv, PairRouted

\* Two pairs that agree in mail and assistant are one.
LEMMA SamePair ==
    ASSUME NEW d \in Deliverable, NEW e \in Deliverable, d[1] = e[1], d[2] = e[2]
    PROVE  d = e
<1>1. d \in Mails \X Assistants /\ e \in Mails \X Assistants
  BY IntakeAssumption
<1> QED BY <1>1

\* A step that leaves the tables and the answers alone is none of the inbox's.
LEMMA InboxStutters ==
    ASSUME UNCHANGED <<messages, runs, jobs, acked>>
    PROVE  UNCHANGED Mailbox!vars
<1>1. \A a, m : RowsOf(a, m)' = RowsOf(a, m)
  BY DEF RowsOf
<1>2. \A d \in Deliverable : JobsOf(d)' = JobsOf(d)
  BY <1>1 DEF JobsOf
<1> QED BY <1>1, <1>2 DEF Mailbox!vars

\* Insert stores the mail of its request.
LEMMA InsertStores ==
    ASSUME InboxInv, NEW h \in Handlers, Insert(h), NEW d \in Deliverable,
           d[1] = request[h].mail, d[2] = request[h].to
    PROVE  Mailbox!Store(d)
<1> DEFINE k == Len(messages) + 1
           new == [assistant |-> request[h].to, mail |-> request[h].mail,
                   thread |-> request[h].thread]
<1>1. /\ messages \in Seq(Message) /\ messages' = Append(messages, new)
      /\ jobs' = jobs /\ acked' = acked
      /\ RowsOf(d[2], d[1]) = {}
  BY DEF Insert, InsertThen, InboxInv, PromiseIInv, TypeInv, TypeOK
<1>2. new.assistant = d[2] /\ new.mail = d[1]
  OBVIOUS
<1> HIDE DEF new
<1>3. /\ DOMAIN messages' = DOMAIN messages \cup {k} /\ k \notin DOMAIN messages
      /\ \A i \in DOMAIN messages : messages'[i] = messages[i]
      /\ messages'[k] = new
  BY <1>1
<1>4. /\ \A r \in DOMAIN runs : runs'[r] = runs[r] /\ runs[r].message \in DOMAIN messages
      /\ \A j \in DOMAIN jobs : jobs[j] \in DOMAIN runs
  BY InsertRows DEF InboxInv, PromiseIInv, RunInv, RunsHaveMessages, JobInv, JobsHaveRuns
<1> HIDE DEF k
<1>5. RowsOf(d[2], d[1])' = {k}
  BY <1>1, <1>2, <1>3 DEF RowsOf
<1>6. \A e \in Deliverable : e # d => RowsOf(e[2], e[1])' = RowsOf(e[2], e[1])
  <2> SUFFICES ASSUME NEW e \in Deliverable, e # d
               PROVE  RowsOf(e[2], e[1])' = RowsOf(e[2], e[1])
    OBVIOUS
  <2>1. ~(new.assistant = e[2] /\ new.mail = e[1])
    BY <1>2, SamePair
  <2> QED BY <1>3, <2>1 DEF RowsOf
<1>7. \A e \in Deliverable : JobsOf(e)' = JobsOf(e)
  <2> SUFFICES ASSUME NEW e \in Deliverable
               PROVE  JobsOf(e)' = JobsOf(e)
    OBVIOUS
  <2>1. \A i \in DOMAIN messages : i \in RowsOf(e[2], e[1])' <=> i \in RowsOf(e[2], e[1])
    BY <1>3 DEF RowsOf
  <2> QED BY <1>1, <1>4, <2>1 DEF JobsOf
<1>8. Cardinality(RowsOf(d[2], d[1])) = 0 /\ Cardinality(RowsOf(d[2], d[1])') = 1
  BY <1>1, <1>5, FS_EmptySet, FS_Singleton
<1> QED BY <1>1, <1>6, <1>7, <1>8 DEF Mailbox!Store

\* Defer enqueues the run of the message its request has stored, which had no job yet.
LEMMA DeferEnqueues ==
    ASSUME InboxInv, NEW h \in Handlers, Defer(h), NEW d \in Deliverable,
           d[1] = request[h].mail, d[2] = request[h].to
    PROVE  Mailbox!Enqueue(d)
<1> DEFINE r == request[h].run
           k == Len(jobs) + 1
           i == runs[r].message
<1>1. request[h].pc \in Steps /\ Owes(h)
  BY DEF Defer, At, Steps, Owes
<1>2. /\ UNCHANGED <<messages, runs, acked>> /\ jobs' = Append(jobs, r)
      /\ jobs \in Seq(Nat \ {0}) /\ r \in Nat
  BY <1>1, AtStepIsBusy DEF Defer, InboxInv, PromiseIInv, TypeInv, TypeOK, Requests
<1>3. r \in DOMAIN runs /\ i \in RowsOf(d[2], d[1])
  BY <1>1 DEF InboxInv, PromiseIInv, PromiseInv, Informed
<1>4. /\ \A j \in DOMAIN jobs : jobs[j] \in DOMAIN runs /\ jobs[j] # r
  BY <1>1 DEF InboxInv, JobInv, JobsHaveRuns, OwedIsNotQueued
<1>5. /\ DOMAIN jobs' = DOMAIN jobs \cup {k} /\ k \notin DOMAIN jobs
      /\ \A j \in DOMAIN jobs : jobs'[j] = jobs[j]
      /\ jobs'[k] = r
  BY <1>2
<1>6. \A s \in DOMAIN runs : runs[s].message = i => s = r
  <2>1. i \in DOMAIN messages
    BY <1>3 DEF RowsOf
  <2>2. PICK s \in DOMAIN runs : RunsOf(i) = {s}
    BY <2>1 DEF InboxInv, PromiseIInv, RunInv, OneRunEach
  <2> QED BY <1>3, <2>2 DEF RunsOf
<1> HIDE DEF r, k, i
<1>7. RowsOf(d[2], d[1]) = {i} /\ Cardinality(RowsOf(d[2], d[1])) = 1
  BY <1>3, RowsAreOne DEF InboxInv
<1>8. \A a, m : RowsOf(a, m)' = RowsOf(a, m)
  BY <1>2 DEF RowsOf
<1>9. JobsOf(d) = {}
  BY <1>4, <1>6, <1>7 DEF JobsOf
<1>10. runs[r].message = i
  BY DEF i
<1>11. JobsOf(d)' = {k}
  BY <1>2, <1>5, <1>7, <1>8, <1>9, <1>10 DEF JobsOf
<1>12. ASSUME NEW e \in Deliverable, e # d
       PROVE  JobsOf(e)' = JobsOf(e)
  <2>1. i \notin RowsOf(e[2], e[1])
    BY <1>3, <1>12, SamePair DEF RowsOf
  <2> QED BY <1>2, <1>5, <1>8, <1>10, <2>1 DEF JobsOf
<1>13. Cardinality(JobsOf(d)) = 0 /\ Cardinality(JobsOf(d)') = 1
  BY <1>9, <1>11, FS_EmptySet, FS_Singleton
<1> QED BY <1>2, <1>7, <1>8, <1>12, <1>13 DEF Mailbox!Enqueue

\* Ack answers for a mail that is stored.
LEMMA AckAnswers ==
    ASSUME InboxInv, NEW h \in Handlers, Ack(h), NEW d \in Deliverable,
           d[1] = request[h].mail, d[2] = request[h].to
    PROVE  Mailbox!Answer(d)
<1>1. UNCHANGED <<messages, runs, jobs>> /\ acked' = acked \cup {<<request[h].mail, request[h].to>>}
  BY DEF Ack, db
<1>2. PICK i : i \in RowsOf(d[2], d[1])
  BY DEF Ack, At, InboxInv, PromiseIInv, PromiseInv, Informed
<1>3. Cardinality(RowsOf(d[2], d[1])) = 1
  BY <1>2, RowsAreOne DEF InboxInv
<1>4. <<request[h].mail, request[h].to>> = d
  <2>1. d \in Mails \X Assistants
    BY IntakeAssumption
  <2> QED BY <2>1
<1>5. \A a, m : RowsOf(a, m)' = RowsOf(a, m)
  BY <1>1 DEF RowsOf
<1>6. \A e \in Deliverable : JobsOf(e)' = JobsOf(e)
  BY <1>1, <1>5 DEF JobsOf
<1> QED BY <1>1, <1>3, <1>4, <1>5, <1>6 DEF Mailbox!Answer

\* Every step of the intake is a step of the inbox, or none.
LEMMA StepIsInboxStep ==
    ASSUME InboxInv, [Next]_vars
    PROVE  [Mailbox!Next]_(Mailbox!vars)
<1>1. CASE UNCHANGED <<messages, runs, jobs, acked>>
  BY <1>1, InboxStutters
<1>2. ASSUME NEW h \in Handlers, FindDuplicate(h)
      PROVE  UNCHANGED <<messages, runs, jobs, acked>>
  BY <1>2, DuplicateHasRun DEF FindDuplicate, InboxInv, PromiseIInv
<1>3. ASSUME NEW h \in Handlers, Insert(h) \/ Defer(h) \/ Ack(h)
      PROVE  Mailbox!Next
  <2>1. request[h].pc \in Steps
    BY <1>3 DEF Insert, Defer, Ack, At, Steps
  <2>2. PICK d \in Routable : d \in Deliverable /\ d[1] = request[h].mail /\ d[2] = request[h].to
    BY <2>1, RequestPair DEF InboxInv, PromiseIInv
  <2>3. Mailbox!Store(d) \/ Mailbox!Enqueue(d) \/ Mailbox!Answer(d)
    BY <1>3, <2>2, InsertStores, DeferEnqueues, AckAnswers
  <2> QED BY <2>3 DEF Mailbox!Next
<1> QED
  BY <1>1, <1>2, <1>3 DEF Next, vars, db, Step, Drop, Receive, Precheck, JoinThread, CreateThread,
     FindNothing, InsertConflict, Reset, Die, Notify

\* They hold at the start.
LEMMA InboxInit == ASSUME Init PROVE InboxInv
<1>1. JobInv /\ OneMessagePerMail
  BY DEF Init, JobInv, JobsHaveRuns, OwedIsNotQueued, OwedByOne, AtMostOneJobPerRun, Owes, Idle,
     OneMessagePerMail
<1> QED BY <1>1, PromiseInit DEF InboxInv

\* And no step breaks them.
LEMMA NextInbox == ASSUME InboxInv, [Next]_vars PROVE InboxInv'
BY NextPromise, NextJobs, StepMessages DEF InboxInv, PromiseIInv

\* The intake behaves like an inbox that takes one delivery of a mail at a time, whatever
\* overlaps, is delivered again or dies: see ImplementsInbox.
THEOREM InboxRefinement == Spec => ImplementsInbox
<1>1. Init => InboxInv /\ Mailbox!Init
  <2> SUFFICES ASSUME Init
               PROVE  InboxInv /\ Mailbox!Init
    OBVIOUS
  <2>1. /\ \A a, m : RowsOf(a, m) = {}
        /\ \A d \in Deliverable : JobsOf(d) = {}
    BY DEF Init, RowsOf, JobsOf
  <2>2. Mailbox!Init
    BY <2>1, FS_EmptySet DEF Mailbox!Init, Init
  <2> QED BY <2>2, InboxInit
<1>2. InboxInv /\ [Next]_vars => InboxInv'
  BY NextInbox
<1>3. InboxInv /\ [Next]_vars => [Mailbox!Next]_(Mailbox!vars)
  BY StepIsInboxStep
<1> QED BY <1>1, <1>2, <1>3, PTL DEF Spec, ImplementsInbox, Mailbox!Spec

-----------------------------------------------------------------------------
(* The counters of the scheduled tasks.                                    *)

\* A request that owes a run has not enqueued the run of its mail.
LEMMA OwedMailIsNotQueued ==
    ASSUME InboxInv, NEW h \in Handlers, Owes(h)
    PROVE  ~Queued(<<request[h].mail, request[h].to>>)
<1> DEFINE n == request[h].run
           k == runs[n].message
<1>1. n \in DOMAIN runs /\ k \in RowsOf(request[h].to, request[h].mail)
  BY DEF InboxInv, PromiseIInv, PromiseInv, Informed
<1>2. \A j \in DOMAIN jobs : jobs[j] # n
  BY DEF InboxInv, JobInv, OwedIsNotQueued
<1>3. RowsOf(request[h].to, request[h].mail) = {k}
  <2> HIDE DEF k
  <2> QED BY <1>1, RowsAreOne DEF InboxInv
<1>4. n \in RunsOf(k) /\ k \in DOMAIN messages
  BY <1>1 DEF RunsOf, RowsOf
<1>5. RunsOf(k) = {n}
  BY <1>4 DEF InboxInv, PromiseIInv, RunInv, OneRunEach
<1> HIDE DEF n, k
<1> QED BY <1>2, <1>3, <1>5 DEF Queued

\* The counters of an assistant are cleared by the request of a new real mail to it, never by
\* a duplicate, a nudge or a surface call, whatever was counted in between.
THEOREM OnlyMailResets == Spec => OnlyMailResetsCounters
<1> DEFINE Cleared(a) ==
              \E h \in Handlers :
                 /\ request[h] # Idle /\ request'[h] # request[h]
                 /\ request[h].to = a /\ Kind[request[h].mail] = "email"
                 /\ RowsOf(a, request[h].mail) # {}
                 /\ ~Queued(<<request[h].mail, a>>)
<1>1. InboxInv /\ [Next]_vars =>
        [\A a \in Assistants : unanswered[a] /\ ~unanswered'[a] => Cleared(a)]_vars
  <2> SUFFICES ASSUME InboxInv, [Next]_vars, NEW a \in Assistants, unanswered[a], ~unanswered'[a]
               PROVE  Cleared(a)
    OBVIOUS
  <2>1. TypeInv /\ unanswered \in [Assistants -> BOOLEAN]
    BY DEF InboxInv, PromiseIInv, TypeInv, TypeOK
  <2>2. PICK h \in Handlers : Reset(h)
    BY <2>1 DEF Next, vars, db, Step, Drop, Receive, Precheck, JoinThread, CreateThread,
       FindDuplicate, FindNothing, Insert, InsertThen, InsertConflict, Defer, Ack, Die, Notify
  <2>3. request[h].pc = "reset" /\ request[h].pc \in Steps /\ Owes(h)
    BY <2>2 DEF Reset, At, Steps, Owes
  <2>4. a = request[h].to
    BY <2>1, <2>2 DEF Reset
  <2>5. /\ Kind[request[h].mail] = "email"
        /\ RowsOf(request[h].to, request[h].mail) # {}
    BY <2>3 DEF InboxInv, PromiseIInv, PromiseInv, Informed
  <2>6. request[h] # Idle
    BY <2>3 DEF Idle
  <2>7. request'[h] # request[h]
    <3>1. request[h] \in Requests /\ request \in [Handlers -> {Idle} \cup Requests]
      BY <2>1, <2>3, AtStepIsBusy DEF TypeInv, TypeOK
    <3>2. request'[h].pc = "defer"
      BY <2>2, <3>1 DEF Reset, GoTo, Requests
    <3> QED BY <2>3, <3>2
  <2>8. ~Queued(<<request[h].mail, a>>)
    BY <2>3, <2>4, OwedMailIsNotQueued
  <2> QED BY <2>4, <2>5, <2>6, <2>7, <2>8
<1>2. Spec => []InboxInv
  <2>1. Init => InboxInv
    BY InboxInit
  <2>2. InboxInv /\ [Next]_vars => InboxInv'
    BY NextInbox
  <2> QED BY <2>1, <2>2, PTL DEF Spec
<1> QED BY <1>1, <1>2, PTL DEF Spec, OnlyMailResetsCounters
=============================================================================
