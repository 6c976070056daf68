------------------------ MODULE ScheduledTasksProofs ------------------------
(***************************************************************************)
(* Proofs about ScheduledTasks, for any tasks, kinds, modes and limits,    *)
(* any number of overlapping and late ticks, and any faults.               *)
(***************************************************************************)
EXTENDS ScheduledTasks, FiniteSetTheorems, TLAPS

-----------------------------------------------------------------------------
(* The inductive invariant.                                                *)

RunRow == [task: Tasks, tag: Tasks \cup {NoTask}, state: RunStates]

Rows == UNION {[D -> TaskRow] : D \in SUBSET Tasks}

TickState ==
    [now: 0..Horizon, todo: SUBSET Tasks, rows: Rows, fires: [Tasks -> SUBSET FireKinds],
     tags: SUBSET (Nat \X Tasks)]

TickOK(x) == x.todo \subseteq DOMAIN x.rows /\ x.tags \subseteq (DOMAIN runs) \X Tasks

\* The rows and the history variables, which the other parts depend on.
RowTypes ==
    /\ clock \in 0..Horizon
    /\ task \in [Tasks -> TaskRow]
    /\ fires \in [Tasks -> [FireKinds -> Nat]]
    /\ replies \in 0..MaxReplies
    /\ reply \subseteq Tasks
    /\ faults \in 0..MaxFaults
    /\ served \in [Tasks -> [Times -> Nat]]
    /\ told \in [Tasks -> Nat]

RunTypes ==
    /\ runs \in Seq(RunRow)
    /\ worker \in [pc: {"idle", "read", "write", "quiet"}, run: Nat, seen: Nat]
    /\ worker.pc # "idle" => worker.run \in DOMAIN runs
    /\ \A i \in DOMAIN runs : runs[i].tag \in {runs[i].task, NoTask}

TickTypes ==
    /\ tick \in [Ticks -> TickState]
    /\ \A k \in Ticks : TickOK(tick[k])

\* A tick holds rows that are active, each alone; a row it has not handled yet is as it
\* read it, and due; a row it has handled goes forward in time.
HeldRow(k, t) ==
    /\ task[t].status = "active"
    /\ tick[k].rows[t].next >= task[t].next
    /\ tick[k].rows[t].status # "absent"
    /\ t \in tick[k].todo => tick[k].rows[t] = task[t] /\ task[t].next <= tick[k].now

Held ==
    /\ \A k \in Ticks : \A t \in DOMAIN tick[k].rows : HeldRow(k, t)
    /\ \A k, j \in Ticks : \A t \in DOMAIN tick[k].rows : t \in DOMAIN tick[j].rows => k = j

\* A row that will not be served for time n (again), and a task that was handled for it,
\* be it that the tick which did so has yet to commit.
Left(row, n) == row.status # "active" \/ n < row.next

Past(t, n) ==
    \/ Left(task[t], n)
    \/ \E k \in Ticks : t \in DOMAIN tick[k].rows /\ Left(tick[k].rows[t], n)

\* What a task was served beyond once is owed to faults.
Counted ==
    \A t \in Tasks : \A n \in Times :
        /\ served[t][n] <= faults + IF Past(t, n) THEN 1 ELSE 0
        /\ task[t].status = "absent" => served[t][n] = 0

NoFaults == Faults = {} => faults = 0

Types == RowTypes /\ RunTypes /\ TickTypes

IInv == Types /\ Held /\ Counted /\ NoFaults

-----------------------------------------------------------------------------
(* Rows.                                                                   *)

LEMMA TimesAreNat ==
    /\ Times \subseteq Nat /\ Horizon \in Nat
    /\ \A n \in 0..Horizon : n \in Times /\ n + 1 \in Times
  BY ScheduledTasksAssumption DEF Times

\* One column of one row changes.
LEMMA SetUnanswered ==
    ASSUME NEW rows \in [Tasks -> TaskRow], NEW t \in Tasks, NEW count \in Nat
    PROVE  LET q == [rows EXCEPT ![t].unanswered = count] IN
           /\ q \in [Tasks -> TaskRow]
           /\ q[t].status = rows[t].status /\ q[t].next = rows[t].next
           /\ \A u \in Tasks \ {t} : q[u] = rows[u]
  BY DEF TaskRow

LEMMA SetStatus ==
    ASSUME NEW rows \in [Tasks -> TaskRow], NEW t \in Tasks,
           NEW status \in {"paused", "deleted"}
    PROVE  LET q == [rows EXCEPT ![t].status = status] IN
           /\ q \in [Tasks -> TaskRow]
           /\ q[t].status = status /\ q[t].next = rows[t].next
           /\ \A u \in Tasks \ {t} : q[u] = rows[u]
  BY DEF TaskRow

LEMMA ServedTwice ==
    ASSUME served \in [Tasks -> [Times -> Nat]], NEW t \in Tasks, NEW n \in Times
    PROVE  [served EXCEPT ![t][n] = @ + 1] \in [Tasks -> [Times -> Nat]]
<1>1. served[t] \in [Times -> Nat] /\ served[t][n] + 1 \in Nat
  OBVIOUS
<1>2. [served[t] EXCEPT ![n] = @ + 1] \in [Times -> Nat]
  BY <1>1
<1>. QED
  BY <1>2

LEMMA FireCounted ==
    ASSUME fires \in [Tasks -> [FireKinds -> Nat]], NEW t \in Tasks, NEW f \in FireKinds
    PROVE  [fires EXCEPT ![t][f] = @ + 1] \in [Tasks -> [FireKinds -> Nat]]
<1>1. fires[t] \in [FireKinds -> Nat] /\ fires[t][f] + 1 \in Nat
  OBVIOUS
<1>2. [fires[t] EXCEPT ![f] = @ + 1] \in [FireKinds -> Nat]
  BY <1>1
<1>. QED
  BY <1>2

LEMMA SameLength ==
    ASSUME NEW s \in Seq(RunRow), NEW f \in [DOMAIN s -> RunRow]
    PROVE  f \in Seq(RunRow) /\ DOMAIN f = DOMAIN s
  OBVIOUS

LEMMA RunAppended ==
    ASSUME RunTypes, NEW t \in Tasks, NEW state \in RunStates, NewRun(t, state)
    PROVE  /\ runs' \in Seq(RunRow)
           /\ DOMAIN runs' = DOMAIN runs \cup {Len(runs) + 1}
           /\ \A i \in DOMAIN runs' : runs'[i].tag \in {runs'[i].task, NoTask}
<1>. DEFINE r == [task |-> t, tag |-> NoTask, state |-> state]
<1>1. r \in RunRow /\ r.tag = NoTask
  BY DEF RunRow
<1>2. runs \in Seq(RunRow) /\ runs' = Append(runs, r)
  BY DEF RunTypes, NewRun
<1>. HIDE DEF r
<1>3. /\ Append(runs, r) \in Seq(RunRow)
      /\ DOMAIN Append(runs, r) = DOMAIN runs \cup {Len(runs) + 1}
      /\ \A i \in DOMAIN runs : Append(runs, r)[i] = runs[i]
      /\ Append(runs, r)[Len(runs) + 1] = r
  BY <1>1, <1>2
<1>. QED
  BY <1>1, <1>2, <1>3 DEF RunTypes

-----------------------------------------------------------------------------
(* Handling a row.                                                         *)

\* What Handled does to the tick.
Done(k, t, row) ==
    \E x \in TickState :
        /\ tick' = [tick EXCEPT ![k] = x]
        /\ x.now = tick[k].now
        /\ x.todo = tick[k].todo \ {t}
        /\ DOMAIN x.rows = DOMAIN tick[k].rows
        /\ x.rows[t] = row
        /\ \A u \in DOMAIN tick[k].rows \ {t} : x.rows[u] = tick[k].rows[u]
        /\ x.tags \subseteq (DOMAIN runs') \X Tasks

LEMMA HandledRow ==
    ASSUME Types, NEW k \in Ticks, NEW t \in tick[k].todo, NEW row \in TaskRow,
           NEW new \in SUBSET FireKinds, NEW tags \in SUBSET ((DOMAIN runs') \X Tasks),
           DOMAIN runs \subseteq DOMAIN runs', DOMAIN runs' \subseteq Nat,
           Handled(k, t, row, new, tags)
    PROVE  Done(k, t, row)
<1>. DEFINE d == tick[k]
            todo == d.todo \ {t}
            rows == [d.rows EXCEPT ![t] = row]
            logged == [d.fires EXCEPT ![t] = new]
            all == d.tags \cup tags
            e1 == [d EXCEPT !.todo = todo]
            e2 == [e1 EXCEPT !.rows = rows]
            e3 == [e2 EXCEPT !.fires = logged]
            e4 == [e3 EXCEPT !.tags = all]
<1>1. /\ d \in TickState /\ d.todo \subseteq DOMAIN d.rows /\ d.tags \subseteq (DOMAIN runs) \X Tasks
      /\ t \in Tasks /\ t \in DOMAIN d.rows
  BY DEF Types, TickTypes, TickOK, TickState
<1>2. tick' = [tick EXCEPT ![k] = e4]
  BY DEF Handled
<1>3. PICK D \in SUBSET Tasks : d.rows \in [D -> TaskRow]
  BY <1>1 DEF TickState, Rows
<1>4. rows \in [D -> TaskRow] /\ t \in D
  BY <1>1, <1>3
<1>5. /\ rows \in Rows /\ DOMAIN rows = DOMAIN d.rows /\ rows[t] = row
      /\ \A u \in DOMAIN d.rows \ {t} : rows[u] = d.rows[u]
  BY <1>3, <1>4 DEF Rows
<1>6. todo \in SUBSET Tasks /\ logged \in [Tasks -> SUBSET FireKinds]
  BY <1>1 DEF TickState
<1>7. all \in SUBSET (Nat \X Tasks) /\ all \subseteq (DOMAIN runs') \X Tasks
  BY <1>1
<1>. HIDE DEF d, rows, logged, all
<1>8. e1 \in TickState /\ e1.todo = todo /\ e1.now = d.now
  BY <1>1, <1>6 DEF TickState
<1>. HIDE DEF e1
<1>9. e2 \in TickState /\ e2.todo = todo /\ e2.now = d.now /\ e2.rows = rows
  BY <1>5, <1>8 DEF TickState
<1>. HIDE DEF e2
<1>10. e3 \in TickState /\ e3.todo = todo /\ e3.now = d.now /\ e3.rows = rows
  BY <1>6, <1>9 DEF TickState
<1>. HIDE DEF e3
<1>11. e4 \in TickState /\ e4.todo = todo /\ e4.now = d.now /\ e4.rows = rows /\ e4.tags = all
  BY <1>7, <1>10 DEF TickState
<1>. HIDE DEF e4, todo
<1>. QED
  BY <1>2, <1>5, <1>7, <1>11 DEF Done, d, todo

\* _mark_fired: the row goes past the time it was due.
LEMMA FiredRow ==
    ASSUME Types, Held, NEW k \in Ticks, NEW t \in tick[k].todo
    PROVE  /\ t \in Tasks /\ t \in DOMAIN tick[k].rows
           /\ tick[k].rows[t] = task[t] /\ task[t] \in TaskRow /\ task[t].status = "active"
           /\ Fired(k, t) \in TaskRow
           /\ Fired(k, t).next >= task[t].next /\ Fired(k, t).status # "absent"
           /\ Left(Fired(k, t), task[t].next)
<1>1. /\ t \in Tasks /\ t \in DOMAIN tick[k].rows /\ tick[k].rows[t] = task[t]
      /\ task[t] \in TaskRow /\ task[t].status = "active" /\ task[t].next <= tick[k].now
      /\ tick[k].now \in 0..Horizon
  BY DEF Types, TickTypes, TickOK, TickState, RowTypes, Held, HeldRow
<1>2. task[t].next \in Nat /\ tick[k].now \in Nat /\ NextRun(tick[k].now) = tick[k].now + 1
  BY <1>1, TimesAreNat DEF TaskRow, NextRun
<1>3. NextRun(tick[k].now) \in Times
  BY <1>1, TimesAreNat DEF NextRun
<1>4. CASE Kind[t] = "once"
  <2>1. Fired(k, t) = [task[t] EXCEPT !.status = "completed"]
    BY <1>1, <1>4 DEF Fired
  <2>2. Fired(k, t) \in TaskRow /\ Fired(k, t).status = "completed" /\ Fired(k, t).next = task[t].next
    BY <1>1, <2>1 DEF TaskRow
  <2>. QED
    BY <1>1, <1>2, <2>2 DEF Left
<1>5. CASE Kind[t] # "once"
  <2>1. Fired(k, t) = [task[t] EXCEPT !.next = NextRun(tick[k].now)]
    BY <1>1, <1>5 DEF Fired
  <2>2. /\ Fired(k, t) \in TaskRow /\ Fired(k, t).next = NextRun(tick[k].now)
        /\ Fired(k, t).status = "active"
    BY <1>1, <1>3, <2>1 DEF TaskRow
  <2>. QED
    BY <1>1, <1>2, <2>2 DEF Left
<1>. QED
  BY <1>4, <1>5
RowStep(k, t) ==
    \/ CommandDeclines(k, t) \/ CommandFails(k, t)
    \/ SendDirect(k, t) \/ DirectFails(k, t)
    \/ Dispatch(k, t) \/ DispatchFails(k, t)

LEMMA FaultCounts ==
    ASSUME RowTypes, NoFaults, NEW kind, Fault(kind)
    PROVE  faults' = faults + 1 /\ faults' \in 0..MaxFaults /\ NoFaults'
  BY ScheduledTasksAssumption DEF RowTypes, Fault, NoFaults

\* A task is served for the time its row is due: either the row goes past that time,
\* or the step is a fault.
LEMMA RowStepEffect ==
    ASSUME IInv, NEW k \in Ticks, NEW t \in Tasks, RowStep(k, t)
    PROVE  /\ t \in tick[k].todo
           /\ UNCHANGED <<clock, task, fires, worker, reply, replies>>
           /\ runs' = runs \/ \E state \in RunStates : NewRun(t, state)
           /\ told' = told \/ told' = [told EXCEPT ![t] = @ + 1]
           /\ faults' = faults \/ (faults' = faults + 1 /\ faults' \in 0..MaxFaults)
           /\ NoFaults'
           /\ \E row \in TaskRow :
                 /\ Done(k, t, row)
                 /\ row.next >= task[t].next /\ row.status # "absent"
                 /\ Left(row, task[t].next) \/ row = task[t]
                 /\ \/ served' = served
                    \/ /\ served' = [served EXCEPT ![t][task[t].next] = @ + 1]
                       /\ Left(row, task[t].next) \/ faults' = faults + 1
<1>1. t \in tick[k].todo
  BY DEF RowStep, CommandDeclines, CommandFails, SendDirect, DirectFails, Dispatch, DispatchFails,
         Handling
<1>. DEFINE fired == Fired(k, t)
            old == tick[k].rows[t]
<1>2. /\ old = task[t] /\ old \in TaskRow
      /\ fired \in TaskRow /\ fired.next >= task[t].next /\ fired.status # "absent" /\ Left(fired, task[t].next)
      /\ old.status # "absent"
  BY <1>1, FiredRow DEF IInv
<1>3. runs \in Seq(RunRow) /\ DOMAIN runs \subseteq Nat /\ task[t].next \in Nat /\ old.next >= task[t].next
  <2>1. runs \in Seq(RunRow) /\ DOMAIN runs \subseteq Nat
    BY DEF IInv, Types, RunTypes
  <2>2. task[t].next \in Nat
    BY <1>2, TimesAreNat DEF TaskRow
  <2>. QED
    BY <1>2, <2>1, <2>2
<1>4. RowTypes /\ NoFaults /\ Types
  BY DEF IInv, Types
<1>5. \A new \in SUBSET FireKinds : \A row \in TaskRow :
         runs' = runs /\ Handled(k, t, row, new, {}) => Done(k, t, row)
  BY <1>1, <1>3, <1>4, HandledRow
<1>6. \A state \in RunStates : NewRun(t, state) =>
         /\ DOMAIN runs \subseteq DOMAIN runs' /\ DOMAIN runs' \subseteq Nat
         /\ Len(runs) + 1 \in DOMAIN runs'
  <2>1. RunTypes
    BY <1>4 DEF Types
  <2>. QED
    BY <1>3, <2>1, RunAppended
<1>7. /\ {} \in SUBSET FireKinds /\ {"quiet_exited"} \in SUBSET FireKinds
      /\ {"command_failed"} \in SUBSET FireKinds /\ {"continued"} \in SUBSET FireKinds
      /\ {"sent_direct"} \in SUBSET FireKinds /\ {"sent_direct", "paused"} \in SUBSET FireKinds
      /\ {"queued", "jobless"} \subseteq RunStates
  BY DEF FireKinds, RunStates
<1>. HIDE DEF fired, old
<1>8. CASE CommandDeclines(k, t)
  <2>1. Handled(k, t, fired, {"quiet_exited"}, {}) /\ runs' = runs /\ served' = served
    BY <1>8 DEF CommandDeclines, fired
  <2>2. Done(k, t, fired)
    BY <1>2, <1>5, <1>7, <2>1
  <2>. QED
    BY <1>1, <1>2, <1>4, <1>8, <2>1, <2>2 DEF CommandDeclines, NoFaults
<1>9. CASE CommandFails(k, t)
  <2>1. Handled(k, t, old, {"command_failed"}, {}) /\ runs' = runs /\ served' = served
    BY <1>9 DEF CommandFails, old
  <2>2. Done(k, t, old)
    BY <1>2, <1>5, <1>7, <2>1
  <2>3. faults' = faults + 1 /\ faults' \in 0..MaxFaults /\ NoFaults'
    BY <1>4, <1>9, FaultCounts DEF CommandFails
  <2>. QED
    BY <1>1, <1>2, <1>3, <1>9, <2>1, <2>2, <2>3 DEF CommandFails
<1>10. CASE SendDirect(k, t)
  <2>. DEFINE count == old.unanswered + 1
              row == [fired EXCEPT !.unanswered = count]
              last == [row EXCEPT !.status = "paused"]
  <2>1. count \in Nat
    BY <1>2 DEF TaskRow
  <2>2. /\ \/ Handled(k, t, last, {"sent_direct", "paused"}, {})
           \/ Handled(k, t, row, {"sent_direct"}, {})
        /\ Serve(k, t, TRUE) /\ runs' = runs /\ faults' = faults
        /\ UNCHANGED <<clock, task, fires, worker, reply, replies>>
    BY <1>10 DEF SendDirect, fired, old
  <2>. HIDE DEF count
  <2>3. row \in TaskRow /\ row.next = fired.next /\ row.status = fired.status
    BY <1>2, <2>1 DEF TaskRow
  <2>. HIDE DEF row
  <2>4. last \in TaskRow /\ last.next = row.next /\ last.status = "paused"
    BY <2>3 DEF TaskRow
  <2>. HIDE DEF last
  <2>5. Left(row, task[t].next) /\ Left(last, task[t].next)
    BY <1>2, <2>3, <2>4 DEF Left
  <2>6. Done(k, t, row) \/ Done(k, t, last)
    BY <1>5, <1>7, <2>2, <2>3, <2>4
  <2>7. /\ served' = [served EXCEPT ![t][task[t].next] = @ + 1]
        /\ told' = [told EXCEPT ![t] = @ + 1]
    BY <1>2, <2>2 DEF Serve, old
  <2>8. NoFaults'
    BY <1>4, <2>2 DEF NoFaults
  <2>. QED
    BY <1>1, <1>2, <2>2, <2>3, <2>4, <2>5, <2>6, <2>7, <2>8
<1>11. CASE DirectFails(k, t)
  <2>1. Handled(k, t, old, {}, {}) /\ runs' = runs
    BY <1>11 DEF DirectFails, old
  <2>2. Done(k, t, old)
    BY <1>2, <1>5, <1>7, <2>1
  <2>3. faults' = faults + 1 /\ faults' \in 0..MaxFaults /\ NoFaults'
    BY <1>4, <1>11, FaultCounts DEF DirectFails
  <2>4. UNCHANGED <<served, told>> \/ Serve(k, t, TRUE)
    BY <1>11 DEF DirectFails
  <2>5. \/ UNCHANGED <<served, told>>
        \/ /\ served' = [served EXCEPT ![t][task[t].next] = @ + 1]
           /\ told' = [told EXCEPT ![t] = @ + 1]
    BY <1>2, <2>4 DEF Serve, old
  <2>. QED
    BY <1>1, <1>2, <1>3, <1>11, <2>1, <2>2, <2>3, <2>5 DEF DirectFails
<1>12. CASE Dispatch(k, t)
  <2>1. /\ NewRun(t, "queued") /\ Handled(k, t, fired, {"continued"}, {<<Len(runs) + 1, t>>})
        /\ Serve(k, t, FALSE) /\ faults' = faults
        /\ UNCHANGED <<clock, task, fires, worker, reply, replies>>
    BY <1>12 DEF Dispatch, fired
  <2>2. {<<Len(runs) + 1, t>>} \in SUBSET ((DOMAIN runs') \X Tasks)
    BY <1>6, <1>7, <2>1
  <2>3. Done(k, t, fired)
    BY <1>1, <1>2, <1>4, <1>6, <1>7, <2>1, <2>2, HandledRow
  <2>4. served' = [served EXCEPT ![t][task[t].next] = @ + 1] /\ told' = told
    BY <1>2, <2>1 DEF Serve, old
  <2>5. NoFaults'
    BY <1>4, <2>1 DEF NoFaults
  <2>. QED
    BY <1>1, <1>2, <1>7, <2>1, <2>3, <2>4, <2>5
<1>13. CASE DispatchFails(k, t)
  <2>1. /\ Handled(k, t, old, {}, {}) /\ served' = served /\ told' = told
        /\ runs' = runs \/ NewRun(t, "jobless")
    BY <1>13 DEF DispatchFails, old
  <2>2. Done(k, t, old)
    BY <1>1, <1>2, <1>3, <1>4, <1>6, <1>7, <2>1, HandledRow
  <2>3. faults' = faults + 1 /\ faults' \in 0..MaxFaults /\ NoFaults'
    BY <1>4, <1>13, FaultCounts DEF DispatchFails
  <2>. QED
    BY <1>1, <1>2, <1>3, <1>7, <1>13, <2>1, <2>2, <2>3 DEF DispatchFails
<1>. QED
  BY <1>8, <1>9, <1>10, <1>11, <1>12, <1>13 DEF RowStep
\* Handling a row keeps the invariant.
LEMMA DoneTypes ==
    ASSUME Types, NEW k \in Ticks, NEW t \in tick[k].todo, NEW row, Done(k, t, row),
           DOMAIN runs \subseteq DOMAIN runs'
    PROVE  TickTypes'
<1>1. PICK x \in TickState :
         /\ tick' = [tick EXCEPT ![k] = x]
         /\ x.todo \subseteq tick[k].todo /\ DOMAIN x.rows = DOMAIN tick[k].rows
         /\ x.tags \subseteq (DOMAIN runs') \X Tasks
  BY DEF Done
<1>2. tick \in [Ticks -> TickState] /\ \A j \in Ticks : TickOK(tick[j])
  BY DEF Types, TickTypes
<1>3. tick' \in [Ticks -> TickState] /\ tick'[k] = x /\ \A j \in Ticks \ {k} : tick'[j] = tick[j]
  BY <1>1, <1>2
<1>4. \A j \in Ticks : tick'[j].todo \subseteq DOMAIN tick'[j].rows
                          /\ tick'[j].tags \subseteq (DOMAIN runs') \X Tasks
  BY <1>1, <1>2, <1>3 DEF TickOK
<1>. QED
  BY <1>3, <1>4 DEF TickTypes, TickOK

LEMMA DoneHeld ==
    ASSUME IInv, NEW k \in Ticks, NEW t \in tick[k].todo, NEW row \in TaskRow, Done(k, t, row),
           task' = task, row.next >= task[t].next, row.status # "absent"
    PROVE  Held'
<1>1. PICK x \in TickState :
         /\ tick' = [tick EXCEPT ![k] = x]
         /\ x.now = tick[k].now
         /\ x.todo = tick[k].todo \ {t}
         /\ DOMAIN x.rows = DOMAIN tick[k].rows
         /\ x.rows[t] = row
         /\ \A u \in DOMAIN tick[k].rows \ {t} : x.rows[u] = tick[k].rows[u]
  BY DEF Done
<1>2. tick \in [Ticks -> TickState]
  BY DEF IInv, Types, TickTypes
<1>3. tick'[k] = x /\ \A j \in Ticks \ {k} : tick'[j] = tick[j]
  BY <1>1, <1>2
<1>4. \A j \in Ticks : DOMAIN tick'[j].rows = DOMAIN tick[j].rows
  BY <1>1, <1>3
<1>5. ASSUME NEW j \in Ticks, NEW u \in DOMAIN tick'[j].rows PROVE HeldRow(j, u)'
  <2>1. HeldRow(j, u)
    BY <1>4, <1>5 DEF IInv, Held
  <2>2. CASE j = k /\ u = t
    BY <1>1, <1>3, <2>1, <2>2 DEF HeldRow
  <2>3. CASE j = k /\ u # t
    BY <1>1, <1>3, <1>4, <1>5, <2>1, <2>3 DEF HeldRow
  <2>4. CASE j # k
    BY <1>3, <1>5, <2>1, <2>4 DEF HeldRow
  <2>. QED
    BY <2>2, <2>3, <2>4
<1>. QED
  BY <1>4, <1>5 DEF IInv, Held

LEMMA DoneCounted ==
    ASSUME IInv, NEW k \in Ticks, NEW t \in tick[k].todo, NEW row \in TaskRow, Done(k, t, row),
           task' = task, faults' \in {faults, faults + 1},
           Left(row, task[t].next) \/ row = task[t],
           \/ served' = served
           \/ /\ served' = [served EXCEPT ![t][task[t].next] = @ + 1]
              /\ Left(row, task[t].next) \/ faults' = faults + 1
    PROVE  Counted'
<1>. DEFINE m == task[t].next
<1>1. PICK x \in TickState :
         /\ tick' = [tick EXCEPT ![k] = x]
         /\ DOMAIN x.rows = DOMAIN tick[k].rows
         /\ x.rows[t] = row
         /\ \A u \in DOMAIN tick[k].rows \ {t} : x.rows[u] = tick[k].rows[u]
  BY DEF Done
<1>2. /\ tick \in [Ticks -> TickState] /\ served \in [Tasks -> [Times -> Nat]] /\ faults \in Nat
      /\ task \in [Tasks -> TaskRow] /\ t \in Tasks /\ t \in DOMAIN tick[k].rows
  BY ScheduledTasksAssumption DEF IInv, Types, RowTypes, TickTypes, TickOK, TickState
<1>3. /\ task[t].status = "active" /\ tick[k].rows[t] = task[t]
      /\ \A j \in Ticks : t \in DOMAIN tick[j].rows => j = k
  BY <1>2 DEF IInv, Held, HeldRow
<1>4. tick'[k] = x /\ \A j \in Ticks \ {k} : tick'[j] = tick[j]
  BY <1>1, <1>2
<1>5. m \in Times /\ m \in Nat
  BY <1>2, TimesAreNat DEF TaskRow
<1>6. ~Past(t, m)
  BY <1>3, <1>5 DEF Past, Left
<1>7. ASSUME NEW u \in Tasks, NEW n \in Times, Past(u, n) PROVE Past(u, n)'
  <2>1. Left(task[u], n) => Past(u, n)'
    BY DEF Past, Left
  <2>2. ASSUME NEW j \in Ticks, u \in DOMAIN tick[j].rows, Left(tick[j].rows[u], n)
        PROVE  Past(u, n)'
    <3>1. CASE j = k /\ u = t
      BY <1>3, <2>1, <2>2, <3>1
    <3>2. CASE j # k \/ u # t
      <4>1. u \in DOMAIN tick'[j].rows /\ tick'[j].rows[u] = tick[j].rows[u]
        BY <1>1, <1>4, <2>2, <3>2
      <4>. QED
        BY <2>2, <4>1 DEF Past, Left
    <3>. QED
      BY <3>1, <3>2
  <2>. QED
    BY <1>7, <2>1, <2>2 DEF Past
<1>8. Left(row, m) => Past(t, m)'
  BY <1>1, <1>2, <1>4 DEF Past, Left
<1>. HIDE DEF m
<1>9. ASSUME NEW u \in Tasks, NEW n \in Times
      PROVE  /\ served'[u][n] <= faults' + IF Past(u, n)' THEN 1 ELSE 0
             /\ task'[u].status = "absent" => served'[u][n] = 0
  <2>1. /\ served[u][n] \in Nat
        /\ served[u][n] <= faults + IF Past(u, n) THEN 1 ELSE 0
        /\ task[u].status = "absent" => served[u][n] = 0
    BY <1>2 DEF IInv, Counted
  <2>2. CASE u = t /\ n = m
    <3>1. served[u][n] <= faults
      BY <1>2, <1>6, <2>1, <2>2
    <3>2. served'[u][n] = served[u][n]
         \/ (served'[u][n] = served[u][n] + 1 /\ (Past(u, n)' \/ faults' = faults + 1))
      BY <1>2, <1>5, <1>8, <2>2 DEF m
    <3>. QED
      BY <1>2, <1>3, <2>1, <2>2, <3>1, <3>2
  <2>3. CASE u # t \/ n # m
    <3>1. served'[u][n] = served[u][n]
      BY <1>2, <2>3 DEF m
    <3>. QED
      BY <1>2, <1>7, <2>1, <3>1
  <2>. QED
    BY <2>2, <2>3
<1>. QED
  BY <1>9 DEF Counted

LEMMA RowStepInv == ASSUME IInv, NEW k \in Ticks, NEW t \in Tasks, RowStep(k, t) PROVE IInv'
<1>1. t \in tick[k].todo /\ UNCHANGED <<clock, task, fires, worker, reply, replies>> /\ NoFaults'
  BY RowStepEffect
<1>2. /\ runs' = runs \/ \E state \in RunStates : NewRun(t, state)
      /\ told' = told \/ told' = [told EXCEPT ![t] = @ + 1]
      /\ faults' = faults \/ (faults' = faults + 1 /\ faults' \in 0..MaxFaults)
  BY RowStepEffect
<1>3. PICK row \in TaskRow :
         /\ Done(k, t, row)
         /\ row.next >= task[t].next /\ row.status # "absent"
         /\ Left(row, task[t].next) \/ row = task[t]
         /\ \/ served' = served
            \/ /\ served' = [served EXCEPT ![t][task[t].next] = @ + 1]
               /\ Left(row, task[t].next) \/ faults' = faults + 1
  BY RowStepEffect
<1>4. Types /\ RowTypes /\ RunTypes
  BY DEF IInv, Types
<1>5. RunTypes' /\ DOMAIN runs \subseteq DOMAIN runs'
  <2>1. CASE runs' = runs
    BY <1>1, <1>4, <2>1 DEF RunTypes
  <2>2. ASSUME NEW state \in RunStates, NewRun(t, state) PROVE RunTypes' /\ DOMAIN runs \subseteq DOMAIN runs'
    BY <1>1, <1>4, <2>2, RunAppended DEF RunTypes
  <2>. QED
    BY <1>2, <2>1, <2>2
<1>6. RowTypes'
  <2>1. task \in [Tasks -> TaskRow] /\ served \in [Tasks -> [Times -> Nat]]
    BY <1>4 DEF RowTypes
  <2>2. task[t].next \in Times
    BY <2>1 DEF TaskRow
  <2>5. served' = served \/ served' = [served EXCEPT ![t][task[t].next] = @ + 1]
    BY <1>3
  <2>6. [served EXCEPT ![t][task[t].next] = @ + 1] \in [Tasks -> [Times -> Nat]]
    BY <2>1, <2>2, ServedTwice
  <2>4. served' \in [Tasks -> [Times -> Nat]]
    BY <2>1, <2>5, <2>6
  <2>7. told \in [Tasks -> Nat]
    BY <1>4 DEF RowTypes
  <2>3. told' \in [Tasks -> Nat]
    BY <1>2, <2>7
  <2>. QED
    BY <1>1, <1>2, <1>4, <2>3, <2>4 DEF RowTypes
<1>7. TickTypes'
  BY <1>1, <1>3, <1>4, <1>5, DoneTypes
<1>8. Held'
  BY <1>1, <1>3, DoneHeld
<1>9. Counted'
  BY <1>1, <1>2, <1>3, DoneCounted
<1>. QED
  BY <1>1, <1>5, <1>6, <1>7, <1>8, <1>9 DEF IInv, Types
-----------------------------------------------------------------------------
(* The other steps.                                                        *)

LEMMA Idle ==
    /\ IdleTick \in TickState /\ DOMAIN IdleTick.rows = {} /\ IdleTick.todo = {} /\ IdleTick.tags = {}
<1>1. <<>> \in Rows
  <2>1. <<>> \in [{} -> TaskRow]
    OBVIOUS
  <2>. QED
    BY <2>1 DEF Rows
<1>2. [t \in Tasks |-> {}] \in [Tasks -> SUBSET FireKinds]
  OBVIOUS
<1>. QED
  BY <1>1, <1>2, TimesAreNat DEF IdleTick, TickState

LEMMA InitInv == Init => IInv
<1>. SUFFICES ASSUME Init PROVE IInv
  OBVIOUS
<1>1. /\ task = [t \in Tasks |-> [status |-> "absent", next |-> 0, unanswered |-> 0]]
      /\ served = [t \in Tasks |-> [n \in Times |-> 0]]
      /\ faults = 0 /\ clock = 0 /\ runs = <<>> /\ worker = IdleWorker /\ reply = {} /\ replies = 0
      /\ fires = [t \in Tasks |-> [f \in FireKinds |-> 0]]
      /\ told = [t \in Tasks |-> 0]
      /\ tick = [k \in Ticks |-> IdleTick]
  BY DEF Init
<1>2. RowTypes
  <2>1. [status |-> "absent", next |-> 0, unanswered |-> 0] \in TaskRow
    BY TimesAreNat DEF TaskRow
  <2>. QED
    BY <1>1, <2>1, ScheduledTasksAssumption DEF RowTypes
<1>3. RunTypes
  BY <1>1 DEF RunTypes, IdleWorker
<1>5. TickTypes
  BY <1>1, Idle DEF TickTypes, TickOK
<1>6. Held
  BY <1>1, Idle DEF Held
<1>7. Counted
  BY <1>1 DEF Counted, Past, Left
<1>. QED
  BY <1>1, <1>2, <1>3, <1>5, <1>6, <1>7 DEF IInv, Types, NoFaults

\* Steps that leave the ticks alone.
LEMMA TicksKept ==
    ASSUME Types, tick' = tick, DOMAIN runs' = DOMAIN runs
    PROVE  TickTypes'
  BY DEF Types, TickTypes, TickOK

LEMMA NotLocked ==
    ASSUME NEW t, t \notin Locked, NEW k \in Ticks
    PROVE  t \notin DOMAIN tick[k].rows
  BY DEF Locked

\* Rows that no tick holds may change, but a task that is not active does not become so.
LEMMA RowsChange ==
    ASSUME IInv, tick' = tick, served' = served, faults' = faults,
           \A t \in Tasks :
              \/ task'[t] = task[t]
              \/ t \notin Locked /\ task'[t].next = task[t].next
                 /\ task'[t].status \in {task[t].status, "paused", "deleted"}
              \/ task[t].status = "absent"
    PROVE  Held' /\ Counted' /\ NoFaults'
<1>0. /\ tick \in [Ticks -> TickState] /\ served \in [Tasks -> [Times -> Nat]] /\ faults \in Nat
      /\ \A k \in Ticks : DOMAIN tick[k].rows \subseteq Tasks
  BY ScheduledTasksAssumption DEF IInv, Types, RowTypes, TickTypes, TickState, Rows
<1>1. Held'
  <2>1. ASSUME NEW k \in Ticks, NEW t \in DOMAIN tick[k].rows PROVE HeldRow(k, t)'
    <3>1. HeldRow(k, t) /\ t \in Tasks
      BY <1>0, <2>1 DEF IInv, Held
    <3>2. task'[t] = task[t]
      BY <2>1, <3>1, NotLocked DEF HeldRow
    <3>. QED
      BY <3>1, <3>2 DEF HeldRow
  <2>. QED
    BY <2>1 DEF IInv, Held
<1>2. ASSUME NEW t \in Tasks, NEW n \in Times
      PROVE  /\ served[t][n] <= faults + IF Past(t, n)' THEN 1 ELSE 0
             /\ task'[t].status = "absent" => served[t][n] = 0
  <2>1. /\ served[t][n] \in Nat
        /\ served[t][n] <= faults + IF Past(t, n) THEN 1 ELSE 0
        /\ task[t].status = "absent" => served[t][n] = 0
    BY <1>0 DEF IInv, Counted
  <2>2. CASE task[t].status = "absent"
    BY <1>0, <2>1, <2>2
  <2>3. CASE task[t].status # "absent"
    <3>1. task'[t].status # "absent"
      BY <2>3
    <3>2. Left(task[t], n) => Left(task'[t], n)
      BY <2>3 DEF Left
    <3>3. Past(t, n) => Past(t, n)'
      BY <3>2 DEF Past, Left
    <3>. QED
      BY <1>0, <2>1, <3>1, <3>3
  <2>. QED
    BY <2>2, <2>3
<1>. QED
  BY <1>1, <1>2 DEF IInv, NoFaults, Counted

LEMMA CreateInv == ASSUME IInv, NEW t \in Tasks, Create(t) PROVE IInv'
<1>1. PICK n \in Times :
         task' = [task EXCEPT ![t] = [status |-> "active", next |-> n, unanswered |-> 0]]
  BY DEF Create
<1>2. [status |-> "active", next |-> n, unanswered |-> 0] \in TaskRow
  BY DEF TaskRow
<1>3. /\ task[t].status = "absent"
      /\ UNCHANGED <<clock, fires, runs, tick, worker, reply, replies, faults, served, told>>
  BY DEF Create
<1>4. task \in [Tasks -> TaskRow] /\ Types /\ RowTypes /\ RunTypes
  BY DEF IInv, Types, RowTypes
<1>5. task' \in [Tasks -> TaskRow] /\ \A u \in Tasks \ {t} : task'[u] = task[u]
  BY <1>1, <1>2, <1>4
<1>6. RowTypes'
  BY <1>3, <1>4, <1>5 DEF RowTypes
<1>7. RunTypes'
  BY <1>3, <1>4 DEF RunTypes
<1>8. TickTypes'
  BY <1>3, <1>4, TicksKept
<1>9. Held' /\ Counted' /\ NoFaults'
  BY <1>3, <1>5, RowsChange
<1>. QED
  BY <1>6, <1>7, <1>8, <1>9 DEF IInv, Types

LEMMA DeleteInv == ASSUME IInv, NEW t \in Tasks, Delete(t) PROVE IInv'
<1>1. /\ t \notin Locked
      /\ task' = [task EXCEPT ![t].status = "deleted"]
      /\ fires' = [fires EXCEPT ![t] = [f \in FireKinds |-> 0]]
      /\ runs' = [i \in DOMAIN runs |->
                    IF runs[i].tag = t THEN [runs[i] EXCEPT !.tag = NoTask] ELSE runs[i]]
      /\ UNCHANGED <<clock, tick, worker, reply, replies, faults, served, told>>
  BY DEF Delete
<1>2. task \in [Tasks -> TaskRow] /\ fires \in [Tasks -> [FireKinds -> Nat]] /\ runs \in Seq(RunRow)
      /\ Types /\ RowTypes /\ RunTypes
  BY DEF IInv, Types, RowTypes, RunTypes
<1>3. /\ task' \in [Tasks -> TaskRow] /\ task'[t].status = "deleted" /\ task'[t].next = task[t].next
      /\ \A u \in Tasks \ {t} : task'[u] = task[u]
  BY <1>1, <1>2, SetStatus
<1>4. fires' \in [Tasks -> [FireKinds -> Nat]]
  <2>1. [f \in FireKinds |-> 0] \in [FireKinds -> Nat]
    OBVIOUS
  <2>. QED
    BY <1>1, <1>2, <2>1
<1>5. RowTypes'
  BY <1>1, <1>2, <1>3, <1>4 DEF RowTypes
<1>6. ASSUME NEW i \in DOMAIN runs
      PROVE  runs'[i] \in RunRow /\ runs'[i].tag \in {runs'[i].task, NoTask}
  <2>1. runs[i] \in RunRow /\ runs[i].tag \in {runs[i].task, NoTask}
    BY <1>2 DEF RunTypes
  <2>2. runs'[i] = IF runs[i].tag = t THEN [runs[i] EXCEPT !.tag = NoTask] ELSE runs[i]
    BY <1>1
  <2>. QED
    BY <2>1, <2>2 DEF RunRow
<1>7. runs' \in [DOMAIN runs -> RunRow]
  BY <1>1, <1>6
<1>8. runs' \in Seq(RunRow) /\ DOMAIN runs' = DOMAIN runs
  BY <1>2, <1>7, SameLength
<1>9. RunTypes'
  BY <1>1, <1>2, <1>6, <1>8 DEF RunTypes
<1>10. TickTypes'
  BY <1>1, <1>2, <1>8, TicksKept
<1>11. Held' /\ Counted' /\ NoFaults'
  BY <1>1, <1>3, RowsChange
<1>. QED
  BY <1>5, <1>9, <1>10, <1>11 DEF IInv, Types

\* The state of one run changes.
LEMMA RunStateChanges ==
    ASSUME RunTypes, NEW i \in DOMAIN runs, NEW state \in RunStates,
           runs' = [runs EXCEPT ![i].state = state]
    PROVE  /\ runs' \in Seq(RunRow) /\ DOMAIN runs' = DOMAIN runs
           /\ \A j \in DOMAIN runs' : runs'[j].tag \in {runs'[j].task, NoTask}
<1>1. runs \in Seq(RunRow) /\ runs \in [DOMAIN runs -> RunRow]
  BY DEF RunTypes
<1>2. runs' \in [DOMAIN runs -> RunRow]
  BY <1>1 DEF RunRow
<1>3. \A j \in DOMAIN runs : runs'[j].tag = runs[j].tag /\ runs'[j].task = runs[j].task
  BY <1>1 DEF RunRow
<1>. QED
  BY <1>1, <1>2, <1>3, SameLength DEF RunTypes

\* A step that leaves rows and ticks alone.
LEMMA RowsKept ==
    ASSUME IInv, tick' = tick, served' = served, faults' = faults, task' = task
    PROVE  Held' /\ Counted' /\ NoFaults'
  BY RowsChange

LEMMA ExecuteRunInv == ASSUME IInv, NEW i \in DOMAIN runs, ExecuteRun(i) PROVE IInv'
<1>1. Types /\ RowTypes /\ RunTypes /\ told \in [Tasks -> Nat] /\ runs \in Seq(RunRow) /\ i \in Nat
  BY DEF IInv, Types, RowTypes, RunTypes
<1>2. /\ UNCHANGED <<clock, task, fires, tick, reply, replies, faults, served>>
      /\ worker = IdleWorker
  BY DEF ExecuteRun
<1>3. \E state \in RunStates : runs' = [runs EXCEPT ![i].state = state]
  BY DEF ExecuteRun, RunStates
<1>4. worker' = worker \/ worker' = [IdleWorker EXCEPT !.pc = "read", !.run = i]
      \/ worker' = [IdleWorker EXCEPT !.pc = "quiet", !.run = i]
  BY DEF ExecuteRun
<1>5. told' \in [Tasks -> Nat]
  BY <1>1 DEF ExecuteRun
<1>6. /\ runs' \in Seq(RunRow) /\ DOMAIN runs' = DOMAIN runs
      /\ \A j \in DOMAIN runs' : runs'[j].tag \in {runs'[j].task, NoTask}
  BY <1>1, <1>3, RunStateChanges
<1>7. RunTypes'
  BY <1>1, <1>2, <1>4, <1>6 DEF RunTypes, IdleWorker
<1>8. RowTypes'
  BY <1>1, <1>2, <1>5 DEF RowTypes
<1>. QED
  BY <1>1, <1>2, <1>6, <1>7, <1>8, TicksKept, RowsKept DEF IInv, Types

LEMMA ReadTaskInv == ASSUME IInv, ReadTask PROVE IInv'
<1>1. /\ Types /\ RowTypes /\ RunTypes /\ worker.run \in DOMAIN runs
      /\ worker \in [pc: {"idle", "read", "write", "quiet"}, run: Nat, seen: Nat]
      /\ runs \in Seq(RunRow) /\ task \in [Tasks -> TaskRow]
  BY DEF IInv, Types, RowTypes, RunTypes, ReadTask
<1>2. UNCHANGED <<clock, task, fires, tick, reply, replies, faults, served, told>>
  BY DEF ReadTask
<1>3. /\ runs' \in Seq(RunRow) /\ DOMAIN runs' = DOMAIN runs
      /\ \A j \in DOMAIN runs' : runs'[j].tag \in {runs'[j].task, NoTask}
  <2>1. runs' = runs \/ runs' = [runs EXCEPT ![worker.run].state = "uncounted"]
    BY DEF ReadTask
  <2>2. "uncounted" \in RunStates
    BY DEF RunStates
  <2>3. CASE runs' = runs
    BY <1>1, <2>3 DEF RunTypes
  <2>4. CASE runs' = [runs EXCEPT ![worker.run].state = "uncounted"]
    BY <1>1, <2>2, <2>4, RunStateChanges
  <2>. QED
    BY <2>1, <2>3, <2>4
<1>4. /\ worker' \in [pc: {"idle", "read", "write", "quiet"}, run: Nat, seen: Nat]
      /\ worker'.pc # "idle" => worker'.run = worker.run
  <2>. DEFINE t == runs[worker.run].tag
  <2>1. \/ worker' = IdleWorker
        \/ (t # NoTask /\ worker' = [worker EXCEPT !.pc = "write", !.seen = task[t].unanswered])
    BY DEF ReadTask
  <2>0. runs[worker.run] \in RunRow
    BY <1>1
  <2>2. t # NoTask => t \in Tasks
    BY <2>0 DEF RunRow
  <2>. HIDE DEF t
  <2>3. t # NoTask => task[t].unanswered \in Nat
    BY <1>1, <2>2 DEF TaskRow
  <2>4. CASE worker' = IdleWorker
    BY <2>4 DEF IdleWorker
  <2>5. CASE t # NoTask /\ worker' = [worker EXCEPT !.pc = "write", !.seen = task[t].unanswered]
    <3>. DEFINE count == task[t].unanswered
    <3>1. count \in Nat /\ worker' = [worker EXCEPT !.pc = "write", !.seen = count]
      BY <2>3, <2>5
    <3>. HIDE DEF count
    <3>. QED
      BY <1>1, <3>1
  <2>. QED
    BY <2>1, <2>4, <2>5
<1>5. RunTypes'
  BY <1>1, <1>3, <1>4 DEF RunTypes
<1>6. RowTypes'
  BY <1>1, <1>2 DEF RowTypes
<1>. QED
  BY <1>1, <1>2, <1>3, <1>5, <1>6, TicksKept, RowsKept DEF IInv, Types
\* The worker's update of a task: of a row that no tick holds.
LEMMA WriteTaskRows ==
    ASSUME IInv, WriteTask
    PROVE  /\ task' \in [Tasks -> TaskRow] /\ fires' \in [Tasks -> [FireKinds -> Nat]]
           /\ \A u \in Tasks :
                 \/ task'[u] = task[u]
                 \/ u \notin Locked /\ task'[u].next = task[u].next
                    /\ task'[u].status \in {task[u].status, "paused", "deleted"}
<1>. DEFINE t == runs[worker.run].tag
            count == worker.seen + 1
            counted == [task EXCEPT ![t].unanswered = count]
            paused == [counted EXCEPT ![t].status = "paused"]
<1>1. /\ Types /\ RowTypes /\ RunTypes /\ worker.run \in DOMAIN runs
      /\ worker \in [pc: {"idle", "read", "write", "quiet"}, run: Nat, seen: Nat]
      /\ runs \in Seq(RunRow) /\ task \in [Tasks -> TaskRow]
      /\ fires \in [Tasks -> [FireKinds -> Nat]]
  BY DEF IInv, Types, RowTypes, RunTypes, WriteTask
<1>3. /\ runs[worker.run] \in RunRow /\ t \in {runs[worker.run].task, NoTask}
      /\ runs[worker.run].task \notin Locked
  BY <1>1 DEF RunTypes, WriteTask
<1>4. t # NoTask => t \in Tasks /\ t \notin Locked
  BY <1>3 DEF RunRow
<1>5. count \in Nat
  BY <1>1
<1>6. \/ task' = task /\ fires' = fires
      \/ t # NoTask /\ task' = counted /\ fires' = fires
      \/ t # NoTask /\ task' = paused /\ fires' = [fires EXCEPT ![t]["paused"] = @ + 1]
  BY DEF WriteTask
<1>. HIDE DEF t, count
<1>10. /\ task' \in [Tasks -> TaskRow]
       /\ \A u \in Tasks :
             \/ task'[u] = task[u]
             \/ u \notin Locked /\ task'[u].next = task[u].next
                /\ task'[u].status \in {task[u].status, "paused", "deleted"}
  <2>1. CASE task' = task
    BY <1>1, <2>1
  <2>2. CASE t # NoTask /\ (task' = counted \/ task' = paused)
    <3>0. t \in Tasks /\ t \notin Locked
      BY <1>4, <2>2
    <3>1. /\ counted \in [Tasks -> TaskRow]
          /\ counted[t].status = task[t].status /\ counted[t].next = task[t].next
          /\ \A u \in Tasks \ {t} : counted[u] = task[u]
      BY <1>1, <1>5, <3>0, SetUnanswered
    <3>. HIDE DEF counted
    <3>2. /\ paused \in [Tasks -> TaskRow]
          /\ paused[t].status = "paused" /\ paused[t].next = counted[t].next
          /\ \A u \in Tasks \ {t} : paused[u] = counted[u]
      BY <3>0, <3>1, SetStatus
    <3>. HIDE DEF paused
    <3>. QED
      BY <2>2, <3>0, <3>1, <3>2
  <2>. QED
    BY <1>6, <2>1, <2>2
<1>11. fires' \in [Tasks -> [FireKinds -> Nat]]
  <2>1. t # NoTask => [fires EXCEPT ![t]["paused"] = @ + 1] \in [Tasks -> [FireKinds -> Nat]]
    BY <1>1, <1>4, FireCounted DEF FireKinds
  <2>. QED
    BY <1>1, <1>6, <2>1
<1>. QED
  BY <1>10, <1>11

LEMMA WriteTaskInv == ASSUME IInv, WriteTask PROVE IInv'
<1>1. /\ Types /\ RowTypes /\ RunTypes /\ worker.run \in DOMAIN runs
  BY DEF IInv, Types, RowTypes, RunTypes, WriteTask
<1>2. UNCHANGED <<clock, tick, reply, replies, faults, served, told>> /\ worker' = IdleWorker
  BY DEF WriteTask
<1>7. \/ runs' = [runs EXCEPT ![worker.run].state = "counted"]
      \/ runs' = [runs EXCEPT ![worker.run].state = "uncounted"]
  BY DEF WriteTask
<1>8. /\ runs' \in Seq(RunRow) /\ DOMAIN runs' = DOMAIN runs
      /\ \A j \in DOMAIN runs' : runs'[j].tag \in {runs'[j].task, NoTask}
  <2>1. {"counted", "uncounted"} \subseteq RunStates
    BY DEF RunStates
  <2>. QED
    BY <1>1, <1>7, <2>1, RunStateChanges
<1>9. RunTypes'
  BY <1>2, <1>8 DEF RunTypes, IdleWorker
<1>12. RowTypes'
  BY <1>1, <1>2, WriteTaskRows DEF RowTypes
<1>13. Held' /\ Counted' /\ NoFaults'
  BY <1>2, WriteTaskRows, RowsChange
<1>. QED
  BY <1>1, <1>2, <1>8, <1>9, <1>12, <1>13, TicksKept DEF IInv, Types

LEMMA LogQuietExitInv == ASSUME IInv, LogQuietExit PROVE IInv'
<1>. DEFINE t == runs[worker.run].tag
<1>1. /\ Types /\ RowTypes /\ RunTypes /\ worker.run \in DOMAIN runs
      /\ runs \in Seq(RunRow) /\ fires \in [Tasks -> [FireKinds -> Nat]]
  BY DEF IInv, Types, RowTypes, RunTypes, LogQuietExit
<1>2. UNCHANGED <<clock, task, runs, tick, reply, replies, faults, served, told>> /\ worker' = IdleWorker
  BY DEF LogQuietExit
<1>3. runs[worker.run] \in RunRow
  BY <1>1
<1>4. t # NoTask => t \in Tasks
  BY <1>3 DEF RunRow
<1>5. fires' = fires \/ (t # NoTask /\ fires' = [fires EXCEPT ![t]["agent_quiet_exited"] = @ + 1])
  BY DEF LogQuietExit
<1>. HIDE DEF t
<1>6. fires' \in [Tasks -> [FireKinds -> Nat]]
  <2>1. t # NoTask => [fires EXCEPT ![t]["agent_quiet_exited"] = @ + 1] \in [Tasks -> [FireKinds -> Nat]]
    BY <1>1, <1>4, FireCounted DEF FireKinds
  <2>. QED
    BY <1>1, <1>5, <2>1
<1>7. RowTypes'
  BY <1>1, <1>2, <1>6 DEF RowTypes
<1>8. RunTypes'
  BY <1>1, <1>2 DEF RunTypes, IdleWorker
<1>. QED
  BY <1>1, <1>2, <1>7, <1>8, TicksKept, RowsKept DEF IInv, Types

LEMMA ReadCountersInv == ASSUME IInv, ReadCounters PROVE IInv'
<1>1. /\ Types /\ RowTypes /\ RunTypes
      /\ UNCHANGED <<clock, task, fires, runs, tick, worker, faults, served, told>>
  BY DEF IInv, Types, ReadCounters
<1>2. reply' \subseteq Tasks /\ replies' \in 0..MaxReplies
  BY <1>1, ScheduledTasksAssumption DEF RowTypes, ReadCounters, Unanswered
<1>3. RowTypes'
  BY <1>1, <1>2 DEF RowTypes
<1>4. RunTypes'
  BY <1>1 DEF RunTypes
<1>. QED
  BY <1>1, <1>3, <1>4, TicksKept, RowsKept DEF IInv, Types

LEMMA WriteCountersInv == ASSUME IInv, WriteCounters PROVE IInv'
<1>1. /\ Types /\ RowTypes /\ RunTypes /\ task \in [Tasks -> TaskRow] /\ told \in [Tasks -> Nat]
      /\ UNCHANGED <<clock, fires, runs, tick, worker, replies, faults, served>>
      /\ reply' = {} /\ reply \cap Locked = {}
  BY DEF IInv, Types, RowTypes, WriteCounters
<1>2. \/ UNCHANGED <<task, told>>
      \/ /\ task' = [t \in Tasks |-> IF t \in reply THEN [task[t] EXCEPT !.unanswered = 0] ELSE task[t]]
         /\ told' = [t \in Tasks |-> 0]
  BY DEF WriteCounters
<1>3. told' \in [Tasks -> Nat]
  BY <1>1, <1>2
<1>4. ASSUME NEW u \in Tasks
      PROVE  /\ task'[u] \in TaskRow
             /\ \/ task'[u] = task[u]
                \/ u \notin Locked /\ task'[u].next = task[u].next /\ task'[u].status = task[u].status
  <2>1. task[u] \in TaskRow
    BY <1>1
  <2>2. \/ task'[u] = task[u]
        \/ u \in reply /\ task'[u] = [task[u] EXCEPT !.unanswered = 0]
    BY <1>2
  <2>. QED
    BY <1>1, <2>1, <2>2 DEF TaskRow
<1>5. task' \in [Tasks -> TaskRow]
  BY <1>1, <1>2, <1>4
<1>6. RowTypes'
  BY <1>1, <1>3, <1>5 DEF RowTypes
<1>7. RunTypes'
  BY <1>1 DEF RunTypes
<1>8. Held' /\ Counted' /\ NoFaults'
  BY <1>1, <1>4, RowsChange
<1>. QED
  BY <1>1, <1>6, <1>7, <1>8, TicksKept DEF IInv, Types

LEMMA MinuteInv == ASSUME IInv, Minute PROVE IInv'
<1>1. /\ Types /\ RowTypes /\ RunTypes
      /\ UNCHANGED <<task, fires, runs, tick, worker, reply, replies, faults, served, told>>
  BY DEF IInv, Types, Minute
<1>2. clock' \in 0..Horizon
  BY <1>1, TimesAreNat DEF RowTypes, Minute
<1>3. RowTypes' /\ RunTypes'
  BY <1>1, <1>2 DEF RowTypes, RunTypes
<1>. QED
  BY <1>1, <1>3, TicksKept, RowsKept DEF IInv, Types

-----------------------------------------------------------------------------
(* The beginning and the end of a tick.                                    *)

LEMMA OneTick ==
    ASSUME Types, NEW k \in Ticks, NEW x \in TickState, tick' = [tick EXCEPT ![k] = x],
           x.todo \subseteq DOMAIN x.rows, x.tags \subseteq (DOMAIN runs) \X Tasks,
           DOMAIN runs' = DOMAIN runs
    PROVE  TickTypes' /\ tick'[k] = x /\ \A j \in Ticks \ {k} : tick'[j] = tick[j]
<1>1. tick \in [Ticks -> TickState] /\ \A j \in Ticks : TickOK(tick[j])
  BY DEF Types, TickTypes
<1>2. tick' \in [Ticks -> TickState] /\ tick'[k] = x /\ \A j \in Ticks \ {k} : tick'[j] = tick[j]
  BY <1>1
<1>. QED
  BY <1>1, <1>2 DEF TickTypes, TickOK

\* The rows a tick locks are due and free.
LEMMA BeginTickInv == ASSUME IInv, NEW k \in Ticks, NEW now \in 0..clock, BeginTick(k, now) PROVE IInv'
<1>. DEFINE taken == Due(now) \ Locked
            rows == [t \in taken |-> task[t]]
            x == [IdleTick EXCEPT !.now = now, !.todo = taken, !.rows = rows]
<1>1. /\ Types /\ RowTypes /\ RunTypes /\ task \in [Tasks -> TaskRow] /\ now \in 0..Horizon
      /\ UNCHANGED <<clock, task, fires, runs, worker, reply, replies, faults, served, told>>
      /\ tick[k] = IdleTick
  BY TimesAreNat DEF IInv, Types, RowTypes, BeginTick
<1>2. tick' = [tick EXCEPT ![k] = x]
  BY DEF BeginTick
<1>3. /\ taken \subseteq Tasks
      /\ \A t \in taken : task[t].status = "active" /\ task[t].next <= now /\ t \notin Locked
  BY DEF Due
<1>4. rows \in Rows /\ DOMAIN rows = taken /\ \A t \in taken : rows[t] = task[t]
  <2>1. rows \in [taken -> TaskRow]
    BY <1>1, <1>3
  <2>. QED
    BY <1>3, <2>1 DEF Rows
<1>. HIDE DEF taken, rows
<1>5. x \in TickState /\ x.todo = taken /\ x.rows = rows /\ x.now = now /\ x.tags = {}
  <2>. DEFINE e1 == [IdleTick EXCEPT !.now = now]
              e2 == [e1 EXCEPT !.todo = taken]
              e3 == [e2 EXCEPT !.rows = rows]
  <2>1. x = e3
    OBVIOUS
  <2>2. e1 \in TickState /\ e1.now = now /\ e1.tags = {}
    BY <1>1, Idle DEF TickState
  <2>. HIDE DEF e1
  <2>3. e2 \in TickState /\ e2.now = now /\ e2.tags = {} /\ e2.todo = taken
    BY <1>3, <2>2 DEF TickState
  <2>. HIDE DEF e2
  <2>4. e3 \in TickState /\ e3.now = now /\ e3.tags = {} /\ e3.todo = taken /\ e3.rows = rows
    BY <1>4, <2>3 DEF TickState
  <2>. HIDE DEF e3, x
  <2>. QED
    BY <2>1, <2>4
<1>. HIDE DEF x
<1>6. TickTypes' /\ tick'[k] = x /\ \A j \in Ticks \ {k} : tick'[j] = tick[j]
  BY <1>1, <1>2, <1>4, <1>5, OneTick
<1>7. RowTypes' /\ RunTypes'
  BY <1>1 DEF RowTypes, RunTypes
<1>8. Held'
  <2>1. ASSUME NEW j \in Ticks, NEW t \in DOMAIN tick'[j].rows PROVE HeldRow(j, t)'
    <3>1. CASE j = k
      <4>1. task[t].next \in Nat
        BY <1>1, <1>3, <1>4, <1>5, <1>6, <2>1, <3>1, TimesAreNat DEF TaskRow
      <4>. QED
        BY <1>1, <1>3, <1>4, <1>5, <1>6, <2>1, <3>1, <4>1 DEF HeldRow
    <3>2. CASE j # k
      BY <1>1, <1>6, <2>1, <3>2 DEF IInv, Held, HeldRow
    <3>. QED
      BY <3>1, <3>2
  <2>2. \A t \in DOMAIN tick'[k].rows : \A j \in Ticks \ {k} : t \notin DOMAIN tick'[j].rows
    BY <1>3, <1>4, <1>5, <1>6, NotLocked
  <2>3. \A j, i \in Ticks : \A t \in DOMAIN tick'[j].rows : t \in DOMAIN tick'[i].rows => j = i
    BY <1>6, <2>2 DEF IInv, Held
  <2>. QED
    BY <2>1, <2>3 DEF Held
<1>9. Counted'
  <2>1. \A t \in Tasks : \A n \in Times : Past(t, n) => Past(t, n)'
    BY <1>1, <1>6, Idle DEF Past, Left
  <2>2. served \in [Tasks -> [Times -> Nat]] /\ faults \in Nat
    BY <1>1, ScheduledTasksAssumption DEF RowTypes
  <2>. QED
    BY <1>1, <2>1, <2>2 DEF IInv, Counted
<1>. QED
  BY <1>1, <1>6, <1>7, <1>8, <1>9 DEF IInv, Types, NoFaults

\* What a tick served without a commit may be served again, for the fault that ended it.
LEMMA AbortInv == ASSUME IInv, NEW k \in Ticks, Abort(k) PROVE IInv'
<1>1. /\ Types /\ RowTypes /\ RunTypes /\ NoFaults
      /\ UNCHANGED <<clock, task, fires, runs, worker, reply, replies, served, told>>
      /\ tick' = [tick EXCEPT ![k] = IdleTick]
  BY DEF IInv, Types, Abort
<1>2. faults' = faults + 1 /\ faults' \in 0..MaxFaults /\ NoFaults'
  BY <1>1, FaultCounts DEF Abort
<1>3. TickTypes' /\ tick'[k] = IdleTick /\ \A j \in Ticks \ {k} : tick'[j] = tick[j]
  BY <1>1, Idle, OneTick
<1>4. RowTypes' /\ RunTypes'
  BY <1>1, <1>2 DEF RowTypes, RunTypes
<1>5. Held'
  BY <1>1, <1>3, Idle DEF IInv, Held, HeldRow
<1>6. Counted'
  <2>1. served \in [Tasks -> [Times -> Nat]] /\ faults \in Nat
    BY <1>1, ScheduledTasksAssumption DEF RowTypes
  <2>2. ASSUME NEW t \in Tasks, NEW n \in Times
        PROVE  served[t][n] <= faults + 1 /\ (task[t].status = "absent" => served[t][n] = 0)
    <3>1. served[t][n] \in Nat
      BY <2>1
    <3>. QED
      BY <2>1, <3>1 DEF IInv, Counted
  <2>. QED
    BY <1>1, <1>2, <2>1, <2>2 DEF Counted
<1>. QED
  BY <1>2, <1>3, <1>4, <1>5, <1>6 DEF IInv, Types

LEMMA CommitTickInv == ASSUME IInv, NEW k \in Ticks, CommitTick(k) PROVE IInv'
<1>. DEFINE held == DOMAIN tick[k].rows
<1>1. /\ Types /\ RowTypes /\ RunTypes /\ NoFaults
      /\ task \in [Tasks -> TaskRow] /\ fires \in [Tasks -> [FireKinds -> Nat]] /\ runs \in Seq(RunRow)
      /\ UNCHANGED <<clock, worker, reply, replies, faults, served, told>>
      /\ tick' = [tick EXCEPT ![k] = IdleTick]
      /\ task' = [t \in Tasks |-> IF t \in DOMAIN tick[k].rows THEN tick[k].rows[t] ELSE task[t]]
  BY DEF IInv, Types, RowTypes, RunTypes, CommitTick
<1>2. PICK D \in SUBSET Tasks : tick[k].rows \in [D -> TaskRow]
  <2>1. tick[k] \in TickState
    BY <1>1 DEF Types, TickTypes
  <2>. QED
    BY <2>1 DEF TickState, Rows
<1>3. held = D /\ \A t \in held : t \in Tasks /\ tick[k].rows[t] \in TaskRow
  BY <1>2
<1>4. task' \in [Tasks -> TaskRow]
  BY <1>1, <1>3
<1>5. fires' \in [Tasks -> [FireKinds -> Nat]]
  <2>1. fires' = [t \in Tasks |-> [f \in FireKinds |->
                    fires[t][f] + IF f \in tick[k].fires[t] THEN 1 ELSE 0]]
    BY DEF CommitTick
  <2>2. \A t \in Tasks : \A f \in FireKinds :
           fires[t][f] + (IF f \in tick[k].fires[t] THEN 1 ELSE 0) \in Nat
    BY <1>1
  <2>. QED
    BY <2>1, <2>2
<1>6. RowTypes'
  BY <1>1, <1>4, <1>5 DEF RowTypes
<1>7. ASSUME NEW i \in DOMAIN runs
      PROVE  runs'[i] \in RunRow /\ runs'[i].tag \in {runs'[i].task, NoTask}
  <2>1. runs[i] \in RunRow /\ runs[i].tag \in {runs[i].task, NoTask}
    BY <1>1 DEF RunTypes
  <2>2. \/ runs'[i] = [runs[i] EXCEPT !.tag = runs[i].task]
        \/ runs'[i] = runs[i]
    BY DEF CommitTick
  <2>. QED
    BY <2>1, <2>2 DEF RunRow
<1>8. runs' \in [DOMAIN runs -> RunRow]
  BY <1>7 DEF CommitTick
<1>9. runs' \in Seq(RunRow) /\ DOMAIN runs' = DOMAIN runs
  BY <1>1, <1>8, SameLength
<1>10. RunTypes'
  BY <1>1, <1>7, <1>9 DEF RunTypes
<1>11. TickTypes' /\ tick'[k] = IdleTick /\ \A j \in Ticks \ {k} : tick'[j] = tick[j]
  BY <1>1, <1>9, Idle, OneTick
<1>12. \A j \in Ticks \ {k} : \A t \in DOMAIN tick[j].rows : t \notin held
  BY DEF IInv, Held
<1>13. \A j \in Ticks : DOMAIN tick[j].rows \subseteq Tasks
  <2>1. \A j \in Ticks : tick[j] \in TickState
    BY <1>1 DEF Types, TickTypes
  <2>. QED
    BY <2>1 DEF TickState, Rows
<1>. HIDE DEF held
<1>14. Held'
  <2>1. ASSUME NEW j \in Ticks, NEW t \in DOMAIN tick'[j].rows PROVE HeldRow(j, t)'
    <3>1. j # k /\ tick'[j] = tick[j]
      BY <1>11, <2>1, Idle
    <3>2. t \in Tasks /\ task'[t] = task[t] /\ HeldRow(j, t)
      BY <1>1, <1>12, <1>13, <2>1, <3>1 DEF held, IInv, Held
    <3>. QED
      BY <3>1, <3>2 DEF HeldRow
  <2>2. \A j, i \in Ticks : \A t \in DOMAIN tick'[j].rows : t \in DOMAIN tick'[i].rows => j = i
    BY <1>11, Idle DEF IInv, Held
  <2>. QED
    BY <2>1, <2>2 DEF Held
<1>15. Counted'
  <2>0. served \in [Tasks -> [Times -> Nat]] /\ faults \in Nat
    BY <1>1, ScheduledTasksAssumption DEF RowTypes
  <2>1. ASSUME NEW t \in Tasks, NEW n \in Times, Past(t, n) PROVE Past(t, n)'
    <3>1. CASE t \in held
      <4>1. HeldRow(k, t) /\ task'[t] = tick[k].rows[t]
        BY <1>1, <3>1 DEF held, IInv, Held
      <4>2. task[t].next \in Nat /\ tick[k].rows[t].next \in Nat /\ n \in Nat
        BY <1>1, <1>3, <3>1, TimesAreNat DEF TaskRow
      <4>3. Left(task[t], n) \/ Left(tick[k].rows[t], n)
        BY <1>12, <2>1, <3>1 DEF Past
      <4>4. Left(task'[t], n)
        BY <4>1, <4>2, <4>3 DEF HeldRow, Left
      <4>. QED
        BY <4>4 DEF Past, Left
    <3>2. CASE t \notin held
      <4>1. task'[t] = task[t]
        BY <1>1, <3>2 DEF held
      <4>. QED
        BY <1>11, <2>1, <3>2, <4>1 DEF Past, Left, held
    <3>. QED
      BY <3>1, <3>2
  <2>2. ASSUME NEW t \in Tasks PROVE task'[t].status = "absent" => task[t].status = "absent"
    <3>1. CASE t \in held
      <4>1. HeldRow(k, t) /\ task'[t] = tick[k].rows[t]
        BY <1>1, <3>1 DEF held, IInv, Held
      <4>2. tick[k].rows[t].status # "absent"
        BY <4>1 DEF HeldRow
      <4>. QED
        BY <4>1, <4>2
    <3>2. CASE t \notin held
      BY <1>1, <3>2 DEF held
    <3>. QED
      BY <3>1, <3>2
  <2>3. ASSUME NEW t \in Tasks, NEW n \in Times
        PROVE  /\ served[t][n] <= faults + IF Past(t, n)' THEN 1 ELSE 0
               /\ task'[t].status = "absent" => served[t][n] = 0
    <3>1. served[t][n] \in Nat /\ served[t][n] <= faults + IF Past(t, n) THEN 1 ELSE 0
      BY <2>0 DEF IInv, Counted
    <3>. QED
      BY <2>0, <2>1, <2>2, <2>3, <3>1 DEF IInv, Counted
  <2>. QED
    BY <1>1, <2>3 DEF Counted
<1>. QED
  BY <1>1, <1>6, <1>10, <1>11, <1>14, <1>15 DEF IInv, Types, NoFaults

LEMMA NextInv == IInv /\ [Next]_vars => IInv'
<1>. SUFFICES ASSUME IInv, [Next]_vars PROVE IInv'
  OBVIOUS
<1>1. ASSUME NEW t \in Tasks, Create(t) \/ Delete(t) PROVE IInv'
  BY <1>1, CreateInv, DeleteInv
<1>2. ASSUME NEW k \in Ticks, NEW now \in 0..clock, BeginTick(k, now) PROVE IInv'
  BY <1>2, BeginTickInv
<1>3. ASSUME NEW k \in Ticks, TickStep(k) PROVE IInv'
  BY <1>3, RowStepInv, CommitTickInv DEF TickStep, RowStep
<1>4. ASSUME NEW k \in Ticks, Abort(k) PROVE IInv'
  BY <1>4, AbortInv
<1>5. CASE Worker
  BY <1>5, ExecuteRunInv, ReadTaskInv, WriteTaskInv, LogQuietExitInv DEF Worker
<1>6. CASE ReadCounters \/ WriteCounters \/ Minute
  BY <1>6, ReadCountersInv, WriteCountersInv, MinuteInv
<1>7. CASE UNCHANGED vars
  <2>1. /\ Types /\ RowTypes /\ RunTypes
        /\ UNCHANGED <<clock, task, fires, runs, tick, worker, reply, replies, faults, served, told>>
    BY <1>7 DEF IInv, Types, vars
  <2>2. RowTypes' /\ RunTypes'
    BY <2>1 DEF RowTypes, RunTypes
  <2>. QED
    BY <2>1, <2>2, TicksKept, RowsKept DEF IInv, Types
<1>. QED
  BY <1>1, <1>2, <1>3, <1>4, <1>5, <1>6, <1>7 DEF Next

LEMMA Invariance == Spec => []IInv
  BY InitInv, NextInv, PTL DEF Spec

-----------------------------------------------------------------------------
(* The audit log.                                                          *)

\* The runs that refer to a task.
Tagged(t) == {i \in DOMAIN runs : runs[i].tag = t}

\* A tick that logs a dispatch of task t brings the tag of one run of the task, which has
\* none yet; a tick that does not log it brings no tag.
Marks(k, t) ==
    IF "continued" \in tick[k].fires[t]
    THEN /\ t \in (DOMAIN tick[k].rows) \ tick[k].todo
         /\ \E i \in DOMAIN runs :
               /\ runs[i].task = t /\ runs[i].tag = NoTask
               /\ \A j \in DOMAIN runs : <<j, t>> \in tick[k].tags <=> j = i
    ELSE \A j \in DOMAIN runs : <<j, t>> \notin tick[k].tags

\* The log has as many dispatches as there are runs that refer to the task.
Logged(t) == fires[t]["continued"] = Cardinality(Tagged(t))

AuditInv ==
    /\ \A t \in Tasks : Logged(t)
    /\ \A k \in Ticks : \A t \in Tasks : Marks(k, t)

AuditIInv == IInv /\ AuditInv

LEMMA TaggedFinite ==
    ASSUME RunTypes, NEW t
    PROVE  IsFiniteSet(Tagged(t)) /\ Cardinality(Tagged(t)) \in Nat
<1>1. Len(runs) \in Nat /\ DOMAIN runs = 1..Len(runs)
  BY DEF RunTypes
<1>2. IsFiniteSet(1..Len(runs))
  BY <1>1, FS_Interval
<1>3. Tagged(t) \subseteq 1..Len(runs)
  BY <1>1 DEF Tagged
<1>4. IsFiniteSet(Tagged(t))
  BY <1>2, <1>3, FS_Subset
<1>. QED
  BY <1>4, FS_CardinalityType

\* What a tick has still to tag stays so, in a step that keeps the tick and tags no run of
\* the task.
LEMMA MarksKept ==
    ASSUME Types, NEW k \in Ticks, NEW t \in Tasks, Marks(k, t), tick'[k] = tick[k],
           DOMAIN runs \subseteq DOMAIN runs',
           \A i \in DOMAIN runs :
              /\ runs'[i].task = runs[i].task
              /\ runs[i].task = t /\ runs[i].tag = NoTask => runs'[i].tag = NoTask
    PROVE  Marks(k, t)'
<1>1. \A j : <<j, t>> \in tick[k].tags => j \in DOMAIN runs
  BY DEF Types, TickTypes, TickOK
<1>2. CASE "continued" \in tick[k].fires[t]
  <2>1. PICK i \in DOMAIN runs :
           /\ runs[i].task = t /\ runs[i].tag = NoTask
           /\ \A j \in DOMAIN runs : <<j, t>> \in tick[k].tags <=> j = i
    BY <1>2 DEF Marks
  <2>2. i \in DOMAIN runs' /\ runs'[i].task = t /\ runs'[i].tag = NoTask
    BY <2>1
  <2>3. \A j \in DOMAIN runs' : <<j, t>> \in tick'[k].tags <=> j = i
    BY <1>1, <2>1
  <2>4. t \in (DOMAIN tick'[k].rows) \ tick'[k].todo /\ "continued" \in tick'[k].fires[t]
    BY <1>2 DEF Marks
  <2>. QED
    BY <2>2, <2>3, <2>4 DEF Marks
<1>3. CASE "continued" \notin tick[k].fires[t]
  <2>1. \A j \in DOMAIN runs : <<j, t>> \notin tick[k].tags
    BY <1>3 DEF Marks
  <2>2. \A j \in DOMAIN runs' : <<j, t>> \notin tick'[k].tags
    BY <1>1, <2>1
  <2>. QED
    BY <1>3, <2>2 DEF Marks
<1>. QED
  BY <1>2, <1>3

LEMMA LoggedKept ==
    ASSUME Types, NEW t \in Tasks, Logged(t), DOMAIN runs \subseteq DOMAIN runs',
           fires'[t]["continued"] = fires[t]["continued"],
           \A i \in DOMAIN runs : runs'[i].tag = t <=> runs[i].tag = t,
           \A i \in DOMAIN runs' : i \notin DOMAIN runs => runs'[i].tag = NoTask
    PROVE  Logged(t)'
<1>1. Tagged(t)' = Tagged(t)
  BY ScheduledTasksAssumption DEF Tagged
<1>. QED
  BY <1>1 DEF Logged

\* Steps that change no tick, tag or dispatch of the log.
LEMMA AuditKept ==
    ASSUME AuditIInv, tick' = tick, DOMAIN runs' = DOMAIN runs,
           \A i \in DOMAIN runs : runs'[i].task = runs[i].task /\ runs'[i].tag = runs[i].tag,
           \A t \in Tasks : fires'[t]["continued"] = fires[t]["continued"]
    PROVE  AuditInv'
<1>1. Types
  BY DEF AuditIInv, IInv
<1>2. ASSUME NEW t \in Tasks PROVE Logged(t)'
  <2>1. Logged(t)
    BY DEF AuditIInv, AuditInv
  <2>. QED
    BY <1>1, <2>1, LoggedKept
<1>3. ASSUME NEW k \in Ticks, NEW t \in Tasks PROVE Marks(k, t)'
  <2>1. Marks(k, t)
    BY DEF AuditIInv, AuditInv
  <2>. QED
    BY <1>1, <2>1, MarksKept
<1>. QED
  BY <1>2, <1>3 DEF AuditInv

\* Handling row t: what the tick logs and tags.
LEMMA HandledMarks ==
    ASSUME Types, NEW k \in Ticks, NEW t \in tick[k].todo, NEW row, NEW new, NEW tags,
           Handled(k, t, row, new, tags)
    PROVE  /\ tick'[k].todo = tick[k].todo \ {t}
           /\ DOMAIN tick'[k].rows = DOMAIN tick[k].rows
           /\ tick'[k].fires[t] = new
           /\ \A u \in Tasks \ {t} : tick'[k].fires[u] = tick[k].fires[u]
           /\ tick'[k].tags = tick[k].tags \cup tags
           /\ \A j \in Ticks \ {k} : tick'[j] = tick[j]
<1>. DEFINE d == tick[k]
            todo == d.todo \ {t}
            rows == [d.rows EXCEPT ![t] = row]
            logged == [d.fires EXCEPT ![t] = new]
            all == d.tags \cup tags
            e == [d EXCEPT !.todo = todo, !.rows = rows, !.fires = logged, !.tags = all]
<1>1. d \in TickState /\ t \in Tasks /\ tick \in [Ticks -> TickState]
  BY DEF Types, TickTypes, TickState
<1>2. tick' = [tick EXCEPT ![k] = e]
  BY DEF Handled
<1>3. DOMAIN rows = DOMAIN d.rows
  OBVIOUS
<1>4. logged[t] = new /\ \A u \in Tasks \ {t} : logged[u] = d.fires[u]
  BY <1>1 DEF TickState
<1>. HIDE DEF d, rows, logged, all
<1>5. e.todo = todo /\ e.rows = rows /\ e.fires = logged /\ e.tags = all
  BY <1>1 DEF TickState
<1>. HIDE DEF e
<1>6. tick'[k] = e /\ \A j \in Ticks \ {k} : tick'[j] = tick[j]
  BY <1>1, <1>2
<1>. QED
  BY <1>3, <1>4, <1>5, <1>6 DEF d, all

\* A row that is handled either was dispatched, in a run of its own, or not.
LEMMA RowStepMarks ==
    ASSUME IInv, NEW k \in Ticks, NEW t \in Tasks, RowStep(k, t)
    PROVE  /\ t \in tick[k].todo /\ fires' = fires
           /\ \/ \E row, new : /\ Handled(k, t, row, new, {}) /\ "continued" \notin new
                               /\ runs' = runs \/ \E state \in RunStates : NewRun(t, state)
              \/ \E row : /\ Handled(k, t, row, {"continued"}, {<<Len(runs) + 1, t>>})
                          /\ NewRun(t, "queued")
<1>1. t \in tick[k].todo /\ fires' = fires
  BY RowStepEffect
<1>2. "jobless" \in RunStates
  BY DEF RunStates
<1>3. CASE CommandDeclines(k, t)
  BY <1>1, <1>3 DEF CommandDeclines
<1>4. CASE CommandFails(k, t)
  BY <1>1, <1>4 DEF CommandFails
<1>5. CASE SendDirect(k, t)
  <2>1. runs' = runs /\ \E row : \/ Handled(k, t, row, {"sent_direct", "paused"}, {})
                                 \/ Handled(k, t, row, {"sent_direct"}, {})
    BY <1>5 DEF SendDirect
  <2>2. "continued" \notin {"sent_direct", "paused"} /\ "continued" \notin {"sent_direct"}
    OBVIOUS
  <2>. QED
    BY <1>1, <2>1, <2>2
<1>6. CASE DirectFails(k, t)
  BY <1>1, <1>6 DEF DirectFails
<1>7. CASE Dispatch(k, t)
  BY <1>1, <1>7 DEF Dispatch
<1>8. CASE DispatchFails(k, t)
  BY <1>1, <1>2, <1>8 DEF DispatchFails
<1>. QED
  BY <1>3, <1>4, <1>5, <1>6, <1>7, <1>8 DEF RowStep

\* The new row of a run.
LEMMA NewRunRow ==
    ASSUME RunTypes, NEW t \in Tasks, NEW state \in RunStates, NewRun(t, state)
    PROVE  /\ DOMAIN runs' = DOMAIN runs \cup {Len(runs) + 1} /\ Len(runs) + 1 \notin DOMAIN runs
           /\ \A i \in DOMAIN runs : runs'[i] = runs[i]
           /\ runs'[Len(runs) + 1].task = t /\ runs'[Len(runs) + 1].tag = NoTask
<1>. DEFINE r == [task |-> t, tag |-> NoTask, state |-> state]
<1>1. r \in RunRow /\ r.tag = NoTask /\ r.task = t
  BY DEF RunRow
<1>2. runs \in Seq(RunRow) /\ runs' = Append(runs, r)
  BY DEF RunTypes, NewRun
<1>. HIDE DEF r
<1>3. /\ DOMAIN Append(runs, r) = DOMAIN runs \cup {Len(runs) + 1}
      /\ Len(runs) + 1 \notin DOMAIN runs
      /\ \A i \in DOMAIN runs : Append(runs, r)[i] = runs[i]
      /\ Append(runs, r)[Len(runs) + 1] = r
  BY <1>1, <1>2
<1>. QED
  BY <1>1, <1>2, <1>3

LEMMA RowStepAudit ==
    ASSUME AuditIInv, NEW k \in Ticks, NEW t \in Tasks, RowStep(k, t)
    PROVE  AuditInv'
<1>0. IInv /\ Types /\ RunTypes
  BY DEF AuditIInv, IInv, Types
<1>1. /\ t \in tick[k].todo /\ fires' = fires
      /\ \/ \E row, new : /\ Handled(k, t, row, new, {}) /\ "continued" \notin new
                          /\ runs' = runs \/ \E state \in RunStates : NewRun(t, state)
         \/ \E row : /\ Handled(k, t, row, {"continued"}, {<<Len(runs) + 1, t>>})
                     /\ NewRun(t, "queued")
  BY <1>0, RowStepMarks
<1>2. PICK row, new, tags :
         /\ Handled(k, t, row, new, tags)
         /\ \/ /\ "continued" \notin new /\ tags = {}
               /\ runs' = runs \/ \E state \in RunStates : NewRun(t, state)
            \/ /\ new = {"continued"} /\ tags = {<<Len(runs) + 1, t>>} /\ NewRun(t, "queued")
  BY <1>1
<1>3. /\ tick'[k].todo = tick[k].todo \ {t}
      /\ DOMAIN tick'[k].rows = DOMAIN tick[k].rows
      /\ tick'[k].fires[t] = new
      /\ \A u \in Tasks \ {t} : tick'[k].fires[u] = tick[k].fires[u]
      /\ tick'[k].tags = tick[k].tags \cup tags
      /\ \A j \in Ticks \ {k} : tick'[j] = tick[j]
  BY <1>0, <1>1, <1>2, HandledMarks
<1>4. t \in DOMAIN tick[k].rows
  BY <1>0, <1>1 DEF Types, TickTypes, TickOK
<1>5. \A j \in DOMAIN runs : <<j, t>> \notin tick[k].tags
  BY <1>1 DEF AuditIInv, AuditInv, Marks
<1>6. /\ runs' = runs \/ \E state \in RunStates : NewRun(t, state)
  BY <1>2 DEF RunStates
<1>7. /\ DOMAIN runs \subseteq DOMAIN runs'
      /\ \A i \in DOMAIN runs : runs'[i] = runs[i]
      /\ \A i \in DOMAIN runs' : i \notin DOMAIN runs => runs'[i].tag = NoTask
  BY <1>0, <1>6, NewRunRow
<1>8. \A j, u : <<j, u>> \in tick[k].tags => j \in DOMAIN runs
  BY <1>0 DEF Types, TickTypes, TickOK
<1>9. ASSUME NEW u \in Tasks PROVE Logged(u)'
  <2>1. Logged(u)
    BY DEF AuditIInv, AuditInv
  <2>. QED
    BY <1>0, <1>1, <1>7, <2>1, LoggedKept
<1>10. Marks(k, t)'
  <2>1. CASE "continued" \notin new /\ tags = {}
    BY <1>3, <1>5, <1>8, <2>1 DEF Marks
  <2>2. CASE new = {"continued"} /\ tags = {<<Len(runs) + 1, t>>} /\ NewRun(t, "queued")
    <3>. DEFINE i == Len(runs) + 1
    <3>1. /\ i \in DOMAIN runs' /\ runs'[i].task = t /\ runs'[i].tag = NoTask
      BY <1>0, <2>2, NewRunRow DEF RunStates
    <3>. HIDE DEF i
    <3>2. \A j \in DOMAIN runs' : <<j, t>> \in tick'[k].tags <=> j = i
      BY <1>3, <1>5, <1>8, <2>2 DEF i
    <3>3. t \in (DOMAIN tick'[k].rows) \ tick'[k].todo /\ "continued" \in tick'[k].fires[t]
      BY <1>3, <1>4, <2>2
    <3>. QED
      BY <3>1, <3>2, <3>3 DEF Marks
  <2>. QED
    BY <1>2, <2>1, <2>2
<1>11. ASSUME NEW u \in Tasks \ {t} PROVE Marks(k, u)'
  <2>1. Marks(k, u)
    BY DEF AuditIInv, AuditInv
  <2>2. \A j : <<j, u>> \in tick'[k].tags <=> <<j, u>> \in tick[k].tags
    BY <1>2, <1>3
  <2>3. CASE "continued" \in tick[k].fires[u]
    <3>1. PICK i \in DOMAIN runs :
             /\ runs[i].task = u /\ runs[i].tag = NoTask
             /\ \A j \in DOMAIN runs : <<j, u>> \in tick[k].tags <=> j = i
      BY <2>1, <2>3 DEF Marks
    <3>2. i \in DOMAIN runs' /\ runs'[i].task = u /\ runs'[i].tag = NoTask
      BY <1>7, <3>1
    <3>3. \A j \in DOMAIN runs' : <<j, u>> \in tick'[k].tags <=> j = i
      BY <1>8, <2>2, <3>1
    <3>4. u \in (DOMAIN tick'[k].rows) \ tick'[k].todo /\ "continued" \in tick'[k].fires[u]
      BY <1>3, <2>1, <2>3 DEF Marks
    <3>. QED
      BY <3>2, <3>3, <3>4 DEF Marks
  <2>4. CASE "continued" \notin tick[k].fires[u]
    BY <1>3, <1>8, <2>1, <2>2, <2>4 DEF Marks
  <2>. QED
    BY <2>3, <2>4
<1>12. ASSUME NEW j \in Ticks \ {k}, NEW u \in Tasks PROVE Marks(j, u)'
  <2>1. Marks(j, u)
    BY DEF AuditIInv, AuditInv
  <2>. QED
    BY <1>0, <1>3, <1>7, <2>1, MarksKept
<1>. QED
  BY <1>9, <1>10, <1>11, <1>12 DEF AuditInv

\* A task that is deleted takes its log and the tags of its runs along.
LEMMA DeleteAudit == ASSUME AuditIInv, NEW t \in Tasks, Delete(t) PROVE AuditInv'
<1>0. /\ Types /\ RunTypes /\ runs \in Seq(RunRow) /\ fires \in [Tasks -> [FireKinds -> Nat]]
      /\ t # NoTask
  BY ScheduledTasksAssumption DEF AuditIInv, IInv, Types, RunTypes, RowTypes
<1>1. /\ fires' = [fires EXCEPT ![t] = [f \in FireKinds |-> 0]]
      /\ runs' = [i \in DOMAIN runs |->
                    IF runs[i].tag = t THEN [runs[i] EXCEPT !.tag = NoTask] ELSE runs[i]]
      /\ tick' = tick
  BY DEF Delete
<1>2. DOMAIN runs' = DOMAIN runs
  BY <1>1
<1>3. ASSUME NEW i \in DOMAIN runs
      PROVE  /\ runs'[i].task = runs[i].task
             /\ runs'[i].tag = IF runs[i].tag = t THEN NoTask ELSE runs[i].tag
  <2>1. runs[i] \in RunRow
    BY <1>0
  <2>2. runs'[i] = IF runs[i].tag = t THEN [runs[i] EXCEPT !.tag = NoTask] ELSE runs[i]
    BY <1>1
  <2>. QED
    BY <2>1, <2>2 DEF RunRow
<1>4. Logged(t)'
  <2>1. Tagged(t)' = {}
    BY <1>0, <1>2, <1>3 DEF Tagged
  <2>2. fires'[t]["continued"] = 0
    BY <1>0, <1>1 DEF FireKinds
  <2>. QED
    BY <2>1, <2>2, FS_EmptySet DEF Logged
<1>5. ASSUME NEW u \in Tasks \ {t} PROVE Logged(u)'
  <2>1. Logged(u) /\ u # NoTask
    BY ScheduledTasksAssumption DEF AuditIInv, AuditInv
  <2>2. fires'[u]["continued"] = fires[u]["continued"]
    BY <1>0, <1>1
  <2>3. \A i \in DOMAIN runs : runs'[i].tag = u <=> runs[i].tag = u
    BY <1>3, <2>1
  <2>. QED
    BY <1>0, <1>2, <2>1, <2>2, <2>3, LoggedKept
<1>6. ASSUME NEW k \in Ticks, NEW u \in Tasks PROVE Marks(k, u)'
  <2>1. Marks(k, u)
    BY DEF AuditIInv, AuditInv
  <2>. QED
    BY <1>0, <1>1, <1>2, <1>3, <2>1, MarksKept
<1>. QED
  BY <1>4, <1>5, <1>6 DEF AuditInv

\* A tick that begins or ends without a commit has logged and tagged nothing.
LEMMA IdleMarks ==
    ASSUME AuditIInv, NEW k \in Ticks, NEW x \in TickState, tick' = [tick EXCEPT ![k] = x],
           x.tags = {}, \A t \in Tasks : "continued" \notin x.fires[t], runs' = runs, fires' = fires
    PROVE  AuditInv'
<1>1. Types /\ tick \in [Ticks -> TickState]
  BY DEF AuditIInv, IInv, Types, TickTypes
<1>2. tick'[k] = x /\ \A j \in Ticks \ {k} : tick'[j] = tick[j]
  BY <1>1
<1>3. ASSUME NEW t \in Tasks PROVE Logged(t)'
  <2>1. Logged(t)
    BY DEF AuditIInv, AuditInv
  <2>. QED
    BY <1>1, <2>1, LoggedKept
<1>4. ASSUME NEW j \in Ticks \ {k}, NEW t \in Tasks PROVE Marks(j, t)'
  <2>1. Marks(j, t)
    BY DEF AuditIInv, AuditInv
  <2>. QED
    BY <1>1, <1>2, <2>1, MarksKept
<1>5. ASSUME NEW t \in Tasks PROVE Marks(k, t)'
  BY <1>2 DEF Marks
<1>. QED
  BY <1>3, <1>4, <1>5 DEF AuditInv

LEMMA BeginTickAudit ==
    ASSUME AuditIInv, NEW k \in Ticks, NEW now \in 0..clock, BeginTick(k, now)
    PROVE  AuditInv'
<1>. DEFINE taken == Due(now) \ Locked
            rows == [t \in taken |-> task[t]]
            e1 == [IdleTick EXCEPT !.now = now]
            e2 == [e1 EXCEPT !.todo = DOMAIN rows]
            e3 == [e2 EXCEPT !.rows = rows]
<1>0. Types /\ tick \in [Ticks -> TickState] /\ runs' = runs /\ fires' = fires
  BY DEF AuditIInv, IInv, Types, TickTypes, BeginTick
<1>1. tick' = [tick EXCEPT ![k] = e3]
  BY DEF BeginTick
<1>2. IdleTick.tags = {} /\ IdleTick.fires = [t \in Tasks |-> {}]
  BY DEF IdleTick
<1>. HIDE DEF rows
<1>3. e3.tags = {} /\ e3.fires = IdleTick.fires
  BY DEF IdleTick
<1>4. tick'[k] = e3
  BY <1>0, <1>1
<1>5. IInv'
  BY BeginTickInv DEF AuditIInv
<1>6. e3 \in TickState
  BY <1>4, <1>5 DEF IInv, Types, TickTypes
<1>. HIDE DEF e3
<1>. QED
  BY <1>0, <1>1, <1>2, <1>3, <1>6, IdleMarks

LEMMA AbortAudit == ASSUME AuditIInv, NEW k \in Ticks, Abort(k) PROVE AuditInv'
<1>1. runs' = runs /\ fires' = fires /\ tick' = [tick EXCEPT ![k] = IdleTick]
  BY DEF Abort
<1>2. \A t \in Tasks : "continued" \notin IdleTick.fires[t]
  BY DEF IdleTick
<1>. QED
  BY <1>1, <1>2, Idle, IdleMarks

\* The commit writes a dispatch to the log and the tag of its run.
LEMMA CommitTickAudit == ASSUME AuditIInv, NEW k \in Ticks, CommitTick(k) PROVE AuditInv'
<1>0. /\ Types /\ RunTypes /\ runs \in Seq(RunRow) /\ fires \in [Tasks -> [FireKinds -> Nat]]
      /\ tick \in [Ticks -> TickState] /\ Held
  BY DEF AuditIInv, IInv, Types, RunTypes, RowTypes, TickTypes
<1>1. /\ fires' = [t \in Tasks |-> [f \in FireKinds |->
                      fires[t][f] + IF f \in tick[k].fires[t] THEN 1 ELSE 0]]
      /\ runs' = [i \in DOMAIN runs |->
                    IF <<i, runs[i].task>> \in tick[k].tags
                    THEN [runs[i] EXCEPT !.tag = runs[i].task] ELSE runs[i]]
      /\ tick' = [tick EXCEPT ![k] = IdleTick]
  BY DEF CommitTick
<1>2. DOMAIN runs' = DOMAIN runs /\ tick'[k] = IdleTick /\ \A j \in Ticks \ {k} : tick'[j] = tick[j]
  BY <1>0, <1>1
<1>3. ASSUME NEW i \in DOMAIN runs
      PROVE  /\ runs[i].task \in Tasks /\ runs[i].tag \in {runs[i].task, NoTask}
             /\ runs'[i].task = runs[i].task
             /\ runs'[i].tag = IF <<i, runs[i].task>> \in tick[k].tags THEN runs[i].task
                               ELSE runs[i].tag
  <2>1. runs[i] \in RunRow /\ runs[i].tag \in {runs[i].task, NoTask}
    BY <1>0 DEF RunTypes
  <2>2. runs'[i] = IF <<i, runs[i].task>> \in tick[k].tags
                   THEN [runs[i] EXCEPT !.tag = runs[i].task] ELSE runs[i]
    BY <1>1
  <2>. QED
    BY <2>1, <2>2 DEF RunRow
<1>4. \A t \in Tasks :
         fires'[t]["continued"] =
            fires[t]["continued"] + IF "continued" \in tick[k].fires[t] THEN 1 ELSE 0
  BY <1>1 DEF FireKinds
<1>5. \A t \in Tasks : fires[t]["continued"] \in Nat
  BY <1>0 DEF FireKinds
<1>6. ASSUME NEW t \in Tasks PROVE Logged(t)'
  <2>1. Logged(t) /\ Marks(k, t) /\ t # NoTask
    BY ScheduledTasksAssumption DEF AuditIInv, AuditInv
  <2>2. CASE "continued" \in tick[k].fires[t]
    <3>1. PICK i \in DOMAIN runs :
             /\ runs[i].task = t /\ runs[i].tag = NoTask
             /\ \A j \in DOMAIN runs : <<j, t>> \in tick[k].tags <=> j = i
      BY <2>1, <2>2 DEF Marks
    <3>2. ASSUME NEW j \in DOMAIN runs PROVE runs'[j].tag = t <=> (j = i \/ runs[j].tag = t)
      BY <1>3, <2>1, <3>1
    <3>3. Tagged(t)' = Tagged(t) \cup {i}
      BY <1>2, <3>1, <3>2 DEF Tagged
    <3>4. i \notin Tagged(t)
      BY <2>1, <3>1 DEF Tagged
    <3>5. IsFiniteSet(Tagged(t)) /\ Cardinality(Tagged(t)) \in Nat
      BY <1>0, TaggedFinite
    <3>6. Cardinality(Tagged(t) \cup {i}) = Cardinality(Tagged(t)) + 1
      BY <3>4, <3>5, FS_AddElement
    <3>7. fires'[t]["continued"] = fires[t]["continued"] + 1
      BY <1>4, <2>2
    <3>. QED
      BY <2>1, <3>3, <3>6, <3>7 DEF Logged
  <2>3. CASE "continued" \notin tick[k].fires[t]
    <3>1. \A j \in DOMAIN runs : <<j, t>> \notin tick[k].tags
      BY <2>1, <2>3 DEF Marks
    <3>2. ASSUME NEW j \in DOMAIN runs PROVE runs'[j].tag = t <=> runs[j].tag = t
      <4>1. CASE runs[j].task = t
        <5>1. <<j, runs[j].task>> \notin tick[k].tags
          BY <3>1, <4>1
        <5>. QED
          BY <1>3, <5>1
      <4>2. CASE runs[j].task # t
        BY <1>3, <2>1, <4>2
      <4>. QED
        BY <4>1, <4>2
    <3>3. fires'[t]["continued"] = fires[t]["continued"]
      BY <1>4, <1>5, <2>3
    <3>. QED
      BY <1>0, <1>2, <2>1, <3>2, <3>3, LoggedKept
  <2>. QED
    BY <2>2, <2>3
<1>7. ASSUME NEW j \in Ticks \ {k}, NEW t \in Tasks PROVE Marks(j, t)'
  <2>1. Marks(j, t) /\ Marks(k, t)
    BY DEF AuditIInv, AuditInv
  <2>2. CASE "continued" \in tick[j].fires[t]
    <3>1. t \in DOMAIN tick[j].rows
      BY <2>1, <2>2 DEF Marks
    <3>2. t \notin DOMAIN tick[k].rows
      BY <1>0, <3>1 DEF Held
    <3>3. \A i \in DOMAIN runs : <<i, t>> \notin tick[k].tags
      BY <2>1, <3>2 DEF Marks
    <3>4. \A i \in DOMAIN runs : runs[i].task = t => runs'[i].tag = runs[i].tag
      BY <1>3, <3>3
    <3>. QED
      BY <1>0, <1>2, <1>3, <2>1, <3>4, MarksKept
  <2>3. CASE "continued" \notin tick[j].fires[t]
    BY <1>2, <2>1, <2>3 DEF Marks
  <2>. QED
    BY <2>2, <2>3
<1>8. ASSUME NEW t \in Tasks PROVE Marks(k, t)'
  BY <1>2 DEF Marks, IdleTick
<1>. QED
  BY <1>6, <1>7, <1>8 DEF AuditInv

\* The worker writes states of runs and other rows of the log.
LEMMA WorkerAudit == ASSUME AuditIInv, Worker PROVE AuditInv'
<1>0. /\ IInv /\ RunTypes /\ runs \in Seq(RunRow) /\ fires \in [Tasks -> [FireKinds -> Nat]]
  BY DEF AuditIInv, IInv, Types, RunTypes, RowTypes
<1>1. tick' = tick
  BY DEF Worker, ExecuteRun, ReadTask, WriteTask, LogQuietExit
<1>2. runs' = runs \/ \E i \in DOMAIN runs : \E state : runs' = [runs EXCEPT ![i].state = state]
  <2>1. worker.pc # "idle" => worker.run \in DOMAIN runs
    BY <1>0 DEF RunTypes
  <2>2. ASSUME NEW i \in DOMAIN runs, ExecuteRun(i)
        PROVE  \E state : runs' = [runs EXCEPT ![i].state = state]
    BY <2>2 DEF ExecuteRun
  <2>3. CASE ReadTask
    BY <2>1, <2>3 DEF ReadTask
  <2>4. CASE WriteTask
    BY <2>1, <2>4 DEF WriteTask
  <2>5. CASE LogQuietExit
    BY <2>5 DEF LogQuietExit
  <2>. QED
    BY <2>2, <2>3, <2>4, <2>5 DEF Worker
<1>3. /\ DOMAIN runs' = DOMAIN runs
      /\ \A j \in DOMAIN runs : runs'[j].task = runs[j].task /\ runs'[j].tag = runs[j].tag
  <2>1. ASSUME NEW i \in DOMAIN runs, NEW state, runs' = [runs EXCEPT ![i].state = state],
               NEW j \in DOMAIN runs
        PROVE  runs'[j].task = runs[j].task /\ runs'[j].tag = runs[j].tag
    <3>1. runs[j] \in RunRow
      BY <1>0
    <3>2. runs'[j] = runs[j] \/ runs'[j] = [runs[j] EXCEPT !.state = state]
      BY <2>1
    <3>. QED
      BY <3>1, <3>2 DEF RunRow
  <2>. QED
    BY <1>2, <2>1
<1>4. \/ fires' = fires
      \/ \E t \in Tasks : \E f \in {"paused", "agent_quiet_exited"} :
            fires' = [fires EXCEPT ![t][f] = @ + 1]
  <2>. DEFINE t == runs[worker.run].tag
  <2>1. ASSUME WriteTask \/ LogQuietExit, t # NoTask PROVE t \in Tasks
    <3>1. runs[worker.run] \in RunRow
      BY <1>0, <2>1 DEF RunTypes, WriteTask, LogQuietExit
    <3>. QED
      BY <2>1, <3>1 DEF RunRow
  <2>2. CASE WriteTask
    BY <2>1, <2>2 DEF WriteTask
  <2>3. CASE LogQuietExit
    BY <2>1, <2>3 DEF LogQuietExit
  <2>4. CASE (\E i \in DOMAIN runs : ExecuteRun(i)) \/ ReadTask
    BY <2>4 DEF ExecuteRun, ReadTask
  <2>. QED
    BY <2>2, <2>3, <2>4 DEF Worker
<1>5. \A t \in Tasks : fires'[t]["continued"] = fires[t]["continued"]
  BY <1>0, <1>4 DEF FireKinds
<1>. QED
  BY <1>1, <1>3, <1>5, AuditKept

LEMMA AuditInit == Init => AuditInv
<1>. SUFFICES ASSUME Init PROVE AuditInv
  OBVIOUS
<1>1. runs = <<>> /\ tick = [k \in Ticks |-> IdleTick]
      /\ fires = [t \in Tasks |-> [f \in FireKinds |-> 0]]
  BY DEF Init
<1>2. ASSUME NEW t \in Tasks PROVE Logged(t)
  <2>1. Tagged(t) = {} /\ fires[t]["continued"] = 0
    BY <1>1 DEF Tagged, FireKinds
  <2>. QED
    BY <2>1, FS_EmptySet DEF Logged
<1>3. ASSUME NEW k \in Ticks, NEW t \in Tasks PROVE Marks(k, t)
  BY <1>1 DEF Marks, IdleTick
<1>. QED
  BY <1>2, <1>3 DEF AuditInv

LEMMA AuditNext == AuditIInv /\ [Next]_vars => AuditIInv'
<1>. SUFFICES ASSUME AuditIInv, [Next]_vars PROVE AuditInv'
  BY NextInv DEF AuditIInv
<1>1. ASSUME NEW t \in Tasks, Create(t) PROVE AuditInv'
  BY <1>1, AuditKept DEF Create
<1>2. ASSUME NEW t \in Tasks, Delete(t) PROVE AuditInv'
  BY <1>2, DeleteAudit
<1>3. ASSUME NEW k \in Ticks, NEW now \in 0..clock, BeginTick(k, now) PROVE AuditInv'
  BY <1>3, BeginTickAudit
<1>4. ASSUME NEW k \in Ticks, TickStep(k) PROVE AuditInv'
  BY <1>4, RowStepAudit, CommitTickAudit DEF TickStep, RowStep
<1>5. ASSUME NEW k \in Ticks, Abort(k) PROVE AuditInv'
  BY <1>5, AbortAudit
<1>6. CASE Worker
  BY <1>6, WorkerAudit
<1>7. CASE ReadCounters \/ WriteCounters \/ Minute \/ UNCHANGED vars
  <2>1. tick' = tick /\ runs' = runs /\ fires' = fires
    BY <1>7 DEF ReadCounters, WriteCounters, Minute, vars
  <2>. QED
    BY <2>1, AuditKept
<1>. QED
  BY <1>1, <1>2, <1>3, <1>4, <1>5, <1>6, <1>7 DEF Next

-----------------------------------------------------------------------------
(* The theorems.                                                           *)

\* The rows, the runs, the ticks and the counters keep their types.
THEOREM TypeCorrect == Spec => []TypeOK
<1>1. IInv => TypeOK
  <2>. SUFFICES ASSUME IInv PROVE TypeOK
    OBVIOUS
  <2>1. RowTypes /\ RunTypes /\ TickTypes
    BY DEF IInv, Types
  <2>2. ASSUME NEW k \in Ticks
        PROVE  /\ tick[k].now \in 0..Horizon
               /\ tick[k].todo \subseteq DOMAIN tick[k].rows
               /\ DOMAIN tick[k].rows \subseteq Tasks
               /\ \A t \in DOMAIN tick[k].rows : tick[k].rows[t] \in TaskRow
               /\ tick[k].fires \in [Tasks -> SUBSET FireKinds]
               /\ tick[k].tags \subseteq (DOMAIN runs) \X Tasks
    <3>1. tick[k] \in TickState /\ TickOK(tick[k])
      BY <2>1 DEF TickTypes
    <3>2. PICK D \in SUBSET Tasks : tick[k].rows \in [D -> TaskRow]
      BY <3>1 DEF TickState, Rows
    <3>. QED
      BY <3>1, <3>2 DEF TickState, TickOK
  <2>3. runs \in Seq([task: Tasks, tag: Tasks \cup {NoTask}, state: RunStates])
    BY <2>1 DEF RunTypes, RunRow
  <2>4. worker \in [pc: {"idle", "read", "write", "quiet"}, run: Nat, seen: Nat]
    BY <2>1 DEF RunTypes
  <2>. QED
    BY <2>1, <2>2, <2>3, <2>4 DEF TypeOK, RowTypes
<1>. QED
  BY <1>1, Invariance, PTL

\* A task is served for one time it is due once, and once more at most for each fault,
\* however many ticks overlap or come late: the row lock is held until the commit that
\* moves the row on (tick_scheduled_tasks_impl).
THEOREM ServedAgainIsAFault == Spec => []ServedAgainOnlyForFaults
<1>1. IInv => ServedAgainOnlyForFaults
  <2>. SUFFICES ASSUME IInv, NEW t \in Tasks, NEW n \in Times PROVE served[t][n] <= 1 + faults
    BY DEF ServedAgainOnlyForFaults
  <2>1. served[t][n] \in Nat /\ faults \in Nat
    BY ScheduledTasksAssumption DEF IInv, Types, RowTypes
  <2>. QED
    BY <2>1 DEF IInv, Counted
<1>. QED
  BY <1>1, Invariance, PTL

\* Where nothing goes wrong no time is served twice.
THEOREM ServedAtMostOnce ==
    ASSUME Faults = {}
    PROVE  Spec => []AtMostOncePerDueTime
<1>1. IInv => AtMostOncePerDueTime
  <2>. SUFFICES ASSUME IInv, NEW t \in Tasks, NEW n \in Times PROVE served[t][n] <= 1
    BY DEF AtMostOncePerDueTime
  <2>1. served[t][n] \in Nat /\ faults = 0
    BY DEF IInv, Types, RowTypes, NoFaults
  <2>. QED
    BY <2>1 DEF IInv, Counted
<1>. QED
  BY <1>1, Invariance, PTL

\* A tick that began before a task was paused serves it no more: it holds active rows
\* only, and a row it holds cannot be paused by the worker.
THEOREM PausedTasksStayQuiet == Spec => PausedStaysQuiet
<1>1. ASSUME IInv, Next, NEW t \in Tasks, task[t].status = "paused"
      PROVE  served'[t] = served[t] /\ task'[t].status \in {"paused", "deleted"}
  <2>0. /\ Types /\ RowTypes /\ RunTypes /\ task \in [Tasks -> TaskRow]
        /\ served \in [Tasks -> [Times -> Nat]]
    BY <1>1 DEF IInv, Types, RowTypes
  <2>1. ASSUME NEW u \in Tasks, Create(u) \/ Delete(u)
        PROVE  served'[t] = served[t] /\ task'[t].status \in {"paused", "deleted"}
    BY <1>1, <2>0, <2>1 DEF Create, Delete, TaskRow
  <2>2. ASSUME NEW k \in Ticks, NEW now \in 0..clock, BeginTick(k, now)
        PROVE  served'[t] = served[t] /\ task'[t].status \in {"paused", "deleted"}
    BY <1>1, <2>2 DEF BeginTick
  <2>3. ASSUME NEW k \in Ticks, NEW u \in Tasks, RowStep(k, u)
        PROVE  served'[t] = served[t] /\ task'[t].status \in {"paused", "deleted"}
    <3>1. /\ u \in tick[k].todo /\ task' = task
          /\ served' = served \/ served' = [served EXCEPT ![u][task[u].next] = @ + 1]
      BY <1>1, <2>3, RowStepEffect
    <3>2. task[u].status = "active"
      BY <1>1, <3>1, FiredRow DEF IInv
    <3>. QED
      BY <1>1, <2>0, <3>1, <3>2
  <2>4. ASSUME NEW k \in Ticks, CommitTick(k)
        PROVE  served'[t] = served[t] /\ task'[t].status \in {"paused", "deleted"}
    <3>1. t \notin DOMAIN tick[k].rows
      BY <1>1 DEF IInv, Held, HeldRow
    <3>. QED
      BY <1>1, <2>4, <3>1 DEF CommitTick
  <2>5. ASSUME NEW k \in Ticks, Abort(k)
        PROVE  served'[t] = served[t] /\ task'[t].status \in {"paused", "deleted"}
    BY <1>1, <2>5 DEF Abort
  <2>6. CASE (\E i \in DOMAIN runs : ExecuteRun(i)) \/ ReadTask \/ LogQuietExit \/ ReadCounters \/ Minute
    BY <1>1, <2>6 DEF ExecuteRun, ReadTask, LogQuietExit, ReadCounters, Minute
  <2>7. CASE WriteTask
    <3>1. task'[t] = task[t] \/ task'[t].status \in {task[t].status, "paused", "deleted"}
      BY <1>1, <2>7, WriteTaskRows
    <3>2. served' = served
      BY <2>7 DEF WriteTask
    <3>. QED
      BY <1>1, <3>1, <3>2
  <2>8. CASE WriteCounters
    <3>1. /\ served' = served
          /\ (task' = task \/ task'[t] = [task[t] EXCEPT !.unanswered = 0] \/ task'[t] = task[t])
      BY <2>8 DEF WriteCounters
    <3>. QED
      BY <1>1, <2>0, <3>1 DEF TaskRow
  <2>. QED
    BY <1>1, <2>1, <2>2, <2>3, <2>4, <2>5, <2>6, <2>7, <2>8 DEF Next, Worker, TickStep, RowStep
<1>2. IInv /\ [Next]_vars
        => [\A t \in Tasks :
              task[t].status = "paused" =>
                 served'[t] = served[t] /\ task'[t].status \in {"paused", "deleted"}]_vars
  BY <1>1
<1>. QED
  BY <1>2, Invariance, PTL DEF Spec, PausedStaysQuiet

\* The audit log of a task has as many dispatches as runs carry its tag: the fire row and
\* the tag are one commit of the tick, a rollback takes both, and a task that is deleted
\* takes both along (tick_scheduled_tasks_impl, scheduled_task_fires' foreign key).
THEOREM AuditLogMatchesRuns == Spec => []AuditMatchesTags
<1>1. Init => AuditIInv
  BY InitInv, AuditInit DEF AuditIInv
<1>2. AuditIInv => AuditMatchesTags
  BY DEF AuditIInv, AuditInv, Logged, Tagged, AuditMatchesTags
<1>. QED
  BY <1>1, <1>2, AuditNext, PTL DEF Spec
=============================================================================
