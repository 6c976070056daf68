------------------------- MODULE RunExecutionProofs -------------------------
(***************************************************************************)
(* Proofs about RunExecution, for any runs, assistants and slots, whatever *)
(* raises and however often the worker dies.                               *)
(***************************************************************************)
EXTENDS RunExecution, TLAPS

\* The shape of the slots after a step that leaves the queue alone.
SlotType == slot \in [Slots -> {IdleSlot} \cup BusySlot]

SameRuns == \A t \in Slots : slot'[t].run = slot[t].run

\* A slot that is at a step executes a run.
LEMMA AtStepIsBusy ==
    ASSUME TypeOK, NEW s \in Slots, slot[s].pc \in Steps
    PROVE  slot[s] \in BusySlot /\ Run(s) \in Runs
BY DEF TypeOK, IdleSlot, BusySlot, Steps, PlainSteps, DeliverySteps, FailureSteps, Run

\* Taking a step keeps the type of the slots and the runs in them.
LEMMA TakeStep ==
    ASSUME TypeOK, NEW s \in Slots, NEW pc \in Steps, NEW next \in Steps, Take(s, pc, next)
    PROVE  SlotType' /\ SameRuns /\ Run(s) \in Runs
<1>1. slot[s] \in BusySlot /\ Run(s) \in Runs
  BY AtStepIsBusy DEF Take
<1>2. [slot[s] EXCEPT !.pc = next] \in BusySlot
  BY <1>1 DEF BusySlot
<1>3. slot' = [slot EXCEPT ![s] = [slot[s] EXCEPT !.pc = next]]
  BY DEF Take
<1>. QED
  BY <1>1, <1>2, <1>3 DEF TypeOK, SlotType, SameRuns, BusySlot

\* The same for the step into an exception handler.
LEMMA ExceptStep ==
    ASSUME TypeOK, NEW s \in Slots, slot[s].pc \in Raisable, Except(s)
    PROVE  SlotType' /\ SameRuns /\ Run(s) \in Runs
<1>1. slot[s] \in BusySlot /\ Run(s) \in Runs
  BY AtStepIsBusy DEF Raisable, Steps, FailureSteps
<1>2. Handler(slot[s].pc) \in Steps
  BY DEF Handler, Raisable, Steps, PlainSteps, DeliverySteps, FailureSteps
<1>3. (slot[s].usage \/ slot[s].pc \in DeliverySteps) \in BOOLEAN
  OBVIOUS
<1>. DEFINE after == [slot[s] EXCEPT !.pc = Handler(slot[s].pc),
                                     !.usage = slot[s].usage \/ slot[s].pc \in DeliverySteps]
<1>4. after \in BusySlot
  BY <1>1, <1>2, <1>3 DEF BusySlot
<1>5. slot' = [slot EXCEPT ![s] = after]
  BY DEF Except
<1>6. after.run = slot[s].run
  BY <1>1 DEF BusySlot
<1>. HIDE DEF after
<1>. QED
  BY <1>1, <1>4, <1>5, <1>6 DEF TypeOK, SlotType, SameRuns

\* The end of the agent: another pc, and the usage the failure brings.
LEMMA AgentStep ==
    ASSUME TypeOK, NEW s \in Slots, AgentEnds(s)
    PROVE  SlotType' /\ SameRuns /\ Run(s) \in Runs
<1>1. slot[s] \in BusySlot /\ Run(s) \in Runs
  BY AtStepIsBusy DEF AgentEnds, Steps
<1>2. PICK outcome \in Outcomes :
         slot' = [slot EXCEPT ![s].pc = CASE outcome = "reply" -> "attachments"
                                          [] outcome = "quiet" -> "record_quiet"
                                          [] OTHER -> "fail",
                              ![s].usage = outcome = "error_usage"]
  BY DEF AgentEnds
<1>. DEFINE next == CASE outcome = "reply" -> "attachments"
                      [] outcome = "quiet" -> "record_quiet"
                      [] OTHER -> "fail"
            after == [slot[s] EXCEPT !.pc = next, !.usage = outcome = "error_usage"]
<1>3. next \in Steps
  BY DEF Steps, PlainSteps, DeliverySteps, FailureSteps
<1>4. after \in BusySlot
  <2>. HIDE DEF next
  <2>. QED
    BY <1>1, <1>3 DEF BusySlot
<1>5. slot' = [slot EXCEPT ![s] = after]
  BY <1>2
<1>6. after.run = slot[s].run
  BY <1>1 DEF BusySlot
<1>. HIDE DEF after, next
<1>. QED
  BY <1>1, <1>4, <1>5, <1>6 DEF TypeOK, SlotType, SameRuns

\* A run row that is changed in one or two columns is a run row.
LEMMA RowTypes ==
    ASSUME TypeOK, NEW r \in Runs, NEW status \in Statuses, NEW history \in BOOLEAN
    PROVE  /\ [row[r] EXCEPT !.status = status] \in Row
           /\ [row[r] EXCEPT !.status = status, !.completed = TRUE] \in Row
           /\ [status |-> status, completed |-> TRUE, reply |-> TRUE,
               history |-> history \/ row[r].history] \in Row
           /\ [status |-> status, completed |-> TRUE, reply |-> FALSE, history |-> TRUE] \in Row
BY DEF TypeOK, Row

\* One more ledger row, or one more mail.
LEMMA ChargeType ==
    ASSUME TypeOK, NEW s \in Slots, Run(s) \in Runs, Charge(s)
    PROVE  ledger' \in [Runs -> Nat]
BY DEF TypeOK, Charge

\* Counting a mail that was sent keeps the types.
LEMMA MailType ==
    ASSUME TypeOK, NEW s \in Slots, Run(s) \in Runs, NEW p \in Purposes, Mail(s, p)
    PROVE  mailed' \in [Runs -> [Purposes -> Nat]]
<1>1. [mailed[Run(s)] EXCEPT ![p] = mailed[Run(s)][p] + 1] \in [Purposes -> Nat]
  BY DEF TypeOK
<1>2. mailed' = [mailed EXCEPT ![Run(s)] = [mailed[Run(s)] EXCEPT ![p] = mailed[Run(s)][p] + 1]]
  BY DEF Mail
<1>. QED
  BY <1>1, <1>2 DEF TypeOK

\* Writing one field of a row keeps the types.
LEMMA SetRowType ==
    ASSUME TypeOK, NEW s \in Slots, Run(s) \in Runs, NEW r \in Row, SetRow(s, r)
    PROVE  row' \in [Runs -> Row]
BY DEF TypeOK, SetRow

\* A slot whose step raises is at a step that can.
LEMMA AtRaisable ==
    ASSUME TypeOK, NEW s \in Slots, StepRaises(s)
    PROVE  slot[s].pc \in Raisable
<1>1. slot[s].pc \in Steps \cup {"idle"}
  BY DEF TypeOK, IdleSlot, BusySlot
<1>2. slot[s].pc \in Raisable \cup Mailing
  BY RunExecutionAssumption DEF StepRaises
<1>. QED
  BY <1>1, <1>2 DEF Mailing, Steps, PlainSteps, DeliverySteps, FailureSteps

-----------------------------------------------------------------------------

\* A step of execute_run or of the wrapper keeps all types, the job of every run
\* and the run in every slot. All actions but the ends of jobs are such steps.
StepOf(s) == Execute(s) /\ ~Return(s) /\ ~Raise(s)

\* Every step of a slot keeps the types.
LEMMA StepTypes ==
    ASSUME TypeOK, NEW s \in Slots, StepOf(s)
    PROVE  TypeOK' /\ SameRuns /\ UNCHANGED <<queue, crashes>>
<1>. USE DEF tables, queue, effects
<1>1. CASE LoadRun(s)
  <2>1. SlotType' /\ SameRuns
    BY <1>1, TakeStep DEF LoadRun, Steps, PlainSteps
  <2>. QED
    BY <1>1, <2>1 DEF LoadRun, TypeOK, SlotType
<1>2. CASE MarkRunning(s)
  <2>1. SlotType' /\ SameRuns /\ Run(s) \in Runs
    BY <1>2, TakeStep DEF MarkRunning, Steps, PlainSteps
  <2>2. row' \in [Runs -> Row]
    BY <1>2, <2>1, RowTypes, SetRowType DEF MarkRunning, Statuses
  <2>. QED
    BY <1>2, <2>1, <2>2 DEF MarkRunning, TypeOK, SlotType
<1>3. CASE Decide(s)
  <2>1. SlotType' /\ SameRuns
    BY <1>3, TakeStep DEF Decide, Steps, PlainSteps
  <2>. QED
    BY <1>3, <2>1 DEF Decide, TypeOK, SlotType
<1>4. CASE SetUp(s)
  <2>1. SlotType' /\ SameRuns
    BY <1>4, TakeStep DEF SetUp, Steps, PlainSteps
  <2>. QED
    BY <1>4, <2>1 DEF SetUp, TypeOK, SlotType
<1>5. CASE AgentEnds(s)
  <2>1. SlotType' /\ SameRuns /\ Run(s) \in Runs
    BY <1>5, AgentStep
  <2>2. burned' \subseteq Runs
    BY <1>5, <2>1 DEF AgentEnds, TypeOK
  <2>. QED
    BY <1>5, <2>1, <2>2 DEF AgentEnds, TypeOK, SlotType
<1>6. CASE SendLimited(s)
  <2>1. SlotType' /\ SameRuns /\ Run(s) \in Runs
    BY <1>6, TakeStep DEF SendLimited, Steps, PlainSteps
  <2>2. mailed' \in [Runs -> [Purposes -> Nat]]
    BY <1>6, <2>1, MailType DEF SendLimited, Purposes
  <2>. QED
    BY <1>6, <2>1, <2>2 DEF SendLimited, TypeOK, SlotType
<1>7. CASE RecordLimited(s)
  <2>1. SlotType' /\ SameRuns /\ Run(s) \in Runs
    BY <1>7, TakeStep DEF RecordLimited, Steps, PlainSteps
  <2>2. row' \in [Runs -> Row]
    BY <1>7, <2>1, RowTypes, SetRowType DEF RecordLimited, Complete, Statuses
  <2>3. ledger' \in [Runs -> Nat]
    BY <1>7, <2>1, ChargeType DEF RecordLimited, Complete
  <2>. QED
    BY <1>7, <2>1, <2>2, <2>3 DEF RecordLimited, TypeOK, SlotType
<1>8. CASE CurateLimited(s)
  <2>1. SlotType' /\ SameRuns /\ Run(s) \in Runs
    BY <1>8, TakeStep DEF CurateLimited, Steps, PlainSteps
  <2>. QED
    BY <1>8, <2>1 DEF CurateLimited, DeferCurate, TypeOK, SlotType
<1>9. CASE LabelLimited(s)
  <2>1. SlotType' /\ SameRuns /\ Run(s) \in Runs
    BY <1>9, TakeStep DEF LabelLimited, Steps, PlainSteps
  <2>2. row' \in [Runs -> Row]
    BY <1>9, <2>1, RowTypes, SetRowType DEF LabelLimited, Statuses
  <2>. QED
    BY <1>9, <2>1, <2>2 DEF LabelLimited, TypeOK, SlotType
<1>10. CASE RecordQuiet(s)
  <2>1. SlotType' /\ SameRuns /\ Run(s) \in Runs
    BY <1>10, TakeStep DEF RecordQuiet, Steps, PlainSteps
  <2>2. row' \in [Runs -> Row]
    BY <1>10, <2>1, RowTypes, SetRowType DEF RecordQuiet, Statuses
  <2>3. ledger' \in [Runs -> Nat]
    BY <1>10, <2>1, ChargeType DEF RecordQuiet
  <2>. QED
    BY <1>10, <2>1, <2>2, <2>3 DEF RecordQuiet, TypeOK, SlotType
<1>11. CASE Tally(s)
  <2>1. SlotType' /\ SameRuns /\ Run(s) \in Runs
    BY <1>11, TakeStep DEF Tally, Steps, PlainSteps, DeliverySteps
  <2>. QED
    BY <1>11, <2>1 DEF Tally, TypeOK, SlotType
<1>12. CASE ReadAttachments(s)
  <2>1. SlotType' /\ SameRuns
    BY <1>12, TakeStep DEF ReadAttachments, Steps, DeliverySteps
  <2>. QED
    BY <1>12, <2>1 DEF ReadAttachments, TypeOK, SlotType
<1>13. CASE SendReply(s)
  <2>1. SlotType' /\ SameRuns /\ Run(s) \in Runs
    BY <1>13, TakeStep DEF SendReply, Steps, DeliverySteps
  <2>2. mailed' \in [Runs -> [Purposes -> Nat]]
    BY <1>13, <2>1, MailType DEF SendReply, Purposes
  <2>. QED
    BY <1>13, <2>1, <2>2 DEF SendReply, TypeOK, SlotType
<1>14. CASE RecordCompletion(s)
  <2>1. SlotType' /\ SameRuns /\ Run(s) \in Runs
    BY <1>14, TakeStep DEF RecordCompletion, Steps, DeliverySteps
  <2>2. row' \in [Runs -> Row]
    BY <1>14, <2>1, RowTypes, SetRowType DEF RecordCompletion, Complete, Statuses
  <2>3. ledger' \in [Runs -> Nat]
    BY <1>14, <2>1, ChargeType DEF RecordCompletion, Complete
  <2>. QED
    BY <1>14, <2>1, <2>2, <2>3 DEF RecordCompletion, TypeOK, SlotType
<1>15. CASE Curate(s)
  <2>1. SlotType' /\ SameRuns /\ Run(s) \in Runs
    BY <1>15, TakeStep DEF Curate, Steps, DeliverySteps
  <2>. QED
    BY <1>15, <2>1 DEF Curate, DeferCurate, TypeOK, SlotType
<1>16. CASE StepRaises(s)
  <2>1. slot[s].pc \in Raisable
    BY <1>16, AtRaisable
  <2>2. SlotType' /\ SameRuns
    BY <1>16, <2>1, ExceptStep DEF StepRaises
  <2>. QED
    BY <1>16, <2>2 DEF StepRaises, TypeOK, SlotType
<1>17. CASE SendRaisesLate(s)
  <2>1. SlotType' /\ SameRuns /\ Run(s) \in Runs
    BY <1>17, ExceptStep DEF SendRaisesLate, Raisable, PlainSteps, DeliverySteps
  <2>2. mailed' \in [Runs -> [Purposes -> Nat]]
    BY <1>17, <2>1, MailType DEF SendRaisesLate, Purposes
  <2>. QED
    BY <1>17, <2>1, <2>2 DEF SendRaisesLate, TypeOK, SlotType
<1>18. CASE RecordFailure(s)
  <2>1. SlotType' /\ SameRuns /\ Run(s) \in Runs
    BY <1>18, TakeStep DEF RecordFailure, Steps, FailureSteps
  <2>2. row' \in [Runs -> Row]
    BY <1>18, <2>1, RowTypes, SetRowType DEF RecordFailure, MarkFailed, Statuses
  <2>3. ledger' \in [Runs -> Nat]
    BY <1>18, <2>1, ChargeType DEF RecordFailure, TypeOK
  <2>. QED
    BY <1>18, <2>1, <2>2, <2>3 DEF RecordFailure, TypeOK, SlotType
<1>19. CASE NotifyUser(s) \/ NotifyOwner(s)
  <2>1. SlotType' /\ SameRuns /\ Run(s) \in Runs
    BY <1>19, TakeStep DEF NotifyUser, NotifyOwner, Notify, Steps, FailureSteps
  <2>2. mailed' \in [Runs -> [Purposes -> Nat]]
    BY <1>19, <2>1, MailType DEF NotifyUser, NotifyOwner, Notify, Purposes, TypeOK
  <2>. QED
    BY <1>19, <2>1, <2>2 DEF NotifyUser, NotifyOwner, Notify, TypeOK, SlotType
<1>20. CASE Unwind(s)
  <2>1. SlotType' /\ SameRuns
    BY <1>20, TakeStep DEF Unwind, Steps, FailureSteps
  <2>. QED
    BY <1>20, <2>1 DEF Unwind, TypeOK, SlotType
<1>21. CASE Rescue(s)
  <2>1. SlotType' /\ SameRuns /\ Run(s) \in Runs
    BY <1>21, TakeStep DEF Rescue, Steps, FailureSteps
  <2>2. row' \in [Runs -> Row]
    BY <1>21, <2>1, RowTypes, SetRowType DEF Rescue, MarkFailed, Statuses
  <2>. QED
    BY <1>21, <2>1, <2>2 DEF Rescue, TypeOK, SlotType
<1>. QED
  BY <1>1, <1>2, <1>3, <1>4, <1>5, <1>6, <1>7, <1>8, <1>9, <1>10, <1>11, <1>12, <1>13, <1>14,
     <1>15, <1>16, <1>17, <1>18, <1>19, <1>20, <1>21 DEF StepOf, Execute

\* The end of a job: the slot is idle, a job that was doing is over.
LEMMA EndStep ==
    ASSUME TypeOK, NEW s \in Slots, NEW pc \in Steps, NEW status \in JobStatuses,
           EndJob(s, pc, status)
    PROVE  TypeOK' /\ Run(s) \in Runs
<1>1. Run(s) \in Runs
  BY AtStepIsBusy DEF EndJob
<1>2. job' \in [Runs -> JobStatuses]
  BY <1>1 DEF EndJob, TypeOK, Run
<1>. QED
  BY <1>1, <1>2 DEF EndJob, TypeOK, tables, effects

\* The types are kept by every step.
LEMMA NextTypes ==
    ASSUME TypeOK, [Next]_vars
    PROVE  TypeOK'
<1>. USE DEF tables, queue, effects
<1>1. ASSUME NEW r \in Runs, Enqueue(r) PROVE TypeOK'
  BY <1>1 DEF Enqueue, TypeOK, JobStatuses
<1>2. ASSUME NEW s \in Slots, NEW r \in Runs, Claim(s, r) PROVE TypeOK'
  <2>1. [run |-> r, pc |-> "load", usage |-> FALSE] \in BusySlot
    BY DEF BusySlot, Steps, PlainSteps
  <2>. QED
    BY <1>2, <2>1 DEF Claim, TypeOK, JobStatuses
<1>3. ASSUME NEW s \in Slots, Execute(s) PROVE TypeOK'
  <2>1. CASE StepOf(s)
    BY <2>1, StepTypes
  <2>2. CASE Return(s)
    BY <2>2, EndStep DEF Return, Steps, JobStatuses
  <2>3. CASE Raise(s)
    BY <2>3, EndStep DEF Raise, Steps, JobStatuses
  <2>. QED
    BY <1>3, <2>1, <2>2, <2>3 DEF StepOf
<1>4. CASE Crash
  BY <1>4, RunExecutionAssumption DEF Crash, TypeOK
<1>5. CASE Recover
  <2>1. row' \in [Runs -> Row]
    BY <1>5, RowTypes DEF Recover, Statuses, TypeOK
  <2>2. job' \in [Runs -> JobStatuses]
    BY <1>5 DEF Recover, TypeOK, JobStatuses
  <2>. QED
    BY <1>5, <2>1, <2>2 DEF Recover, TypeOK
<1>6. CASE UNCHANGED vars
  BY <1>6 DEF vars, TypeOK
<1>. QED
  BY <1>1, <1>2, <1>3, <1>4, <1>5, <1>6 DEF Next

\* At the start the types hold.
LEMMA InitTypes == ASSUME Init PROVE TypeOK
BY RunExecutionAssumption
   DEF Init, TypeOK, Row, Statuses, JobStatuses, Purposes

\* Every variable keeps its type, whatever raises and however the worker dies.
THEOREM TypeCorrect == Spec => []TypeOK
<1>1. Init => TypeOK
  BY InitTypes
<1>2. TypeOK /\ [Next]_vars => TypeOK'
  BY NextTypes
<1>. QED
  BY <1>1, <1>2, PTL DEF Spec

-----------------------------------------------------------------------------
(* The lock.                                                               *)

\* What a slot executes has a job that is doing.
SlotsHaveJobs == \A s \in Slots : Run(s) \in Runs => job[Run(s)] = "doing"

\* A run is in one slot at most.
OneSlotPerRun == \A s, t \in Slots : Run(s) \in Runs /\ Run(s) = Run(t) => s = t

\* An assistant has one job that is doing at most: the lock.
OneJobPerLock ==
    \A q, r \in Runs : SameAssistant(q, r) /\ job[q] = "doing" /\ job[r] = "doing" => q = r

LockInv == TypeOK /\ SlotsHaveJobs /\ OneSlotPerRun /\ OneJobPerLock

\* A step that leaves the jobs and the runs in the slots alone keeps the lock.
LEMMA LockStutter ==
    ASSUME LockInv, TypeOK', SameRuns, job' = job
    PROVE  LockInv'
BY DEF LockInv, SlotsHaveJobs, OneSlotPerRun, OneJobPerLock, SameRuns, Run, SameAssistant

\* The end of a job gives the lock back.
LEMMA LockEnd ==
    ASSUME LockInv, NEW s \in Slots, NEW pc \in Steps, NEW status \in JobStatuses,
           status # "doing", EndJob(s, pc, status)
    PROVE  LockInv'
<1>1. TypeOK' /\ Run(s) \in Runs
  BY EndStep DEF LockInv
<1>2. \A r \in Runs : job'[r] = "doing" => job[r] = "doing" /\ r # Run(s)
  BY <1>1 DEF EndJob, LockInv, TypeOK, Run
<1>3. \A t \in Slots : Run(t)' \in Runs => t # s /\ Run(t)' = Run(t)
  BY RunExecutionAssumption DEF EndJob, LockInv, TypeOK, Run, IdleSlot
<1>4. SlotsHaveJobs'
  <2>. SUFFICES ASSUME NEW t \in Slots, Run(t)' \in Runs
                PROVE  job'[Run(t)'] = "doing"
    BY DEF SlotsHaveJobs
  <2>1. t # s /\ Run(t)' = Run(t) /\ job[Run(t)] = "doing" /\ Run(t) # Run(s)
    BY <1>1, <1>3 DEF LockInv, SlotsHaveJobs, OneSlotPerRun
  <2>. QED
    BY <1>1, <2>1 DEF EndJob, LockInv, TypeOK, Run
<1>5. OneSlotPerRun'
  BY <1>3 DEF LockInv, OneSlotPerRun
<1>6. OneJobPerLock'
  BY <1>2 DEF LockInv, OneJobPerLock, SameAssistant
<1>. QED
  BY <1>1, <1>4, <1>5, <1>6 DEF LockInv

\* The lock is kept by every step.
LEMMA LockStep ==
    ASSUME LockInv, [Next]_vars
    PROVE  LockInv'
<1>. TypeOK'
  BY NextTypes DEF LockInv
<1>1. ASSUME NEW r \in Runs, Enqueue(r) PROVE LockInv'
  <2>1. \A q \in Runs : job'[q] = "doing" <=> job[q] = "doing"
    BY <1>1 DEF Enqueue, LockInv, TypeOK
  <2>2. SameRuns
    BY <1>1 DEF Enqueue, SameRuns
  <2>. QED
    BY <2>1, <2>2 DEF LockInv, SlotsHaveJobs, OneSlotPerRun, OneJobPerLock, SameRuns, Run,
                      SameAssistant
<1>2. ASSUME NEW s \in Slots, NEW r \in Runs, Claim(s, r) PROVE LockInv'
  <2>1. \A q \in Runs : job'[q] = "doing" <=> q = r \/ job[q] = "doing"
    BY <1>2 DEF Claim, LockInv, TypeOK
  <2>2. \A q \in Runs : SameAssistant(q, r) => job[q] # "doing"
    BY <1>2 DEF Claim, Claimable
  <2>3. job[r] # "doing"
    BY <1>2 DEF Claim, Claimable
  <2>4. \A t \in Slots : Run(t)' = IF t = s THEN r ELSE Run(t)
    BY <1>2 DEF Claim, LockInv, TypeOK, Run
  <2>5. SlotsHaveJobs'
    BY <2>1, <2>4 DEF LockInv, SlotsHaveJobs
  <2>6. OneSlotPerRun'
    BY <2>3, <2>4 DEF LockInv, OneSlotPerRun, SlotsHaveJobs
  <2>7. OneJobPerLock'
    BY <2>1, <2>2 DEF LockInv, OneJobPerLock, SameAssistant
  <2>. QED
    BY <2>5, <2>6, <2>7 DEF LockInv
<1>3. ASSUME NEW s \in Slots, Execute(s) PROVE LockInv'
  <2>1. CASE StepOf(s)
    BY <2>1, StepTypes, LockStutter DEF LockInv, queue
  <2>2. CASE Return(s)
    BY <2>2, LockEnd DEF Return, Steps, JobStatuses
  <2>3. CASE Raise(s)
    BY <2>3, LockEnd DEF Raise, Steps, JobStatuses
  <2>. QED
    BY <1>3, <2>1, <2>2, <2>3 DEF StepOf
<1>4. CASE Crash
  <2>1. \A t \in Slots : Run(t)' \notin Runs
    BY <1>4, RunExecutionAssumption DEF Crash, Run, IdleSlot
  <2>2. job' = job
    BY <1>4 DEF Crash, queue
  <2>. QED
    BY <2>1, <2>2 DEF LockInv, SlotsHaveJobs, OneSlotPerRun, OneJobPerLock, SameAssistant
<1>5. CASE Recover
  <2>0. (\A t \in Slots : slot[t] = IdleSlot) /\ slot' = slot
    BY <1>5 DEF Recover
  <2>1. \A t \in Slots : Run(t)' \notin Runs
    BY <2>0, RunExecutionAssumption DEF Run, IdleSlot
  <2>2. \A r \in Runs : job'[r] # "doing"
    BY <1>5 DEF Recover
  <2>. QED
    BY <2>1, <2>2 DEF LockInv, SlotsHaveJobs, OneSlotPerRun, OneJobPerLock
<1>6. CASE UNCHANGED vars
  BY <1>6, LockStutter DEF vars, SameRuns, queue
<1>. QED
  BY <1>1, <1>2, <1>3, <1>4, <1>5, <1>6 DEF Next

\* The lock serializes the runs of an assistant: see SerialPerAssistant.
THEOREM SerialExecutionPerAssistant == Spec => []SerialPerAssistant
<1>1. Init => LockInv
  BY InitTypes, RunExecutionAssumption
     DEF Init, LockInv, SlotsHaveJobs, OneSlotPerRun, OneJobPerLock, Run, IdleSlot
<1>2. LockInv /\ [Next]_vars => LockInv'
  BY LockStep
<1>3. LockInv => SerialPerAssistant
  BY DEF LockInv, TypeOK, SlotsHaveJobs, OneSlotPerRun, OneJobPerLock, SerialPerAssistant, Run,
         BusySlot, SameAssistant
<1>. QED
  BY <1>1, <1>2, <1>3, PTL DEF Spec

-----------------------------------------------------------------------------
(* Answers.                                                                *)

\* The steps from which an execution may still send its answer.
BeforeAnswering ==
    {"load", "mark", "decide", "setup", "agent", "send_limited", "attachments", "send"}

\* A run is answered at most once, not before its job is claimed, and not before
\* the slot that executes it has sent the answer.
AnswerInv ==
    \A r \in Runs :
        /\ Answers(r) <= 1
        /\ Answers(r) > 0 => job[r] \notin {"none", "todo"}
        /\ \A s \in Slots : Run(s) = r /\ slot[s].pc \in BeforeAnswering => Answers(r) = 0

SameAnswers == \A r \in Runs : Answers(r)' = Answers(r)

\* No slot comes back to a step before the answer.
NoWayBack ==
    \A t \in Slots : slot'[t].pc \in BeforeAnswering => slot[t].pc \in BeforeAnswering

\* Slot s sends the answer of its run.
Sends(s) ==
    /\ slot[s].pc \in {"send_limited", "send"}
    /\ slot'[s].pc \notin BeforeAnswering
    /\ \A t \in Slots \ {s} : slot'[t] = slot[t]
    /\ \A r \in Runs : Answers(r)' = IF r = Run(s) THEN Answers(r) + 1 ELSE Answers(r)

\* A Take that does not lead from after an answer to before it goes no way back.
LEMMA TakeForward ==
    ASSUME TypeOK, NEW s \in Slots, NEW pc, NEW next, Take(s, pc, next),
           next \in BeforeAnswering => pc \in BeforeAnswering
    PROVE  NoWayBack
BY DEF Take, NoWayBack, TypeOK, IdleSlot, BusySlot

\* An exception leads to a handler, after which nothing is answered.
LEMMA ExceptForward ==
    ASSUME TypeOK, NEW s \in Slots, slot[s].pc \in Raisable, Except(s)
    PROVE  /\ NoWayBack
           /\ slot'[s].pc \notin BeforeAnswering
           /\ \A t \in Slots \ {s} : slot'[t] = slot[t]
<1>1. Handler(slot[s].pc) \notin BeforeAnswering
  BY DEF Handler, Raisable, PlainSteps, DeliverySteps, BeforeAnswering
<1>2. slot[s] \in BusySlot
  BY AtStepIsBusy DEF Raisable, Steps, FailureSteps
<1>3. slot'[s].pc = Handler(slot[s].pc) /\ \A t \in Slots \ {s} : slot'[t] = slot[t]
  <2>. DEFINE next == Handler(slot[s].pc)
              usage == slot[s].usage \/ slot[s].pc \in DeliverySteps
              after == [slot[s] EXCEPT !.pc = next, !.usage = usage]
  <2>1. slot' = [slot EXCEPT ![s] = after]
    BY DEF Except
  <2>2. after.pc = next
    <3>. HIDE DEF next, usage
    <3>. QED
      BY <1>2 DEF BusySlot
  <2>. HIDE DEF after, next
  <2>. QED
    BY <2>1, <2>2 DEF TypeOK, next
<1>. QED
  BY <1>1, <1>3 DEF NoWayBack

\* Mailing the answer, in a run that has a reply and a limited count.
LEMMA MailAnswers ==
    ASSUME TypeOK, NEW s \in Slots, Run(s) \in Runs, NEW p \in {"reply", "limited"}, Mail(s, p)
    PROVE  \A r \in Runs : Answers(r)' = IF r = Run(s) THEN Answers(r) + 1 ELSE Answers(r)
<1>1. mailed' = [mailed EXCEPT ![Run(s)] = [mailed[Run(s)] EXCEPT ![p] = mailed[Run(s)][p] + 1]]
  BY DEF Mail
<1>2. ASSUME NEW r \in Runs
      PROVE  Answers(r)' = IF r = Run(s) THEN Answers(r) + 1 ELSE Answers(r)
  <2>1. mailed[r] \in [Purposes -> Nat]
    BY DEF TypeOK
  <2>2. CASE r # Run(s)
    BY <1>1, <2>2 DEF Answers, TypeOK
  <2>3. CASE r = Run(s)
    <3>1. mailed'[r] = [mailed[r] EXCEPT ![p] = mailed[r][p] + 1]
      BY <1>1, <2>3 DEF TypeOK
    <3>. QED
      BY <2>1, <2>3, <3>1 DEF Answers, Purposes
  <2>. QED
    BY <2>2, <2>3
<1>. QED
  BY <1>2

\* A mail that is not a reply leaves the replies alone.
LEMMA MailNotices ==
    ASSUME TypeOK, NEW s \in Slots, Run(s) \in Runs, NEW p \in {"apology", "owner"},
           Mail(s, p) \/ mailed' = mailed
    PROVE  SameAnswers
<1>1. CASE mailed' = mailed
  BY <1>1 DEF SameAnswers, Answers
<1>2. CASE Mail(s, p)
  <2>1. mailed' = [mailed EXCEPT ![Run(s)] = [mailed[Run(s)] EXCEPT ![p] = mailed[Run(s)][p] + 1]]
    BY <1>2 DEF Mail
  <2>2. ASSUME NEW r \in Runs PROVE Answers(r)' = Answers(r)
    <3>1. mailed[r] \in [Purposes -> Nat]
      BY DEF TypeOK
    <3>2. mailed'[r] = IF r = Run(s) THEN [mailed[r] EXCEPT ![p] = mailed[r][p] + 1] ELSE mailed[r]
      BY <2>1 DEF TypeOK
    <3>. QED
      BY <3>1, <3>2 DEF Answers, Purposes
  <2>. QED
    BY <2>2 DEF SameAnswers
<1>. QED
  BY <1>1, <1>2

\* A step of an execution sends the answer of its run, or no answer at all.
LEMMA StepAnswers ==
    ASSUME TypeOK, NEW s \in Slots, StepOf(s)
    PROVE  (SameAnswers /\ NoWayBack) \/ Sends(s)
<1>. USE DEF BeforeAnswering
<1>m. ASSUME mailed' = mailed PROVE SameAnswers
  BY <1>m DEF SameAnswers, Answers
<1>1. CASE LoadRun(s)
  BY <1>1, <1>m, TakeForward DEF LoadRun, effects
<1>2. CASE MarkRunning(s)
  BY <1>2, <1>m, TakeForward DEF MarkRunning, effects
<1>3. CASE Decide(s)
  BY <1>3, <1>m, TakeForward DEF Decide, effects
<1>4. CASE SetUp(s)
  BY <1>4, <1>m, TakeForward DEF SetUp, effects
<1>5. CASE RecordLimited(s)
  BY <1>5, <1>m, TakeForward DEF RecordLimited, effects
<1>6. CASE CurateLimited(s)
  BY <1>6, <1>m, TakeForward DEF CurateLimited, DeferCurate
<1>7. CASE LabelLimited(s)
  BY <1>7, <1>m, TakeForward DEF LabelLimited, effects
<1>8. CASE RecordQuiet(s)
  BY <1>8, <1>m, TakeForward DEF RecordQuiet, effects
<1>9. CASE Tally(s)
  BY <1>9, <1>m, TakeForward DEF Tally
<1>10. CASE ReadAttachments(s)
  BY <1>10, <1>m, TakeForward DEF ReadAttachments, effects
<1>11. CASE RecordCompletion(s)
  BY <1>11, <1>m, TakeForward DEF RecordCompletion, effects
<1>12. CASE Curate(s)
  BY <1>12, <1>m, TakeForward DEF Curate, DeferCurate
<1>13. CASE RecordFailure(s)
  BY <1>13, <1>m, TakeForward DEF RecordFailure, effects
<1>14. CASE Unwind(s)
  BY <1>14, <1>m, TakeForward DEF Unwind, effects
<1>15. CASE Rescue(s)
  BY <1>15, <1>m, TakeForward DEF Rescue, effects
<1>16. CASE AgentEnds(s)
  <2>1. slot[s].pc = "agent" /\ mailed' = mailed
    BY <1>16 DEF AgentEnds, effects
  <2>2. \A t \in Slots \ {s} : slot'[t] = slot[t]
    BY <1>16 DEF AgentEnds, TypeOK
  <2>. QED
    BY <2>1, <2>2, <1>m DEF NoWayBack
<1>17. CASE StepRaises(s)
  BY <1>17, <1>m, AtRaisable, ExceptForward DEF StepRaises, effects
<1>18. CASE SendRaisesLate(s)
  <2>1. slot[s].pc \in {"send_limited", "send"} /\ slot[s].pc \in Raisable /\ Run(s) \in Runs
    BY <1>18, AtStepIsBusy
       DEF SendRaisesLate, Raisable, PlainSteps, DeliverySteps, Steps
  <2>2. \A r \in Runs : Answers(r)' = IF r = Run(s) THEN Answers(r) + 1 ELSE Answers(r)
    BY <1>18, <2>1, MailAnswers DEF SendRaisesLate
  <2>. QED
    BY <1>18, <2>1, <2>2, ExceptForward DEF SendRaisesLate, Sends
<1>19. CASE SendLimited(s) \/ SendReply(s)
  <2>1. slot[s].pc \in {"send_limited", "send"} /\ Run(s) \in Runs
    BY <1>19, AtStepIsBusy
       DEF SendLimited, SendReply, Take, PlainSteps, DeliverySteps, Steps
  <2>2. \A r \in Runs : Answers(r)' = IF r = Run(s) THEN Answers(r) + 1 ELSE Answers(r)
    BY <1>19, <2>1, MailAnswers DEF SendLimited, SendReply
  <2>3. slot'[s].pc \notin BeforeAnswering /\ \A t \in Slots \ {s} : slot'[t] = slot[t]
    BY <1>19 DEF SendLimited, SendReply, Take, TypeOK, IdleSlot, BusySlot
  <2>. QED
    BY <2>1, <2>2, <2>3 DEF Sends
<1>20. CASE NotifyUser(s) \/ NotifyOwner(s)
  <2>1. Run(s) \in Runs
    BY <1>20, AtStepIsBusy DEF NotifyUser, NotifyOwner, Notify, Take, Steps, FailureSteps
  <2>2. SameAnswers
    BY <1>20, <2>1, MailNotices DEF NotifyUser, NotifyOwner, Notify
  <2>3. NoWayBack
    BY <1>20, TakeForward DEF NotifyUser, NotifyOwner, Notify
  <2>. QED
    BY <2>2, <2>3
<1>. QED
  BY <1>1, <1>2, <1>3, <1>4, <1>5, <1>6, <1>7, <1>8,
     <1>9, <1>10, <1>11, <1>12, <1>13, <1>14, <1>15, <1>16, <1>17, <1>18, <1>19, <1>20 DEF StepOf, Execute

AnswerIInv == LockInv /\ AnswerInv

\* Answering once is kept by a step that sends no answer, keeps the runs in the slots
\* and returns no job to the queue.
LEMMA AnswerStutter ==
    ASSUME AnswerIInv, SameAnswers, NoWayBack,
           \A t \in Slots : Run(t)' \in Runs => Run(t)' = Run(t),
           \A r \in Runs : job'[r] \in {"none", "todo"} =>
               job[r] \in {"none", "todo"}
    PROVE  AnswerInv'
<1>. SUFFICES ASSUME NEW r \in Runs
              PROVE  /\ Answers(r)' <= 1
                     /\ Answers(r)' > 0 => job'[r] \notin {"none", "todo"}
                     /\ \A s \in Slots : Run(s)' = r /\ slot'[s].pc \in BeforeAnswering =>
                           Answers(r)' = 0
  BY DEF AnswerInv
<1>. QED
  BY DEF AnswerIInv, AnswerInv, SameAnswers, NoWayBack

\* Every step keeps that a run is answered at most once.
LEMMA AnswerStep ==
    ASSUME AnswerIInv, [Next]_vars
    PROVE  AnswerInv'
<1>. USE DEF tables, queue, effects
<1>1. ASSUME NEW q \in Runs, Enqueue(q) PROVE AnswerInv'
  <2>1. mailed' = mailed /\ slot' = slot
    BY <1>1 DEF Enqueue
  <2>2. \A r \in Runs : job'[r] \in {"none", "todo"} => job[r] \in {"none", "todo"}
    BY <1>1 DEF Enqueue, AnswerIInv, LockInv, TypeOK
  <2>. QED
    BY <2>1, <2>2, AnswerStutter DEF SameAnswers, Answers, NoWayBack, Run
<1>2. ASSUME NEW s \in Slots, NEW q \in Runs, Claim(s, q) PROVE AnswerInv'
  <2>1. mailed' = mailed /\ job[q] = "todo"
    BY <1>2 DEF Claim, Claimable
  <2>2. Answers(q) = 0
    <3>1. mailed[q] \in [Purposes -> Nat]
      BY DEF AnswerIInv, LockInv, TypeOK
    <3>. QED
      BY <2>1, <3>1 DEF AnswerIInv, AnswerInv, Answers, Purposes
  <2>3. \A t \in Slots \ {s} : slot'[t] = slot[t]
    BY <1>2 DEF Claim, AnswerIInv, LockInv, TypeOK
  <2>4. Run(s)' = q
    BY <1>2 DEF Claim, AnswerIInv, LockInv, TypeOK, Run
  <2>5. \A r \in Runs : job'[r] = IF r = q THEN "doing" ELSE job[r]
    BY <1>2 DEF Claim, AnswerIInv, LockInv, TypeOK
  <2>6. \A r \in Runs : Answers(r)' = Answers(r)
    BY <2>1 DEF Answers
  <2>. QED
    BY <2>2, <2>3, <2>4, <2>5, <2>6 DEF AnswerIInv, AnswerInv, Run
<1>3. ASSUME NEW s \in Slots, Execute(s) PROVE AnswerInv'
  <2>1. CASE StepOf(s)
    <3>1. SameRuns /\ job' = job
      BY <2>1, StepTypes DEF AnswerIInv, LockInv
    <3>2. CASE SameAnswers /\ NoWayBack
      BY <3>1, <3>2, AnswerStutter DEF SameRuns, Run
    <3>3. CASE Sends(s)
      <4>1. Run(s) \in Runs /\ Answers(Run(s)) = 0 /\ job[Run(s)] = "doing"
        <5>1. Run(s) \in Runs
          BY <3>3, AtStepIsBusy
             DEF Sends, AnswerIInv, LockInv, Steps, PlainSteps, DeliverySteps
        <5>. QED
          BY <3>3, <5>1
             DEF Sends, AnswerIInv, AnswerInv, LockInv, SlotsHaveJobs, BeforeAnswering
      <4>2. \A t \in Slots : Run(t)' = Run(t)
        BY <3>1 DEF SameRuns, Run
      <4>3. ASSUME NEW r \in Runs
            PROVE  /\ Answers(r)' <= 1
                   /\ Answers(r)' > 0 => job'[r] \notin {"none", "todo"}
                   /\ \A t \in Slots : Run(t)' = r /\ slot'[t].pc \in BeforeAnswering =>
                         Answers(r)' = 0
        <5>1. CASE r = Run(s)
          BY <3>1, <3>3, <4>1, <4>2, <5>1 DEF Sends, AnswerIInv, LockInv, OneSlotPerRun
        <5>2. CASE r # Run(s)
          BY <3>1, <3>3, <4>2, <5>2 DEF Sends, AnswerIInv, AnswerInv
        <5>. QED
          BY <5>1, <5>2
      <4>. QED
        BY <4>3 DEF AnswerInv
    <3>. QED
      BY <2>1, <3>2, <3>3, StepAnswers DEF AnswerIInv, LockInv
  <2>2. CASE Return(s) \/ Raise(s)
    <3>1. PICK pc \in Steps, status \in {"succeeded", "failed"} : EndJob(s, pc, status)
      BY <2>2 DEF Return, Raise, Steps
    <3>2. mailed' = mailed
      BY <3>1 DEF EndJob
    <3>3. NoWayBack /\ \A t \in Slots : Run(t)' \in Runs => Run(t)' = Run(t)
      BY <3>1, RunExecutionAssumption
         DEF EndJob, NoWayBack, AnswerIInv, LockInv, TypeOK, IdleSlot, Run, BeforeAnswering
    <3>4. \A r \in Runs : job'[r] \in {"none", "todo"} => job[r] \in {"none", "todo"}
      BY <3>1 DEF EndJob, AnswerIInv, LockInv, TypeOK
    <3>. QED
      BY <3>2, <3>3, <3>4, AnswerStutter DEF SameAnswers, Answers
  <2>. QED
    BY <1>3, <2>1, <2>2 DEF StepOf
<1>4. CASE Crash \/ Recover
  <2>1. mailed' = mailed
    BY <1>4 DEF Crash, Recover
  <2>2. \A t \in Slots : slot'[t] = IdleSlot
    <3>1. CASE Crash
      BY <3>1 DEF Crash
    <3>2. CASE Recover
      <4>1. (\A t \in Slots : slot[t] = IdleSlot) /\ slot' = slot
        BY <3>2 DEF Recover
      <4>. QED
        BY <4>1
    <3>. QED
      BY <1>4, <3>1, <3>2
  <2>3. NoWayBack /\ \A t \in Slots : Run(t)' \notin Runs
    BY <2>2, RunExecutionAssumption DEF NoWayBack, IdleSlot, Run, BeforeAnswering
  <2>4. \A r \in Runs : job'[r] \in {"none", "todo"} => job[r] \in {"none", "todo"}
    BY <1>4 DEF Crash, Recover
  <2>. QED
    BY <2>1, <2>3, <2>4, AnswerStutter DEF SameAnswers, Answers
<1>5. CASE UNCHANGED vars
  <2>1. mailed' = mailed /\ slot' = slot /\ job' = job
    BY <1>5 DEF vars
  <2>. QED
    BY <2>1, AnswerStutter DEF SameAnswers, Answers, NoWayBack, Run
<1>. QED
  BY <1>1, <1>2, <1>3, <1>4, <1>5 DEF Next

\* At the start nothing is answered.
LEMMA NoAnswersYet ==
    ASSUME Init, NEW r \in Runs
    PROVE  Answers(r) = 0
<1>1. mailed[r] = [p \in Purposes |-> 0]
  BY DEF Init
<1>2. "reply" \in Purposes /\ "limited" \in Purposes
  BY DEF Purposes
<1>3. mailed[r]["reply"] = 0 /\ mailed[r]["limited"] = 0
  BY <1>1, <1>2
<1>. QED
  BY <1>3 DEF Answers

\* At the start the invariant of answers holds.
LEMMA AnswerInit ==
    ASSUME Init
    PROVE  AnswerIInv
<1>1. LockInv
  BY InitTypes, RunExecutionAssumption
     DEF Init, LockInv, SlotsHaveJobs, OneSlotPerRun, OneJobPerLock, Run, IdleSlot
<1>2. \A r \in Runs : Answers(r) = 0
  BY NoAnswersYet
<1>. QED
  BY <1>1, <1>2 DEF AnswerIInv, AnswerInv

\* No run is answered twice: see AtMostOneReply.
THEOREM AnsweredAtMostOnce == Spec => []AtMostOneReply
<1>1. Init => AnswerIInv
  BY AnswerInit
<1>2. AnswerIInv /\ [Next]_vars => AnswerIInv'
  BY LockStep, AnswerStep DEF AnswerIInv
<1>3. AnswerIInv => AtMostOneReply
  BY DEF AnswerIInv, AnswerInv, AtMostOneReply
<1>. QED
  BY <1>1, <1>2, <1>3, PTL DEF Spec

-----------------------------------------------------------------------------
(* RunExecution implements SerialExecution: its steps are arrivals, starts,*)
(* answers and ends of runs, or change nothing that SerialExecution sees.  *)

PhaseOf == [r \in Runs |-> Phase(r)]
Answered == {r \in Runs : Answers(r) > 0}

\* A step that changes neither jobs nor answers is a stutter.
LEMMA Stutter ==
    ASSUME UNCHANGED queue, SameAnswers
    PROVE  UNCHANGED Serial!vars
<1>1. Answered' = Answered
  BY DEF Answered, SameAnswers
<1>2. PhaseOf' = PhaseOf
  BY DEF PhaseOf, Phase, queue
<1>. QED
  BY <1>1, <1>2 DEF Serial!vars, queue, PhaseOf, Answered

\* Jobs that are doing end: the runs finish.
LEMMA JobsEnd ==
    ASSUME NEW S \in SUBSET Runs, NEW status \in JobStatuses \ {"none", "todo", "doing"},
           \A r \in S : job[r] = "doing",
           job' = [r \in Runs |-> IF r \in S THEN status ELSE job[r]],
           UNCHANGED <<ticket, issued, mailed>>
    PROVE  Serial!Finish(S)
<1>1. \A r \in S : Phase(r) = "active"
  BY DEF Phase
<1>2. \A r \in Runs : Phase(r)' = IF r \in S THEN "over" ELSE Phase(r)
  BY DEF Phase, JobStatuses
<1>3. Answered' = Answered
  BY DEF Answered, Answers
<1>. QED
  BY <1>1, <1>2, <1>3 DEF Serial!Finish, Answered

\* Deferring a job is the arrival of its run.
LEMMA EnqueueArrives ==
    ASSUME TypeOK, NEW r \in Runs, Enqueue(r)
    PROVE  Serial!Arrive(r)
<1>1. job[r] = "none" /\ \A q \in Runs : job'[q] = IF q = r THEN "todo" ELSE job[q]
  BY DEF Enqueue, TypeOK
<1>2. PhaseOf[r] = "new" /\ PhaseOf' = [PhaseOf EXCEPT ![r] = "waiting"]
  BY <1>1 DEF PhaseOf, Phase
<1>3. Answered' = Answered
  BY DEF Enqueue, effects, Answered, Answers
<1>. QED
  BY <1>2, <1>3 DEF Enqueue, Serial!Arrive, PhaseOf, Answered

\* Claiming a job starts its run: the lock is free and no older job waits for it.
LEMMA ClaimStarts ==
    ASSUME TypeOK, NEW s \in Slots, NEW r \in Runs, Claim(s, r)
    PROVE  Serial!Start(r)
<1>1. job[r] = "todo" /\ \A q \in Runs : job'[q] = IF q = r THEN "doing" ELSE job[q]
  BY DEF Claim, Claimable, TypeOK
<1>2. PhaseOf[r] = "waiting" /\ PhaseOf' = [PhaseOf EXCEPT ![r] = "active"]
  BY <1>1 DEF PhaseOf, Phase
<1>3. \A q \in Runs : AssistantOf[q] = AssistantOf[r] =>
         /\ PhaseOf[q] # "active"
         /\ PhaseOf[q] = "waiting" => ticket[r] <= ticket[q]
  BY DEF Claim, Claimable, SameAssistant, PhaseOf, Phase, TypeOK, JobStatuses
<1>4. Answered' = Answered
  BY DEF Claim, effects, Answered, Answers
<1>. QED
  BY <1>2, <1>3, <1>4 DEF Claim, Serial!Start, PhaseOf, Answered

\* Sending the answer is the answer of a run that is active and has none.
LEMMA SendAnswers ==
    ASSUME AnswerIInv, NEW s \in Slots, Sends(s), UNCHANGED queue
    PROVE  Serial!Answer(Run(s))
<1>1. Run(s) \in Runs /\ job[Run(s)] = "doing" /\ Answers(Run(s)) = 0
  <2>1. Run(s) \in Runs
    BY AtStepIsBusy DEF Sends, AnswerIInv, LockInv, Steps, PlainSteps, DeliverySteps
  <2>. QED
    BY <2>1 DEF Sends, AnswerIInv, AnswerInv, LockInv, SlotsHaveJobs, BeforeAnswering
<1>2. PhaseOf' = PhaseOf /\ PhaseOf[Run(s)] = "active"
  BY <1>1 DEF PhaseOf, Phase, queue
<1>3. Run(s) \notin Answered /\ Answered' = Answered \cup {Run(s)}
  BY <1>1 DEF Answered, Sends
<1>. QED
  BY <1>1, <1>2, <1>3 DEF Serial!Answer, PhaseOf, Answered, queue

\* Every step of the queue, the worker and the recovery.
LEMMA StepRefines ==
    ASSUME AnswerIInv, [Next]_vars
    PROVE  [Serial!Next]_(Serial!vars)
<1>. TypeOK
  BY DEF AnswerIInv, LockInv
<1>1. ASSUME NEW r \in Runs, Enqueue(r) PROVE Serial!Next
  BY <1>1, EnqueueArrives DEF Serial!Next
<1>2. ASSUME NEW s \in Slots, NEW r \in Runs, Claim(s, r) PROVE Serial!Next
  BY <1>2, ClaimStarts DEF Serial!Next
<1>3. ASSUME NEW s \in Slots, Execute(s) PROVE [Serial!Next]_(Serial!vars)
  <2>1. CASE StepOf(s)
    <3>1. UNCHANGED queue
      BY <2>1, StepTypes
    <3>2. CASE SameAnswers
      BY <3>1, <3>2, Stutter
    <3>3. CASE Sends(s)
      <4>1. Run(s) \in Runs
        BY <3>3, AtStepIsBusy DEF Sends, Steps, PlainSteps, DeliverySteps
      <4>. QED
        BY <3>1, <3>3, <4>1, SendAnswers DEF Serial!Next
    <3>. QED
      BY <2>1, <3>2, <3>3, StepAnswers
  <2>2. CASE Return(s) \/ Raise(s)
    <3>1. PICK pc \in Steps, status \in {"succeeded", "failed"} : EndJob(s, pc, status)
      BY <2>2 DEF Return, Raise, Steps
    <3>2. Run(s) \in Runs /\ job[Run(s)] = "doing"
      <4>1. Run(s) \in Runs
        BY <3>1, AtStepIsBusy DEF EndJob
      <4>. QED
        BY <4>1 DEF AnswerIInv, LockInv, SlotsHaveJobs
    <3>3. job' = [r \in Runs |-> IF r \in {Run(s)} THEN status ELSE job[r]]
      BY <3>1, <3>2 DEF EndJob, TypeOK, Run
    <3>4. UNCHANGED <<ticket, issued, mailed>>
      BY <3>1 DEF EndJob, effects
    <3>5. Serial!Finish({Run(s)})
      BY <3>2, <3>3, <3>4, JobsEnd DEF JobStatuses
    <3>. QED
      BY <3>2, <3>5 DEF Serial!Next
  <2>. QED
    BY <1>3, <2>1, <2>2 DEF StepOf
<1>4. CASE Crash
  BY <1>4, Stutter DEF Crash, effects, SameAnswers, Answers
<1>5. CASE Recover
  <2>. DEFINE S == {r \in Runs : job[r] = "doing"}
  <2>1. job' = [r \in Runs |-> IF r \in S THEN "cancelled" ELSE job[r]]
    BY <1>5 DEF Recover
  <2>2. Serial!Finish(S)
    BY <1>5, <2>1, JobsEnd DEF Recover, effects, JobStatuses
  <2>. QED
    BY <2>2 DEF Serial!Next
<1>6. CASE UNCHANGED vars
  BY <1>6, Stutter DEF vars, effects, SameAnswers, Answers
<1>. QED
  BY <1>1, <1>2, <1>3, <1>4, <1>5, <1>6 DEF Next

\* The initial states: nothing has arrived and nothing is answered.
LEMMA InitRefines ==
    ASSUME Init
    PROVE  Serial!Init
<1>1. \A r \in Runs : Phase(r) = "new"
  BY DEF Init, Phase
<1>2. ASSUME NEW r \in Runs
      PROVE  Answers(r) = 0
  BY NoAnswersYet
<1>. QED
  BY <1>1, <1>2 DEF Init, Serial!Init

\* The queue, the worker and the recovery implement the serial execution of the runs
\* of each assistant: see ImplementsSerialExecution.
THEOREM SerialRefinement == Spec => ImplementsSerialExecution
<1>1. Init => AnswerIInv /\ Serial!Init
  BY AnswerInit, InitRefines
<1>2. AnswerIInv /\ [Next]_vars => AnswerIInv'
  BY LockStep, AnswerStep DEF AnswerIInv
<1>3. AnswerIInv /\ [Next]_vars => [Serial!Next]_(Serial!vars)
  BY StepRefines
<1>. QED
  BY <1>1, <1>2, <1>3, PTL DEF Spec, ImplementsSerialExecution, Serial!Spec

-----------------------------------------------------------------------------
(* What the tables say about a run at each step of its execution.          *)

\* The wrapper that ends a failed execution does not fail itself.
WrapperHolds == MayRaise \cap {"unwind", "rescue"} = {}

\* Nothing raises once the answer may have left, until its completion is recorded and
\* the curation and the tally are done.
AnswerIsLast ==
    MayRaise \cap {"sent_but_raised", "record_limited", "record", "curate", "tally"} = {}

\* Every failure gets as far as its notification, and the notification leaves.
NoticesLeave == MayRaise \cap {"notice_lost", "notify_user", "unwind", "rescue"} = {}

\* A failure brings the usage of the model, and its record is the only one.
UsageSurvives ==
    "timeout" \notin Outcomes /\ MayRaise \cap {"record_quiet", "curate", "tally", "fail"} = {}

\* Nothing raises after the completion is recorded.
RecordIsLast == MayRaise \cap {"curate", "tally"} = {}

Working == {"decide", "setup", "agent", "send_limited", "record_limited", "record_quiet",
            "attachments", "send", "record"}

\* The steps at which the model has not been asked, nor will be in the latter three.
Unasked == {"load", "mark", "decide", "setup", "agent", "send_limited", "record_limited",
            "curate_limited", "label_limited"}

\* The steps before the ledger row of the run is written.
Uncharged == {"load", "mark", "decide", "setup", "agent", "send_limited", "record_limited",
              "record_quiet", "attachments", "send", "record", "fail"}

\* The mails to the end user about run r.
Told(r) == Answers(r) + mailed[r].apology

\* What slot s, which executes run r, finds in the row.
StatusAt(s, r) ==
    /\ slot[s].pc \in {"load", "mark"} => row[r].status = "queued"
    /\ slot[s].pc \in Working => row[r].status = "running"
    /\ slot[s].pc \in {"curate_limited", "label_limited", "curate", "tally"} =>
          row[r].status = "completed"
    /\ slot[s].pc = "tally_quiet" => row[r].status = "quiet_exited"
    /\ slot[s].pc \in {"notify_user", "notify_owner"} => row[r].status = "failed"
    /\ slot[s].pc = "fail" => row[r].status \in {"running", "completed"}
    /\ slot[s].pc = "rescue" => row[r].status \notin Final
    /\ slot[s].pc = "return" => row[r].status \in Final
    /\ RecordIsLast /\ slot[s].pc = "fail" => row[r].status = "running"
    /\ WrapperHolds /\ slot[s].pc = "raise" => row[r].status \in Final

\* What has been sent by then. An execution that sends an apology has sent nothing
\* before, and one that is over has sent something, or is quiet.
MailsAt(s, r) ==
    /\ slot[s].pc \in {"record_limited", "curate_limited", "label_limited"} =>
          mailed[r].limited >= 1
    /\ slot[s].pc \in {"record", "curate", "tally"} => mailed[r].reply >= 1
    /\ AnswerIsLast =>
          /\ slot[s].pc \in BeforeAnswering \cup {"record_quiet", "fail", "notify_user", "rescue"} =>
                Told(r) = 0
          /\ slot[s].pc = "unwind" /\ row[r].status \notin Final => Told(r) = 0
    /\ NoticesLeave =>
          (row[r].status \in Final /\ slot[s].pc # "notify_user" =>
              row[r].status = "quiet_exited" \/ Told(r) >= 1)

\* What has been charged by then.
ChargesAt(s, r) ==
    /\ slot[s].pc \in Unasked => r \notin burned
    /\ UsageSurvives =>
          /\ slot[s].pc \in Uncharged => ledger[r] = 0
          /\ slot[s].pc \notin Uncharged /\ r \in burned => ledger[r] = 1
          /\ slot[s].pc = "fail" /\ r \in burned => slot[s].usage

At(s, r) == StatusAt(s, r) /\ MailsAt(s, r) /\ ChargesAt(s, r)

\* A run that nobody has claimed is as it was created.
Fresh(r) ==
    job[r] \in {"none", "todo"} =>
        row[r].status = "queued" /\ Told(r) = 0 /\ ledger[r] = 0 /\ r \notin burned

\* What the row says of the run is so.
Honest(r) ==
    /\ row[r].status \notin Final => ~row[r].completed /\ ~row[r].reply
    /\ row[r].status = "completed" => Answers(r) >= 1 /\ row[r].reply
    /\ row[r].status = "budget_limited" => mailed[r].limited >= 1 /\ r \notin burned

\* How a run is left, given what may raise.
Left(r) ==
    /\ WrapperHolds => (row[r].status = "running" => job[r] = "doing")
    /\ AnswerIsLast => Told(r) <= 1
    /\ NoticesLeave => (Ended(r) => row[r].status = "quiet_exited" \/ Told(r) >= 1)
    /\ UsageSurvives => (Ended(r) /\ r \in burned => ledger[r] = 1)

RowInv ==
    /\ \A s \in Slots : \A r \in Runs : Run(s) = r => At(s, r)
    /\ \A r \in Runs : Fresh(r) /\ Honest(r) /\ Left(r)

RowIInv == AnswerIInv /\ RowInv

-----------------------------------------------------------------------------
(* The steps of an execution touch its own run and nothing else.           *)

OnlyItsRun(s) ==
    /\ job' = job
    /\ SameRuns
    /\ \A t \in Slots \ {s} : slot'[t] = slot[t]
    /\ \A q \in Runs \ {Run(s)} :
          /\ row'[q] = row[q] /\ ledger'[q] = ledger[q] /\ mailed'[q] = mailed[q]
          /\ q \in burned' <=> q \in burned

\* A step that is taken: where the slot was, where it is, and that it carries its usage.
LEMMA TakeEffect ==
    ASSUME TypeOK, NEW s \in Slots, NEW pc \in Steps, NEW next \in Steps, Take(s, pc, next)
    PROVE  /\ slot[s].pc = pc /\ slot'[s].pc = next /\ slot'[s].usage = slot[s].usage
           /\ \A t \in Slots \ {s} : slot'[t] = slot[t]
<1>1. slot[s] \in BusySlot
  BY AtStepIsBusy DEF Take
<1>2. slot' = [slot EXCEPT ![s] = [slot[s] EXCEPT !.pc = next]]
  BY DEF Take
<1>. QED
  BY <1>1, <1>2 DEF TypeOK, Take, BusySlot

\* The same for the step to a handler, which adds the usage when the agent had returned.
LEMMA ExceptEffect ==
    ASSUME TypeOK, NEW s \in Slots, slot[s].pc \in Raisable, Except(s)
    PROVE  /\ slot'[s].pc = Handler(slot[s].pc)
           /\ slot'[s].usage = (slot[s].usage \/ slot[s].pc \in DeliverySteps)
           /\ \A t \in Slots \ {s} : slot'[t] = slot[t]
<1>1. slot[s] \in BusySlot
  BY AtStepIsBusy DEF Raisable, Steps, FailureSteps
<1>. DEFINE next == Handler(slot[s].pc)
            usage == slot[s].usage \/ slot[s].pc \in DeliverySteps
            after == [slot[s] EXCEPT !.pc = next, !.usage = usage]
<1>2. slot' = [slot EXCEPT ![s] = after]
  BY DEF Except
<1>3. after.pc = next /\ after.usage = usage
  <2>. HIDE DEF next, usage
  <2>. QED
    BY <1>1 DEF BusySlot
<1>4. slot'[s] = after /\ \A t \in Slots \ {s} : slot'[t] = slot[t]
  <2>. HIDE DEF after
  <2>. QED
    BY <1>2 DEF TypeOK
<1>. QED
  BY <1>3, <1>4

\* A mail is counted once, for its run and its purpose.
LEMMA MailEffect ==
    ASSUME TypeOK, NEW s \in Slots, NEW r \in Runs, Run(s) = r, NEW p \in Purposes, Mail(s, p)
    PROVE  /\ \A q \in Runs \ {r} : mailed'[q] = mailed[q]
           /\ mailed'[r].reply = mailed[r].reply + IF p = "reply" THEN 1 ELSE 0
           /\ mailed'[r].limited = mailed[r].limited + IF p = "limited" THEN 1 ELSE 0
           /\ mailed'[r].apology = mailed[r].apology + IF p = "apology" THEN 1 ELSE 0
<1>1. mailed' = [mailed EXCEPT ![r] = [mailed[r] EXCEPT ![p] = mailed[r][p] + 1]]
  BY DEF Mail
<1>2. mailed[r] \in [Purposes -> Nat]
  BY DEF TypeOK
<1>3. mailed'[r] = [mailed[r] EXCEPT ![p] = mailed[r][p] + 1]
  BY <1>1 DEF TypeOK
<1>4. \A x \in Purposes : mailed'[r][x] = mailed[r][x] + IF p = x THEN 1 ELSE 0
  BY <1>2, <1>3
<1>5. \A q \in Runs \ {r} : mailed'[q] = mailed[q]
  BY <1>1 DEF TypeOK
<1>. QED
  BY <1>4, <1>5 DEF Purposes

\* A ledger row is added to the run.
LEMMA ChargeEffect ==
    ASSUME TypeOK, NEW s \in Slots, NEW r \in Runs, Run(s) = r, Charge(s)
    PROVE  ledger'[r] = ledger[r] + 1 /\ \A q \in Runs \ {r} : ledger'[q] = ledger[q]
BY DEF TypeOK, Charge

\* The row of the run is replaced.
LEMMA SetRowEffect ==
    ASSUME TypeOK, NEW s \in Slots, NEW r \in Runs, Run(s) = r, NEW x, SetRow(s, x)
    PROVE  row'[r] = x /\ \A q \in Runs \ {r} : row'[q] = row[q]
BY DEF TypeOK, SetRow

\* What the tables hold of a run.
LEMMA ColumnTypes ==
    ASSUME TypeOK, NEW r \in Runs
    PROVE  /\ row[r] \in Row /\ ledger[r] \in Nat
           /\ mailed[r].reply \in Nat /\ mailed[r].limited \in Nat /\ mailed[r].apology \in Nat
BY DEF TypeOK, Purposes

-----------------------------------------------------------------------------
(* One step at a time.                                                     *)

Keeps(s, r) == At(s, r)' /\ Honest(r)' /\ (AnswerIsLast => Told(r)' <= 1)

\* What is known of slot s, its run and their tables before a step.
LEMMA Before ==
    ASSUME RowIInv, NEW s \in Slots, NEW r \in Runs, Run(s) = r, StepOf(s)
    PROVE  /\ TypeOK /\ SameRuns /\ job' = job
           /\ StatusAt(s, r) /\ MailsAt(s, r) /\ ChargesAt(s, r)
           /\ Honest(r) /\ (AnswerIsLast => Told(r) <= 1)
<1>1. TypeOK
  BY DEF RowIInv, AnswerIInv, LockInv
<1>2. SameRuns /\ job' = job
  BY <1>1, StepTypes DEF queue
<1>3. At(s, r) /\ Honest(r) /\ Left(r)
  BY DEF RowIInv, RowInv
<1>. QED
  BY <1>1, <1>2, <1>3 DEF At, Left

\* A step that writes no table.
LEMMA MovesOn ==
    ASSUME RowIInv, NEW s \in Slots, NEW r \in Runs, Run(s) = r, StepOf(s),
           \/ LoadRun(s) \/ Decide(s) \/ SetUp(s) \/ ReadAttachments(s) \/ Unwind(s)
           \/ CurateLimited(s) \/ Curate(s) \/ Tally(s)
    PROVE  Keeps(s, r) /\ OnlyItsRun(s)
<1>. USE DEF Keeps, At, StatusAt, MailsAt, ChargesAt, Honest, Told, Answers
<1>1. /\ TypeOK /\ SameRuns /\ job' = job
      /\ At(s, r) /\ Honest(r) /\ (AnswerIsLast => Told(r) <= 1)
  BY Before
<1>2. UNCHANGED <<row, ledger, mailed, burned>>
  BY DEF LoadRun, Decide, SetUp, ReadAttachments, Unwind, CurateLimited, Curate, Tally, DeferCurate,
         tables, queue, effects
<1>3. ASSUME NEW pc \in Steps, NEW next \in Steps, Take(s, pc, next),
             \/ <<pc, next>> \in {<<"load", "mark">>, <<"decide", "setup">>, <<"setup", "agent">>,
                                  <<"decide", "send_limited">>, <<"attachments", "send">>,
                                  <<"curate_limited", "label_limited">>, <<"curate", "tally">>,
                                  <<"tally", "return">>, <<"tally_quiet", "return">>}
             \/ pc = "unwind" /\ next = IF row[r].status \in Final THEN "raise" ELSE "rescue"
      PROVE  Keeps(s, r) /\ OnlyItsRun(s)
  <2>1. /\ slot[s].pc = pc /\ slot'[s].pc = next /\ slot'[s].usage = slot[s].usage
        /\ \A t \in Slots \ {s} : slot'[t] = slot[t]
    BY <1>1, <1>3, TakeEffect
  <2>2. OnlyItsRun(s)
    BY <1>1, <1>2, <2>1 DEF OnlyItsRun
  <2>3. Keeps(s, r)
    BY <1>1, <1>2, <1>3, <2>1 DEF BeforeAnswering, Working, Unasked, Uncharged, Final, Statuses
  <2>. QED
    BY <2>2, <2>3
<1>4. PICK pc, next :
         /\ pc \in Steps /\ next \in Steps /\ Take(s, pc, next)
         /\ \/ <<pc, next>> \in {<<"load", "mark">>, <<"decide", "setup">>, <<"setup", "agent">>,
                                 <<"decide", "send_limited">>, <<"attachments", "send">>,
                                 <<"curate_limited", "label_limited">>, <<"curate", "tally">>,
                                 <<"tally", "return">>, <<"tally_quiet", "return">>}
            \/ pc = "unwind" /\ next = IF row[r].status \in Final THEN "raise" ELSE "rescue"
  BY DEF LoadRun, Decide, SetUp, ReadAttachments, Unwind, CurateLimited, Curate, Tally, Steps,
         PlainSteps, DeliverySteps, FailureSteps
<1>. QED
  BY <1>3, <1>4

\* A step that gives the row another status.
LEMMA Labels ==
    ASSUME RowIInv, NEW s \in Slots, NEW r \in Runs, Run(s) = r, StepOf(s),
           MarkRunning(s) \/ LabelLimited(s) \/ Rescue(s)
    PROVE  Keeps(s, r) /\ OnlyItsRun(s)
<1>. USE DEF Keeps, At, StatusAt, MailsAt, ChargesAt, Honest, Told, Answers
<1>1. /\ TypeOK /\ SameRuns /\ job' = job
      /\ At(s, r) /\ Honest(r) /\ (AnswerIsLast => Told(r) <= 1)
  BY Before
<1>2. UNCHANGED <<ledger, mailed, burned>>
  BY DEF MarkRunning, LabelLimited, Rescue, queue, effects
<1>3. ASSUME NEW pc \in Steps, NEW next \in Steps, Take(s, pc, next), NEW x, SetRow(s, x)
      PROVE  /\ OnlyItsRun(s) /\ row'[r] = x
             /\ slot[s].pc = pc /\ slot'[s].pc = next /\ slot'[s].usage = slot[s].usage
  BY <1>1, <1>2, <1>3, TakeEffect, SetRowEffect DEF OnlyItsRun
<1>4. CASE MarkRunning(s)
  <2>1. /\ OnlyItsRun(s) /\ row'[r] = [row[r] EXCEPT !.status = "running"]
        /\ slot[s].pc = "mark" /\ slot'[s].pc = "decide" /\ slot'[s].usage = slot[s].usage
    BY <1>3, <1>4 DEF MarkRunning, Steps, PlainSteps
  <2>2. /\ row'[r].status = "running" /\ row'[r].completed = row[r].completed
        /\ row'[r].reply = row[r].reply
    BY <1>1, <2>1, ColumnTypes DEF Row
  <2>. QED
    BY <1>1, <1>2, <2>1, <2>2 DEF BeforeAnswering, Working, Unasked, Uncharged, Final, Statuses
<1>5. CASE LabelLimited(s)
  <2>1. /\ OnlyItsRun(s) /\ row'[r] = [row[r] EXCEPT !.status = "budget_limited"]
        /\ slot[s].pc = "label_limited" /\ slot'[s].pc = "return" /\ slot'[s].usage = slot[s].usage
    BY <1>3, <1>5 DEF LabelLimited, Steps, PlainSteps
  <2>2. row'[r].status = "budget_limited"
    BY <1>1, <2>1, ColumnTypes DEF Row
  <2>3. mailed[r].reply \in Nat /\ mailed[r].limited \in Nat /\ mailed[r].apology \in Nat
    BY <1>1, ColumnTypes
  <2>. QED
    BY <1>1, <1>2, <2>1, <2>2, <2>3
       DEF BeforeAnswering, Working, Unasked, Uncharged, Final, Statuses
<1>6. CASE Rescue(s)
  <2>1. /\ OnlyItsRun(s) /\ row'[r] = [row[r] EXCEPT !.status = "failed", !.completed = TRUE]
        /\ slot[s].pc = "rescue" /\ slot'[s].pc = "notify_user" /\ slot'[s].usage = slot[s].usage
    BY <1>3, <1>6 DEF Rescue, MarkFailed, Steps, FailureSteps
  <2>2. row'[r].status = "failed"
    BY <1>1, <2>1, ColumnTypes DEF Row
  <2>. QED
    BY <1>1, <1>2, <2>1, <2>2 DEF BeforeAnswering, Working, Unasked, Uncharged, Final, Statuses
<1>. QED
  BY <1>4, <1>5, <1>6

\* A step that records how the run ended, and its charges.
LEMMA Records ==
    ASSUME RowIInv, NEW s \in Slots, NEW r \in Runs, Run(s) = r, StepOf(s),
           RecordLimited(s) \/ RecordCompletion(s) \/ RecordQuiet(s) \/ RecordFailure(s)
    PROVE  Keeps(s, r) /\ OnlyItsRun(s)
<1>. USE DEF Keeps, At, StatusAt, MailsAt, ChargesAt, Honest, Told, Answers
<1>1. /\ TypeOK /\ SameRuns /\ job' = job
      /\ At(s, r) /\ Honest(r) /\ (AnswerIsLast => Told(r) <= 1)
  BY Before
<1>2. UNCHANGED <<mailed, burned>>
  BY DEF RecordLimited, RecordCompletion, RecordQuiet, RecordFailure, effects
<1>3. ASSUME NEW pc \in Steps, NEW next \in Steps, Take(s, pc, next), NEW x, SetRow(s, x),
             Charge(s) \/ UNCHANGED ledger
      PROVE  /\ OnlyItsRun(s) /\ row'[r] = x
             /\ slot[s].pc = pc /\ slot'[s].pc = next /\ slot'[s].usage = slot[s].usage
  <2>1. \A q \in Runs \ {r} : ledger'[q] = ledger[q]
    BY <1>1, <1>3, ChargeEffect
  <2>. QED
    BY <1>1, <1>2, <1>3, <2>1, TakeEffect, SetRowEffect DEF OnlyItsRun
<1>4. /\ mailed[r].reply \in Nat /\ mailed[r].limited \in Nat /\ mailed[r].apology \in Nat
      /\ ledger[r] \in Nat
  BY <1>1, ColumnTypes
<1>5. CASE RecordLimited(s)
  <2>1. /\ OnlyItsRun(s)
        /\ row'[r] = [status |-> "completed", completed |-> TRUE, reply |-> TRUE,
                      history |-> FALSE \/ row[r].history]
        /\ slot[s].pc = "record_limited" /\ slot'[s].pc = "curate_limited"
        /\ slot'[s].usage = slot[s].usage
    BY <1>3, <1>5 DEF RecordLimited, Complete, Steps, PlainSteps
  <2>2. ledger'[r] = ledger[r] + 1
    BY <1>1, <1>5, ChargeEffect DEF RecordLimited, Complete
  <2>. QED
    BY <1>1, <1>2, <1>4, <2>1, <2>2
       DEF BeforeAnswering, Working, Unasked, Uncharged, Final, Statuses
<1>6. CASE RecordCompletion(s)
  <2>1. /\ OnlyItsRun(s)
        /\ row'[r] = [status |-> "completed", completed |-> TRUE, reply |-> TRUE,
                      history |-> TRUE]
        /\ slot[s].pc = "record" /\ slot'[s].pc = "curate"
        /\ slot'[s].usage = slot[s].usage
    BY <1>3, <1>6 DEF RecordCompletion, Complete, Steps, DeliverySteps
  <2>2. ledger'[r] = ledger[r] + 1
    BY <1>1, <1>6, ChargeEffect DEF RecordCompletion, Complete
  <2>. QED
    BY <1>1, <1>2, <1>4, <2>1, <2>2
       DEF BeforeAnswering, Working, Unasked, Uncharged, Final, Statuses
<1>7. CASE RecordQuiet(s)
  <2>1. /\ OnlyItsRun(s)
        /\ row'[r] = [status |-> "quiet_exited", completed |-> TRUE, reply |-> FALSE,
                      history |-> TRUE]
        /\ slot[s].pc = "record_quiet" /\ slot'[s].pc = "tally_quiet"
        /\ slot'[s].usage = slot[s].usage
    BY <1>3, <1>7 DEF RecordQuiet, Steps, PlainSteps
  <2>2. ledger'[r] = ledger[r] + 1
    BY <1>1, <1>7, ChargeEffect DEF RecordQuiet
  <2>. QED
    BY <1>1, <1>2, <1>4, <2>1, <2>2
       DEF BeforeAnswering, Working, Unasked, Uncharged, Final, Statuses
<1>8. CASE RecordFailure(s)
  <2>1. /\ OnlyItsRun(s)
        /\ row'[r] = [row[r] EXCEPT !.status = "failed", !.completed = TRUE]
        /\ slot[s].pc = "fail" /\ slot'[s].pc = "notify_user"
        /\ slot'[s].usage = slot[s].usage
    BY <1>3, <1>8 DEF RecordFailure, MarkFailed, Steps, FailureSteps
  <2>2. row'[r].status = "failed"
    BY <1>1, <2>1, ColumnTypes DEF Row
  <2>3. slot[s].usage => ledger'[r] = ledger[r] + 1
    BY <1>1, <1>8, ChargeEffect DEF RecordFailure
  <2>. QED
    BY <1>1, <1>2, <1>4, <2>1, <2>2, <2>3
       DEF BeforeAnswering, Working, Unasked, Uncharged, Final, Statuses
<1>. QED
  BY <1>5, <1>6, <1>7, <1>8

\* A step that sends a mail.
LEMMA Writes ==
    ASSUME RowIInv, NEW s \in Slots, NEW r \in Runs, Run(s) = r, StepOf(s),
           SendLimited(s) \/ SendReply(s) \/ NotifyUser(s) \/ NotifyOwner(s)
    PROVE  Keeps(s, r) /\ OnlyItsRun(s)
<1>. USE DEF Keeps, At, StatusAt, MailsAt, ChargesAt, Honest, Told, Answers
<1>1. /\ TypeOK /\ SameRuns /\ job' = job
      /\ At(s, r) /\ Honest(r) /\ (AnswerIsLast => Told(r) <= 1)
  BY Before
<1>2. UNCHANGED <<row, ledger, burned>>
  BY DEF SendLimited, SendReply, NotifyUser, NotifyOwner, Notify, tables
<1>3. ASSUME NEW pc \in Steps, NEW next \in Steps, Take(s, pc, next), NEW p \in Purposes,
             Mail(s, p) \/ UNCHANGED mailed
      PROVE  /\ OnlyItsRun(s)
             /\ slot[s].pc = pc /\ slot'[s].pc = next /\ slot'[s].usage = slot[s].usage
  <2>1. \A q \in Runs \ {r} : mailed'[q] = mailed[q]
    BY <1>1, <1>3, MailEffect
  <2>. QED
    BY <1>1, <1>2, <1>3, <2>1, TakeEffect DEF OnlyItsRun
<1>4. mailed[r].reply \in Nat /\ mailed[r].limited \in Nat /\ mailed[r].apology \in Nat
  BY <1>1, ColumnTypes
<1>5. CASE SendLimited(s)
  <2>1. /\ OnlyItsRun(s) /\ slot[s].pc = "send_limited" /\ slot'[s].pc = "record_limited"
        /\ slot'[s].usage = slot[s].usage
    BY <1>3, <1>5 DEF SendLimited, Purposes, Steps, PlainSteps
  <2>2. /\ mailed'[r].reply = mailed[r].reply /\ mailed'[r].limited = mailed[r].limited + 1
        /\ mailed'[r].apology = mailed[r].apology
    BY <1>1, <1>4, <1>5, MailEffect DEF SendLimited, Purposes
  <2>. QED
    BY <1>1, <1>2, <1>4, <2>1, <2>2
       DEF BeforeAnswering, Working, Unasked, Uncharged, Final, Statuses
<1>6. CASE SendReply(s)
  <2>1. /\ OnlyItsRun(s) /\ slot[s].pc = "send" /\ slot'[s].pc = "record"
        /\ slot'[s].usage = slot[s].usage
    BY <1>3, <1>6 DEF SendReply, Purposes, Steps, DeliverySteps
  <2>2. /\ mailed'[r].reply = mailed[r].reply + 1 /\ mailed'[r].limited = mailed[r].limited
        /\ mailed'[r].apology = mailed[r].apology
    BY <1>1, <1>4, <1>6, MailEffect DEF SendReply, Purposes
  <2>. QED
    BY <1>1, <1>2, <1>4, <2>1, <2>2
       DEF BeforeAnswering, Working, Unasked, Uncharged, Final, Statuses
<1>7. CASE NotifyUser(s)
  <2>1. /\ OnlyItsRun(s) /\ slot[s].pc = "notify_user" /\ slot'[s].pc = "notify_owner"
        /\ slot'[s].usage = slot[s].usage
    BY <1>3, <1>7 DEF NotifyUser, Notify, Purposes, Steps, FailureSteps
  <2>2. \/ UNCHANGED mailed /\ ~NoticesLeave
        \/ /\ mailed'[r].reply = mailed[r].reply /\ mailed'[r].limited = mailed[r].limited
           /\ mailed'[r].apology = mailed[r].apology + 1
    BY <1>1, <1>4, <1>7, MailEffect DEF NotifyUser, Notify, NoticesLeave, Purposes
  <2>. QED
    BY <1>1, <1>2, <1>4, <2>1, <2>2
       DEF BeforeAnswering, Working, Unasked, Uncharged, Final, Statuses
<1>8. CASE NotifyOwner(s)
  <2>1. /\ OnlyItsRun(s) /\ slot[s].pc = "notify_owner" /\ slot'[s].pc = "unwind"
        /\ slot'[s].usage = slot[s].usage
    BY <1>3, <1>8 DEF NotifyOwner, Notify, Purposes, Steps, FailureSteps
  <2>2. /\ mailed'[r].reply = mailed[r].reply /\ mailed'[r].limited = mailed[r].limited
        /\ mailed'[r].apology = mailed[r].apology
    BY <1>1, <1>4, <1>8, MailEffect DEF NotifyOwner, Notify, Purposes
  <2>. QED
    BY <1>1, <1>2, <1>4, <2>1, <2>2
       DEF BeforeAnswering, Working, Unasked, Uncharged, Final, Statuses
<1>. QED
  BY <1>5, <1>6, <1>7, <1>8

\* The agent ends.
LEMMA AgentKeeps ==
    ASSUME RowIInv, NEW s \in Slots, NEW r \in Runs, Run(s) = r, StepOf(s), AgentEnds(s)
    PROVE  Keeps(s, r) /\ OnlyItsRun(s)
<1>. USE DEF Keeps, At, StatusAt, MailsAt, ChargesAt, Honest, Told, Answers
<1>1. /\ TypeOK /\ SameRuns /\ job' = job
      /\ At(s, r) /\ Honest(r) /\ (AnswerIsLast => Told(r) <= 1)
  BY Before
<1>2. UNCHANGED <<row, ledger, mailed>> /\ slot[s].pc = "agent"
  BY DEF AgentEnds, tables, effects
<1>3. PICK outcome \in Outcomes :
         /\ slot' = [slot EXCEPT ![s].pc = CASE outcome = "reply" -> "attachments"
                                             [] outcome = "quiet" -> "record_quiet"
                                             [] OTHER -> "fail",
                                 ![s].usage = outcome = "error_usage"]
         /\ burned' = IF outcome = "error" THEN burned ELSE burned \cup {Run(s)}
  BY DEF AgentEnds
<1>. DEFINE next == CASE outcome = "reply" -> "attachments"
                      [] outcome = "quiet" -> "record_quiet"
                      [] OTHER -> "fail"
            usage == outcome = "error_usage"
            after == [slot[s] EXCEPT !.pc = next, !.usage = usage]
<1>4. slot[s] \in BusySlot
  BY <1>1, <1>2, AtStepIsBusy DEF Steps
<1>5. after.pc = next /\ after.usage = usage
  <2>. HIDE DEF next, usage
  <2>. QED
    BY <1>4 DEF BusySlot
<1>6. slot'[s] = after /\ \A t \in Slots \ {s} : slot'[t] = slot[t]
  <2>1. slot' = [slot EXCEPT ![s] = after]
    BY <1>3
  <2>. HIDE DEF after
  <2>. QED
    BY <1>1, <2>1 DEF TypeOK
<1>7. OnlyItsRun(s)
  BY <1>1, <1>2, <1>3, <1>6 DEF OnlyItsRun
<1>8. slot'[s].pc = next /\ slot'[s].usage = usage
  BY <1>5, <1>6
<1>9. outcome \in AgentOutcomes /\ (UsageSurvives => outcome # "timeout")
  BY RunExecutionAssumption DEF UsageSurvives
<1>10. /\ next = "record_quiet" \/ next = "attachments" \/ next = "fail"
       /\ next = "fail" => outcome \in {"error", "error_usage", "timeout"}
  BY <1>9 DEF AgentOutcomes
<1>11. next = "fail" /\ r \in burned' /\ UsageSurvives => usage
  BY <1>1, <1>2, <1>3, <1>9, <1>10 DEF Unasked
<1>. HIDE DEF next, usage, after
<1>12. StatusAt(s, r)'
  BY <1>1, <1>2, <1>8, <1>10 DEF Working, Final, Statuses
<1>13. MailsAt(s, r)'
  BY <1>1, <1>2, <1>8, <1>10 DEF Working, Final, Statuses, BeforeAnswering
<1>14. ChargesAt(s, r)'
  BY <1>1, <1>2, <1>8, <1>10, <1>11 DEF Uncharged, Unasked
<1>15. Honest(r)' /\ (AnswerIsLast => Told(r)' <= 1)
  BY <1>1, <1>2 DEF Working, Final, Statuses
<1>. QED
  BY <1>7, <1>12, <1>13, <1>14, <1>15

\* A step raises, before it has written anything or after a mail has left.
LEMMA RaisesKeeps ==
    ASSUME RowIInv, NEW s \in Slots, NEW r \in Runs, Run(s) = r, StepOf(s),
           StepRaises(s) \/ SendRaisesLate(s)
    PROVE  Keeps(s, r) /\ OnlyItsRun(s)
<1>. USE DEF Keeps, At, StatusAt, MailsAt, ChargesAt, Honest, Told, Answers
<1>1. /\ TypeOK /\ SameRuns /\ job' = job
      /\ At(s, r) /\ Honest(r) /\ (AnswerIsLast => Told(r) <= 1)
  BY Before
<1>2. UNCHANGED <<row, ledger, burned>>
  BY DEF StepRaises, SendRaisesLate, tables
<1>3. slot[s].pc \in Raisable /\ Except(s)
  BY <1>1, AtRaisable DEF StepRaises, SendRaisesLate, Raisable, PlainSteps, DeliverySteps
<1>4. /\ slot'[s].pc = Handler(slot[s].pc)
      /\ slot'[s].usage = (slot[s].usage \/ slot[s].pc \in DeliverySteps)
      /\ \A t \in Slots \ {s} : slot'[t] = slot[t]
  BY <1>1, <1>3, ExceptEffect
<1>5. /\ slot[s].pc \in DeliverySteps => slot'[s].pc = "fail" /\ slot'[s].usage
      /\ slot[s].pc \in PlainSteps \cup {"fail", "notify_user"} => slot'[s].pc = "unwind"
      /\ slot[s].pc \in {"unwind", "rescue"} => slot'[s].pc = "raise"
  BY <1>4 DEF Handler, DeliverySteps, PlainSteps
<1>6. mailed[r].reply \in Nat /\ mailed[r].limited \in Nat /\ mailed[r].apology \in Nat
  BY <1>1, ColumnTypes
<1>7. CASE StepRaises(s)
  <2>1. UNCHANGED mailed /\ slot[s].pc \in MayRaise
    BY <1>7 DEF StepRaises, effects
  <2>2. OnlyItsRun(s)
    BY <1>1, <1>2, <1>4, <2>1 DEF OnlyItsRun
  <2>3. StatusAt(s, r)'
    BY <1>1, <1>2, <1>3, <1>5, <2>1
       DEF Raisable, DeliverySteps, PlainSteps, Working, Final, Statuses, RecordIsLast, WrapperHolds
  <2>4. MailsAt(s, r)'
    BY <1>1, <1>2, <1>3, <1>5, <1>6, <2>1
       DEF Raisable, DeliverySteps, PlainSteps, Working, Final, Statuses, BeforeAnswering,
           AnswerIsLast, NoticesLeave
  <2>5. ChargesAt(s, r)'
    BY <1>1, <1>2, <1>3, <1>5, <2>1
       DEF Raisable, DeliverySteps, PlainSteps, Unasked, Uncharged, UsageSurvives
  <2>. QED
    BY <1>1, <1>2, <2>1, <2>2, <2>3, <2>4, <2>5
<1>8. CASE SendRaisesLate(s)
  <2>1. /\ ~AnswerIsLast
        /\ slot[s].pc = "send" \/ slot[s].pc = "send_limited"
    BY <1>8 DEF SendRaisesLate, AnswerIsLast
  <2>2. /\ \A q \in Runs \ {r} : mailed'[q] = mailed[q]
        /\ mailed'[r].reply >= mailed[r].reply /\ mailed'[r].limited >= mailed[r].limited
        /\ mailed'[r].apology = mailed[r].apology
        /\ mailed'[r].reply \in Nat /\ mailed'[r].limited \in Nat
        /\ Answers(r)' >= 1
    BY <1>1, <1>6, <1>8, MailEffect DEF SendRaisesLate, Purposes
  <2>3. OnlyItsRun(s)
    BY <1>1, <1>2, <1>4, <2>2 DEF OnlyItsRun
  <2>4. slot'[s].pc \in {"fail", "unwind"} /\ row[r].status = "running"
    BY <1>1, <1>5, <2>1 DEF DeliverySteps, PlainSteps, Working
  <2>5. StatusAt(s, r)'
    BY <1>2, <2>4 DEF Working
  <2>6. MailsAt(s, r)'
    BY <1>2, <2>1, <2>4 DEF Final
  <2>7. ChargesAt(s, r)'
    BY <1>1, <1>2, <1>5, <2>1 DEF DeliverySteps, PlainSteps, Unasked, Uncharged
  <2>8. Honest(r)'
    BY <1>1, <1>2, <2>4 DEF Final, Statuses
  <2>. QED
    BY <2>1, <2>3, <2>5, <2>6, <2>7, <2>8
<1>. QED
  BY <1>7, <1>8

-----------------------------------------------------------------------------
(* The whole system.                                                       *)

\* A slot that takes a step executes a run.
LEMMA StepHasRun ==
    ASSUME TypeOK, NEW s \in Slots, StepOf(s)
    PROVE  Run(s) \in Runs
<1>1. CASE StepRaises(s)
  BY <1>1, AtRaisable, AtStepIsBusy DEF Raisable, Steps, FailureSteps
<1>2. CASE ~StepRaises(s)
  <2>1. slot[s].pc \in Steps
    BY <1>2 DEF StepOf, Execute, LoadRun, MarkRunning, Decide, SetUp, AgentEnds, SendLimited,
       RecordLimited, CurateLimited, LabelLimited, RecordQuiet, Tally, ReadAttachments, SendReply,
       RecordCompletion, Curate, SendRaisesLate, RecordFailure, NotifyUser, NotifyOwner, Notify,
       Unwind, Rescue, Take, Steps, PlainSteps, DeliverySteps, FailureSteps
  <2>. QED
    BY <2>1, AtStepIsBusy
<1>. QED
  BY <1>1, <1>2

\* What the steps keep of a run they keep of all: no other slot executes it.
LEMMA StepRow ==
    ASSUME RowIInv, NEW s \in Slots, StepOf(s)
    PROVE  RowInv'
<1>1. TypeOK /\ LockInv
  BY DEF RowIInv, AnswerIInv, LockInv
<1>2. PICK r \in Runs : Run(s) = r
  BY <1>1, StepHasRun
<1>3. Keeps(s, r) /\ OnlyItsRun(s)
  BY <1>2, MovesOn, Labels, Records, Writes, AgentKeeps, RaisesKeeps DEF StepOf, Execute
<1>4. job[r] = "doing" /\ \A t \in Slots \ {s} : Run(t) # r
  BY <1>1, <1>2 DEF LockInv, SlotsHaveJobs, OneSlotPerRun
<1>5. ASSUME NEW t \in Slots, NEW q \in Runs, Run(t)' = q PROVE At(t, q)'
  <2>1. Run(t) = q
    BY <1>3, <1>5 DEF OnlyItsRun, SameRuns, Run
  <2>2. CASE t = s
    BY <1>2, <1>3, <2>1, <2>2 DEF Keeps
  <2>3. CASE t # s
    <3>1. q # r /\ At(t, q)
      BY <1>4, <2>1, <2>3 DEF RowIInv, RowInv
    <3>2. /\ row'[q] = row[q] /\ ledger'[q] = ledger[q] /\ mailed'[q] = mailed[q]
          /\ q \in burned' <=> q \in burned
          /\ slot'[t] = slot[t]
      BY <1>2, <1>3, <2>3, <3>1 DEF OnlyItsRun
    <3>. QED
      BY <3>1, <3>2 DEF At, StatusAt, MailsAt, ChargesAt, Told, Answers
  <2>. QED
    BY <2>2, <2>3
<1>6. ASSUME NEW q \in Runs PROVE (Fresh(q) /\ Honest(q) /\ Left(q))'
  <2>1. job' = job
    BY <1>3 DEF OnlyItsRun
  <2>2. CASE q = r
    <3>1. Honest(r)' /\ (AnswerIsLast => Told(r)' <= 1) /\ job'[r] = "doing"
      BY <1>3, <1>4, <2>1 DEF Keeps
    <3>2. Fresh(r)' /\ Left(r)'
      BY <3>1 DEF Fresh, Left, Ended
    <3>. QED
      BY <2>2, <3>1, <3>2
  <2>3. CASE q # r
    <3>1. /\ row'[q] = row[q] /\ ledger'[q] = ledger[q] /\ mailed'[q] = mailed[q]
          /\ q \in burned' <=> q \in burned
      BY <1>2, <1>3, <2>3 DEF OnlyItsRun
    <3>2. Fresh(q) /\ Honest(q) /\ Left(q)
      BY DEF RowIInv, RowInv
    <3>. QED
      BY <2>1, <3>1, <3>2 DEF Fresh, Honest, Left, Ended, Told, Answers
  <2>. QED
    BY <2>2, <2>3
<1>. QED
  BY <1>5, <1>6 DEF RowInv

\* The end of a job leaves a run of which the tables say all there is to say.
LEMMA EndRow ==
    ASSUME RowIInv, NEW s \in Slots, Return(s) \/ Raise(s)
    PROVE  RowInv'
<1>1. TypeOK /\ LockInv
  BY DEF RowIInv, AnswerIInv, LockInv
<1>2. PICK pc \in {"return", "raise"}, status \in {"succeeded", "failed"} : EndJob(s, pc, status)
  BY DEF Return, Raise
<1>3. PICK r \in Runs : Run(s) = r /\ slot[s].pc = pc
  BY <1>1, <1>2, AtStepIsBusy DEF EndJob, Steps
<1>4. /\ slot'[s] = IdleSlot /\ \A t \in Slots \ {s} : slot'[t] = slot[t]
      /\ job'[r] \in {"succeeded", "failed"} /\ \A q \in Runs \ {r} : job'[q] = job[q]
  <2>1. job[r] = "doing"
    BY <1>1, <1>3 DEF LockInv, SlotsHaveJobs
  <2>. QED
    BY <1>1, <1>2, <1>3, <2>1 DEF EndJob, TypeOK, Run
<1>5. UNCHANGED <<row, ledger, mailed, burned>>
  BY <1>2 DEF EndJob, tables, effects
<1>6. ASSUME NEW t \in Slots, NEW q \in Runs, Run(t)' = q PROVE At(t, q)'
  <2>1. t # s /\ slot'[t] = slot[t] /\ Run(t) = q
    BY <1>4, <1>6, RunExecutionAssumption DEF IdleSlot, Run
  <2>2. At(t, q)
    BY <2>1 DEF RowIInv, RowInv
  <2>. QED
    BY <1>5, <2>1, <2>2 DEF At, StatusAt, MailsAt, ChargesAt, Told, Answers
<1>7. ASSUME NEW q \in Runs PROVE (Fresh(q) /\ Honest(q) /\ Left(q))'
  <2>1. Fresh(q) /\ Honest(q) /\ Left(q)
    BY DEF RowIInv, RowInv
  <2>2. Honest(q)' /\ (Told(q)' = Told(q))
    BY <1>5, <2>1 DEF Honest, Told, Answers
  <2>3. CASE q # r
    BY <1>4, <1>5, <2>1, <2>2, <2>3 DEF Fresh, Left, Ended
  <2>4. CASE q = r
    <3>0. slot[s].pc = "return" \/ slot[s].pc = "raise"
      BY <1>2, <1>3
    <3>1. StatusAt(s, r) /\ MailsAt(s, r) /\ ChargesAt(s, r)
      BY <1>3 DEF RowIInv, RowInv, At
    <3>2. WrapperHolds => row[r].status \in Final
      BY <3>0, <3>1 DEF StatusAt
    <3>3. NoticesLeave => row[r].status = "quiet_exited" \/ Told(r) >= 1
      BY <3>0, <3>1, <3>2 DEF MailsAt, NoticesLeave, WrapperHolds
    <3>4. UsageSurvives => (r \in burned => ledger[r] = 1)
      BY <3>0, <3>1 DEF ChargesAt, Uncharged
    <3>5. Fresh(r)'
      BY <1>4 DEF Fresh
    <3>6. Left(r)'
      BY <1>5, <2>1, <2>2, <2>4, <3>2, <3>3, <3>4 DEF Left, Final
    <3>. QED
      BY <2>2, <2>4, <3>5, <3>6
  <2>. QED
    BY <2>3, <2>4
<1>. QED
  BY <1>6, <1>7 DEF RowInv

\* Every step keeps what the tables say.
LEMMA RowStep ==
    ASSUME RowIInv, [Next]_vars
    PROVE  RowInv'
<1>0. TypeOK /\ LockInv
  BY DEF RowIInv, AnswerIInv, LockInv
<1>1. ASSUME NEW r \in Runs, Enqueue(r) PROVE RowInv'
  <2>1. UNCHANGED <<slot, row, ledger, mailed, burned>>
    BY <1>1 DEF Enqueue, tables, effects
  <2>2. job[r] = "none" /\ \A q \in Runs : job'[q] = IF q = r THEN "todo" ELSE job[q]
    BY <1>0, <1>1 DEF Enqueue, TypeOK
  <2>3. ASSUME NEW t \in Slots, NEW q \in Runs, Run(t)' = q PROVE At(t, q)'
    <3>1. Run(t) = q /\ At(t, q)
      BY <2>1, <2>3 DEF Run, RowIInv, RowInv
    <3>. QED
      BY <2>1, <3>1 DEF At, StatusAt, MailsAt, ChargesAt, Told, Answers
  <2>4. ASSUME NEW q \in Runs PROVE (Fresh(q) /\ Honest(q) /\ Left(q))'
    <3>1. Fresh(q) /\ Honest(q) /\ Left(q)
      BY DEF RowIInv, RowInv
    <3>2. Honest(q)' /\ Told(q)' = Told(q)
      BY <2>1, <3>1 DEF Honest, Told, Answers
    <3>. QED
      BY <2>1, <2>2, <3>1, <3>2 DEF Fresh, Left, Ended
  <2>. QED
    BY <2>3, <2>4 DEF RowInv
<1>2. ASSUME NEW s \in Slots, NEW r \in Runs, Claim(s, r) PROVE RowInv'
  <2>1. UNCHANGED <<row, ledger, mailed, burned>>
    BY <1>2 DEF Claim, tables, effects
  <2>2. /\ job[r] = "todo" /\ \A q \in Runs : job'[q] = IF q = r THEN "doing" ELSE job[q]
        /\ slot'[s] = [run |-> r, pc |-> "load", usage |-> FALSE]
        /\ \A t \in Slots \ {s} : slot'[t] = slot[t]
    BY <1>0, <1>2 DEF Claim, Claimable, TypeOK
  <2>3. Fresh(r)
    BY DEF RowIInv, RowInv
  <2>4. ASSUME NEW t \in Slots, NEW q \in Runs, Run(t)' = q PROVE At(t, q)'
    <3>1. CASE t = s
      <4>1. q = r /\ slot'[t].pc = "load" /\ ~slot'[t].usage
        BY <2>2, <2>4, <3>1 DEF Run
      <4>2. /\ row[r].status = "queued" /\ ledger[r] = 0 /\ r \notin burned
            /\ Told(r) = 0 /\ Told(r)' = 0
        BY <2>1, <2>2, <2>3 DEF Fresh, Told, Answers
      <4>3. StatusAt(t, q)'
        BY <2>1, <4>1, <4>2 DEF StatusAt, Working
      <4>4. MailsAt(t, q)'
        BY <2>1, <4>1, <4>2 DEF MailsAt, Final
      <4>5. ChargesAt(t, q)'
        BY <2>1, <4>1, <4>2 DEF ChargesAt, Uncharged
      <4>. QED
        BY <4>3, <4>4, <4>5 DEF At
    <3>2. CASE t # s
      <4>1. slot'[t] = slot[t] /\ Run(t) = q /\ At(t, q)
        BY <2>2, <2>4, <3>2 DEF Run, RowIInv, RowInv
      <4>. QED
        BY <2>1, <4>1 DEF At, StatusAt, MailsAt, ChargesAt, Told, Answers
    <3>. QED
      BY <3>1, <3>2
  <2>5. ASSUME NEW q \in Runs PROVE (Fresh(q) /\ Honest(q) /\ Left(q))'
    <3>1. Fresh(q) /\ Honest(q) /\ Left(q)
      BY DEF RowIInv, RowInv
    <3>2. Honest(q)' /\ Told(q)' = Told(q)
      BY <2>1, <3>1 DEF Honest, Told, Answers
    <3>. QED
      BY <2>1, <2>2, <3>1, <3>2 DEF Fresh, Left, Ended
  <2>. QED
    BY <2>4, <2>5 DEF RowInv
<1>3. ASSUME NEW s \in Slots, Execute(s) PROVE RowInv'
  BY <1>3, StepRow, EndRow DEF StepOf
<1>4. CASE Crash
  <2>1. UNCHANGED <<job, row, ledger, mailed, burned>>
    BY <1>4 DEF Crash, tables, queue, effects
  <2>2. \A t \in Slots : Run(t)' \notin Runs
    BY <1>4, RunExecutionAssumption DEF Crash, Run, IdleSlot
  <2>3. ASSUME NEW q \in Runs PROVE (Fresh(q) /\ Honest(q) /\ Left(q))'
    <3>1. Fresh(q) /\ Honest(q) /\ Left(q)
      BY DEF RowIInv, RowInv
    <3>. QED
      BY <2>1, <3>1 DEF Fresh, Honest, Left, Ended, Told, Answers
  <2>. QED
    BY <2>2, <2>3 DEF RowInv
<1>5. CASE Recover
  <2>1. UNCHANGED <<ledger, mailed, burned>> /\ \A t \in Slots : Run(t)' \notin Runs
    <3>1. UNCHANGED <<ledger, mailed, burned>> /\ slot' = slot /\ \A t \in Slots : slot[t] = IdleSlot
      BY <1>5 DEF Recover, effects
    <3>. QED
      BY <3>1, RunExecutionAssumption DEF Run, IdleSlot
  <2>2. ASSUME NEW q \in Runs PROVE (Fresh(q) /\ Honest(q) /\ Left(q))'
    <3>1. Fresh(q) /\ Honest(q) /\ Left(q)
      BY DEF RowIInv, RowInv
    <3>2. Told(q)' = Told(q) /\ Answers(q)' = Answers(q)
      BY <2>1 DEF Told, Answers
    <3>3. CASE job[q] # "doing"
      <4>1. row'[q] = row[q] /\ job'[q] = job[q]
        BY <1>5, <3>3 DEF Recover
      <4>. QED
        BY <2>1, <3>1, <3>2, <4>1 DEF Fresh, Honest, Left, Ended
    <3>4. CASE job[q] = "doing"
      <4>1. job'[q] = "cancelled"
        BY <1>5, <3>4 DEF Recover
      <4>2. \/ row[q].status \notin Final /\ row'[q] = [row[q] EXCEPT !.status = "failed", !.completed = TRUE]
            \/ row[q].status \in Final /\ row'[q] = row[q]
        BY <1>5, <3>1, <3>4 DEF Recover, Honest
      <4>3. row'[q].status \in Final /\ (row'[q].status = "failed" \/ row'[q] = row[q])
        BY <1>0, <4>2, ColumnTypes DEF Row, Final, Statuses
      <4>. QED
        BY <2>1, <3>1, <3>2, <4>1, <4>3 DEF Fresh, Honest, Left, Ended, Final, Statuses
    <3>. QED
      BY <3>3, <3>4
  <2>. QED
    BY <2>1, <2>2 DEF RowInv
<1>6. CASE UNCHANGED vars
  <2>1. UNCHANGED <<slot, job, row, ledger, mailed, burned>>
    BY <1>6 DEF vars, tables, queue, effects
  <2>2. ASSUME NEW t \in Slots, NEW q \in Runs, Run(t)' = q PROVE At(t, q)'
    <3>1. Run(t) = q /\ At(t, q)
      BY <2>1, <2>2 DEF Run, RowIInv, RowInv
    <3>. QED
      BY <2>1, <3>1 DEF At, StatusAt, MailsAt, ChargesAt, Told, Answers
  <2>3. ASSUME NEW q \in Runs PROVE (Fresh(q) /\ Honest(q) /\ Left(q))'
    <3>1. Fresh(q) /\ Honest(q) /\ Left(q)
      BY DEF RowIInv, RowInv
    <3>. QED
      BY <2>1, <3>1 DEF Fresh, Honest, Left, Ended, Told, Answers
  <2>. QED
    BY <2>2, <2>3 DEF RowInv
<1>. QED
  BY <1>1, <1>2, <1>3, <1>4, <1>5, <1>6 DEF Next

LEMMA RowInit == ASSUME Init PROVE RowIInv
<1>1. AnswerIInv
  BY AnswerInit
<1>2. \A s \in Slots : Run(s) \notin Runs
  BY RunExecutionAssumption DEF Init, Run, IdleSlot
<1>3. ASSUME NEW r \in Runs PROVE Fresh(r) /\ Honest(r) /\ Left(r)
  <2>1. /\ row[r].status = "queued" /\ ~row[r].completed /\ ~row[r].reply /\ job[r] = "none"
        /\ ledger[r] = 0 /\ r \notin burned
    BY DEF Init
  <2>2. mailed[r].apology = 0
    <3>1. mailed[r] = [p \in Purposes |-> 0] /\ "apology" \in Purposes
      BY DEF Init, Purposes
    <3>. QED
      BY <3>1
  <2>3. Told(r) = 0
    BY <2>2, NoAnswersYet DEF Told
  <2>. QED
    BY <2>1, <2>3 DEF Fresh, Honest, Left, Ended, Final
<1>. QED
  BY <1>1, <1>2, <1>3 DEF RowIInv, RowInv

LEMMA RowInvariance == Spec => []RowIInv
<1>1. Init => RowIInv
  BY RowInit
<1>2. RowIInv /\ [Next]_vars => RowIInv'
  BY LockStep, AnswerStep, RowStep DEF RowIInv, AnswerIInv
<1>. QED
  BY <1>1, <1>2, PTL DEF Spec

-----------------------------------------------------------------------------
(* What follows for the properties.                                        *)

\* The row never claims an answer that did not leave, whatever raises and however the
\* worker dies (record_completion after send_reply, the label of a limited run).
THEOREM RowsTellTheTruth == Spec => []CompletedMeansAnswered
<1>1. RowIInv => CompletedMeansAnswered
  BY DEF RowIInv, RowInv, Honest, CompletedMeansAnswered
<1>. QED
  BY <1>1, RowInvariance, PTL

\* If run_agent's wrapper does not raise itself, a run that is shown as running has a
\* job that is doing: a worker executes it, or the recovery will find it.
THEOREM RunningRunsHaveJobs ==
    ASSUME WrapperHolds
    PROVE  Spec => []RunningIsOwned
<1>1. RowIInv => RunningIsOwned
  BY DEF RowIInv, RowInv, Left, RunningIsOwned
<1>. QED
  BY <1>1, RowInvariance, PTL

\* If nothing raises from the acceptance of the answer to the tally, no run gets a second
\* mail: no apology follows an answer, also when other steps raise or the worker dies.
THEOREM OneMailPerRun ==
    ASSUME AnswerIsLast
    PROVE  Spec => []AtMostOneAnswer
<1>1. RowIInv => AtMostOneAnswer
  BY DEF RowIInv, RowInv, Left, Told, AtMostOneAnswer
<1>. QED
  BY <1>1, RowInvariance, PTL

\* If failures reach their notification and the notification leaves, every run that is
\* over answered, apologised or chose to be quiet, whatever else raises.
THEOREM NoRunEndsSilently ==
    ASSUME NoticesLeave
    PROVE  Spec => []NoSilentRun
<1>1. RowIInv => NoSilentRun
  BY DEF RowIInv, RowInv, Left, Told, NoSilentRun
<1>. QED
  BY <1>1, RowInvariance, PTL

\* If failures bring their usage and the transactions that follow the model's work hold,
\* the ledger has one row for every run that is over and consumed tokens.
THEOREM TokensAreCharged ==
    ASSUME UsageSurvives
    PROVE  Spec => []BurnedIsCharged
<1>1. RowIInv => BurnedIsCharged
  BY DEF RowIInv, RowInv, Left, BurnedIsCharged
<1>. QED
  BY <1>1, RowInvariance, PTL

\* The label of a limited run is the only change of a final status.
LEMMA FinalStep ==
    ASSUME RecordIsLast, RowIInv, [Next]_vars, NEW r \in Runs,
           row[r].status \in Final, row'[r].status # row[r].status
    PROVE  /\ row[r].status = "completed" /\ row'[r].status = "budget_limited"
           /\ mailed[r].limited = 1 /\ mailed[r].reply = 0
<1>1. TypeOK /\ AtMostOneReply
  BY DEF RowIInv, AnswerIInv, LockInv, AnswerInv, AtMostOneReply
<1>2. row' # row
  OBVIOUS
<1>3. ~Recover
  BY DEF Recover
<1>4. PICK s \in Slots : Execute(s) /\ StepOf(s)
  BY <1>2, <1>3 DEF Next, Enqueue, Claim, Crash, Return, Raise, EndJob, StepOf, tables, vars
<1>5. PICK q \in Runs : Run(s) = q
  BY <1>1, <1>4, StepHasRun
<1>6. OnlyItsRun(s)
  BY <1>4, <1>5, MovesOn, Labels, Records, Writes, AgentKeeps, RaisesKeeps DEF StepOf, Execute
<1>7. q = r
  BY <1>5, <1>6 DEF OnlyItsRun
<1>8. StatusAt(s, r) /\ MailsAt(s, r)
  BY <1>5, <1>7 DEF RowIInv, RowInv, At
<1>9. LabelLimited(s)
  BY <1>2, <1>4, <1>8
     DEF Execute, StepOf, LoadRun, MarkRunning, Decide, SetUp, AgentEnds, SendLimited,
         RecordLimited, CurateLimited, DeferCurate, RecordQuiet, Tally, ReadAttachments, SendReply,
         RecordCompletion, Curate, StepRaises, SendRaisesLate, RecordFailure, NotifyUser,
         NotifyOwner, Notify, Unwind, Rescue, Take, tables, StatusAt, Working, Final, Statuses
<1>10. row[r].status = "completed" /\ mailed[r].limited >= 1
  BY <1>8, <1>9 DEF LabelLimited, Take, StatusAt, MailsAt
<1>11. row'[r].status = "budget_limited"
  <2>1. row'[r] = [row[r] EXCEPT !.status = "budget_limited"]
    BY <1>1, <1>5, <1>7, <1>9, SetRowEffect DEF LabelLimited
  <2>. QED
    BY <1>1, <2>1, ColumnTypes DEF Row
<1>12. mailed[r].limited = 1 /\ mailed[r].reply = 0
  BY <1>1, <1>10, ColumnTypes DEF AtMostOneReply, Answers
<1>. QED
  BY <1>10, <1>11, <1>12

\* If nothing raises after the completion is recorded, a run keeps its final status, but
\* for the label of a limited run, which had the limit reply and no other.
THEOREM FinishedRunsStayFinished ==
    ASSUME RecordIsLast
    PROVE  Spec => FinishedStaysFinished
<1>1. RowIInv /\ [Next]_vars =>
        [\A r \in Runs :
            row[r].status \in Final /\ row'[r].status # row[r].status =>
               /\ row[r].status = "completed" /\ row'[r].status = "budget_limited"
               /\ mailed[r].limited = 1 /\ mailed[r].reply = 0]_vars
  BY FinalStep
<1>. QED
  BY <1>1, RowInvariance, PTL DEF Spec, FinishedStaysFinished
=============================================================================
