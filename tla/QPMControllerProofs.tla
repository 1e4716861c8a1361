------------------------ MODULE QPMControllerProofs ------------------------
(***************************************************************************)
(* What holds of the controller's state for any number of threads and      *)
(* tasks and any limits, whatever order the operations come in.            *)
(***************************************************************************)
EXTENDS QPMController, FiniteSetTheorems, TLAPS

\* A task the scheduler has selected, that has not ended and is not started.
Waiting(t) == sched[t] = "selected" /\ ~Ended(t)

AloneSelected == \A x, y \in selected : x = y

NewIsUnknown ==
    \A t \in Tasks : st[t] = "NEW" => sched[t] = "absent" /\ t \notin known

InflightStarted == \A t \in inflight : sched[t] \in {"running", "ended"}

WaitingIsSelected == \A t \in Tasks : Waiting(t) => t \in selected

\* A task can end and stay selected in the scheduler only by being rejected,
\* which takes a reservation that is no longer active; retry_pending_capacity,
\* which can bring an ended task back, needs one that is.
EndedIsUnselected ==
    \A t \in known :
        st[t] \in Terminal /\ sched[t] = "selected" => reservation # "active"

\* The place a waiting task was selected for is still free.
PlaceIsKept ==
    DispatchLimit # 0 =>
        /\ Cardinality(inflight) <= DispatchLimit
        /\ \A t \in Tasks : Waiting(t) => Cardinality(inflight) < DispatchLimit

SelectionInv ==
    /\ AloneSelected
    /\ NewIsUnknown
    /\ InflightStarted
    /\ WaitingIsSelected
    /\ EndedIsUnselected
    /\ PlaceIsKept

IInv == TypeOK /\ SelectionInv

----------------------------------------------------------------------------
\* A selection names a task whenever it gives one.
LEMMA SelectionTask ==
    ASSUME TypeOK, NEW p \in Threads, NEW c \in Selections(p)
    PROVE  /\ c.kind \in {"again", "new", "unknown", "none"}
           /\ c.kind = "again" => c.task \in Live
           /\ c.kind \in {"new", "unknown"} =>
                 c.task \in Queue /\ Live = {} /\ CanSelect
           /\ c.kind = "new" => c.task \in known
           /\ c.kind = "unknown" => c.task \notin known
BY DEF Selections, NewSelections, NoSelection

\* A selection names a task.
LEMMA SelectionTyped ==
    ASSUME TypeOK, NEW p \in Threads, NEW c \in Selections(p)
    PROVE  c.kind # "none" => c.task \in Tasks
BY SelectionTask DEF Live, Queue, TypeOK

USE DEF taskVars, dispatchVars, usageVars, hostVars, reservationVars

\* The end of a task keeps the types.
LEMMA FinishTyped ==
    ASSUME TypeOK, NEW t \in Tasks, NEW o \in Terminal, FinishTask(t, o),
           records' \in [Tasks -> RecordCounts]
    PROVE  TypeOK'
<1>1. CASE Ended(t)
  BY <1>1 DEF FinishTask, TypeOK
<1>2. CASE ~Ended(t)
  BY <1>2 DEF FinishTask, TypeOK, ReconcileTaskHold, EndInScheduler,
       DropClaim, SetState, States, SchedStates
<1>. QED BY <1>1, <1>2

\* Publishing records keeps their counts typed.
LEMMA EnqueueTyped ==
    ASSUME TypeOK, NEW ts, Enqueue(ts)
    PROVE  records' \in [Tasks -> RecordCounts]
BY ControllerAssumption DEF Enqueue, Counted, TypeOK, RecordCounts

\* Every operation of a task keeps the types.
LEMMA TaskOperationTyped ==
    ASSUME TypeOK, NEW t \in Tasks, TaskOperation(t)
    PROVE  TypeOK'
<1>1. CASE RegisterCircuit(t)
  BY <1>1 DEF RegisterCircuit, TypeOK, SetState, States
<1>2. ASSUME NEW d \in Decisions, AuthorizeCapacityHold(t, d)
      PROVE  TypeOK'
  BY <1>2 DEF AuthorizeCapacityHold, Decisions, TypeOK, SetState, States,
       Terminal
<1>3. CASE SubmitQtaskToScheduler(t)
  BY <1>3 DEF SubmitQtaskToScheduler, TypeOK, SetState, States, SchedStates
<1>4. CASE SubmissionFails(t)
  BY <1>4, FinishTyped, EnqueueTyped
  DEF SubmissionFails, FailScheduledTask, Terminal
<1>5. CASE ReleaseDispatchClaim(t)
  BY <1>5 DEF ReleaseDispatchClaim, TypeOK, DropClaim
<1>6. CASE ConsumeForDispatch(t)
  BY <1>6 DEF ConsumeForDispatch, TypeOK, SetState, States
<1>7. CASE StartProviderSubmission(t)
  BY <1>7 DEF StartProviderSubmission, TypeOK, SetState, States, DropClaim,
       SchedStates
<1>8. CASE BindProviderHandle(t)
  BY <1>8 DEF BindProviderHandle, TypeOK
<1>9. CASE CompleteScheduledTask(t)
  BY <1>9, FinishTyped DEF CompleteScheduledTask, Terminal, TypeOK
<1>10. ASSUME NEW b \in BOOLEAN, FailScheduledTask(t, b)
       PROVE  TypeOK'
  BY <1>10, FinishTyped, EnqueueTyped DEF FailScheduledTask, Terminal
<1>11. CASE PublishCompletion(t)
  <2>1. records' \in [Tasks -> RecordCounts]
    BY <1>11, EnqueueTyped DEF PublishCompletion
  <2>2. CASE ~Ended(t) /\ t \in circuits
    BY <1>11, <2>1, <2>2, FinishTyped DEF PublishCompletion, Terminal
  <2>3. CASE ~(~Ended(t) /\ t \in circuits)
    BY <1>11, <2>1, <2>3 DEF PublishCompletion, TypeOK
  <2>. QED BY <2>2, <2>3
<1>12. CASE SetFail(t)
  BY <1>12 DEF SetFail, TypeOK
<1>13. CASE ReturnHosts(t)
  BY <1>13 DEF ReturnHosts, Cleanup, DropClaim, TypeOK
<1>14. CASE DeferLocalRetry(t)
  BY <1>14 DEF DeferLocalRetry, TypeOK, SetState, States
<1>15. CASE DeleteCircuit(t)
  BY <1>15 DEF DeleteCircuit, Cleanup, DropClaim, TypeOK
<1>16. CASE CancelTask(t)
  <2>1. records' \in [Tasks -> RecordCounts]
    BY <1>16, EnqueueTyped DEF CancelTask, TypeOK
  <2>. QED
    BY <1>16, <2>1 DEF CancelTask, TypeOK, ReconcileTaskHold, EndInScheduler,
         DropClaim, SetState, States, SchedStates, Terminal
<1>. QED
  BY <1>1, <1>2, <1>3, <1>4, <1>5, <1>6, <1>7, <1>8, <1>9, <1>10, <1>11,
     <1>12, <1>13, <1>14, <1>15, <1>16
  DEF TaskOperation, ProviderOperation

\* Every operation keeps the types.
LEMMA NextTyped ==
    ASSUME TypeOK, [Next]_cvars
    PROVE  TypeOK'
<1>1. ASSUME NEW t \in Tasks, TaskOperation(t)
      PROVE  TypeOK'
  BY <1>1, TaskOperationTyped
<1>2. ASSUME NEW p \in Threads, NEW c \in Selections(p), SelectQtask(p, c)
      PROVE  TypeOK'
  BY <1>2, SelectionTask, SelectionTyped
  DEF SelectQtask, TypeOK, Live, SetState, States, SchedStates
<1>3. ASSUME NEW a \in SUBSET pending, RetryPendingCapacity(a)
      PROVE  TypeOK'
  BY <1>3 DEF RetryPendingCapacity, TypeOK, SetState, States, Terminal
<1>4. CASE CloseReservation
  <2>1. records' \in [Tasks -> RecordCounts]
    BY <1>4, ControllerAssumption DEF CloseReservation, TypeOK, RecordCounts, Counted
  <2>. QED
    BY <1>4, <2>1 DEF CloseReservation, Kept, Closing, TypeOK, SetState, States,
         Terminal, EndInScheduler, SchedStates
<1>5. CASE UNCHANGED cvars
  BY <1>5 DEF cvars, TypeOK
<1>. QED BY <1>1, <1>2, <1>3, <1>4, <1>5 DEF Next

----------------------------------------------------------------------------
\* The tasks in flight can be counted.
LEMMA InflightFinite ==
    ASSUME TypeOK
    PROVE  IsFiniteSet(inflight) /\ Cardinality(inflight) \in Nat
BY FS_Subset, FS_CardinalityType, ControllerAssumption DEF TypeOK

\* Most operations only end tasks: they start none, select none, and leave
\* the ones that wait in the selection.
LEMMA EndingSteps ==
    ASSUME IInv, TypeOK', NewIsUnknown', EndedIsUnselected',
           selected' \subseteq selected,
           inflight' \subseteq inflight,
           \A t \in Tasks : sched'[t] \in {sched[t], "ended"}
                              \/ sched[t] = "absent",
           \A t \in Tasks : Waiting(t)' =>
               Waiting(t) /\ (t \in selected => t \in selected')
    PROVE  SelectionInv'
<1>1. AloneSelected'
  BY DEF IInv, SelectionInv, AloneSelected
<1>2. InflightStarted'
  BY DEF IInv, SelectionInv, InflightStarted, TypeOK
<1>3. WaitingIsSelected'
  BY DEF IInv, SelectionInv, WaitingIsSelected
<1>4. Cardinality(inflight') <= Cardinality(inflight)
        /\ Cardinality(inflight') \in Nat /\ Cardinality(inflight) \in Nat
  BY InflightFinite, FS_Subset, FS_CardinalityType DEF IInv
<1>5. PlaceIsKept'
  BY <1>4, ControllerAssumption DEF IInv, SelectionInv, PlaceIsKept
<1>. QED BY <1>1, <1>2, <1>3, <1>5 DEF SelectionInv

\* The one step that uses a place: the task waits, so a place is free, and no
\* other task waits, so the one it takes is not another's.
LEMMA StartSelection ==
    ASSUME IInv, NEW t \in Tasks, sched[t] # "absent",
           StartProviderSubmission(t), TypeOK'
    PROVE  SelectionInv'
<1>1. CASE StartOutcome(t) # "started"
  BY <1>1, EndingSteps
  DEF StartProviderSubmission, IInv, SelectionInv, NewIsUnknown,
      EndedIsUnselected, Waiting, Ended, TypeOK
<1>2. CASE StartOutcome(t) = "started"
  <2>1. Waiting(t) /\ t \notin inflight
    BY <1>2 DEF StartOutcome, Waiting
  <2>2. /\ sched' = [sched EXCEPT ![t] = "running"]
        /\ selected' = selected \ {t}
        /\ inflight' = inflight \cup {t}
        /\ st' = [x \in Tasks |-> IF x = t THEN "SUBMITTED" ELSE st[x]]
        /\ UNCHANGED <<known, reservation>>
    BY <1>2 DEF StartProviderSubmission, SetState, IInv, TypeOK
  <2>3. AloneSelected' /\ NewIsUnknown' /\ InflightStarted'
          /\ EndedIsUnselected'
    BY <2>1, <2>2
    DEF IInv, SelectionInv, AloneSelected, NewIsUnknown, InflightStarted,
        EndedIsUnselected, Waiting, Ended, TypeOK, Terminal
  <2>4. \A x \in Tasks : ~Waiting(x)'
    BY <2>1, <2>2
    DEF IInv, SelectionInv, AloneSelected, WaitingIsSelected, Waiting, Ended,
        TypeOK
  <2>5. WaitingIsSelected'
    BY <2>4 DEF WaitingIsSelected
  <2>6. Cardinality(inflight') = Cardinality(inflight) + 1
          /\ Cardinality(inflight) \in Nat
    BY <2>1, <2>2, InflightFinite, FS_AddElement DEF IInv
  <2>7. PlaceIsKept'
    BY <2>1, <2>4, <2>6, ControllerAssumption
    DEF IInv, SelectionInv, PlaceIsKept
  <2>. QED BY <2>3, <2>5, <2>7 DEF SelectionInv
<1>. QED BY <1>1, <1>2

\* Every operation of a task keeps the invariant of the selection.
LEMMA TaskOperationSelection ==
    ASSUME IInv, NEW t \in Tasks, TaskOperation(t)
    PROVE  SelectionInv'
<1>0. TypeOK'
  BY TaskOperationTyped DEF IInv
<1>1. CASE RegisterCircuit(t)
  BY <1>1, <1>0, EndingSteps
  DEF RegisterCircuit, IInv, SelectionInv, NewIsUnknown,
      EndedIsUnselected, Waiting, Ended, TypeOK, Terminal, SetState
<1>2. ASSUME NEW d \in Decisions, AuthorizeCapacityHold(t, d)
      PROVE  SelectionInv'
  BY <1>2, <1>0, EndingSteps
  DEF AuthorizeCapacityHold, IInv, SelectionInv, NewIsUnknown,
      EndedIsUnselected, Waiting, Ended, TypeOK, Terminal, Decisions, SetState
<1>3. CASE SubmitQtaskToScheduler(t)
  BY <1>3, <1>0, EndingSteps
  DEF SubmitQtaskToScheduler, IInv, SelectionInv, NewIsUnknown,
      EndedIsUnselected, Waiting, Ended, TypeOK, Terminal, SetState
<1>4. ASSUME NEW o \in Terminal, FinishTask(t, o)
      PROVE  SelectionInv'
  BY <1>4, <1>0, EndingSteps, SMTT(60) DEF FinishTask, IInv, SelectionInv, NewIsUnknown, EndedIsUnselected,
      Waiting, Ended, TypeOK, Terminal, EndInScheduler, SetState
<1>5. CASE ReleaseDispatchClaim(t)
  BY <1>5, <1>0, EndingSteps
  DEF ReleaseDispatchClaim, IInv, SelectionInv, NewIsUnknown,
      EndedIsUnselected, Waiting, Ended, TypeOK, Terminal
<1>6. CASE ConsumeForDispatch(t)
  BY <1>6, <1>0, EndingSteps
  DEF ConsumeForDispatch, IInv, SelectionInv, NewIsUnknown,
      EndedIsUnselected, Waiting, Ended, TypeOK, Terminal, SetState
<1>8. CASE BindProviderHandle(t)
  BY <1>8, <1>0, EndingSteps
  DEF BindProviderHandle, IInv, SelectionInv, NewIsUnknown,
      EndedIsUnselected, Waiting, Ended, TypeOK, Terminal
<1>9. CASE CompleteScheduledTask(t)
  BY <1>9, <1>4 DEF CompleteScheduledTask, Terminal
<1>10. ASSUME NEW b \in BOOLEAN, FailScheduledTask(t, b)
       PROVE  SelectionInv'
  BY <1>10, <1>4 DEF FailScheduledTask, Terminal
<1>11. CASE SubmissionFails(t)
  BY <1>11, <1>10 DEF SubmissionFails
<1>12. CASE PublishCompletion(t)
  <2>1. CASE ~Ended(t) /\ t \in circuits
    BY <1>12, <1>4, <2>1 DEF PublishCompletion, Terminal
  <2>2. CASE ~(~Ended(t) /\ t \in circuits)
    BY <1>12, <1>0, <2>2, EndingSteps
    DEF PublishCompletion, IInv, SelectionInv, NewIsUnknown,
        EndedIsUnselected, Waiting, Ended, TypeOK
  <2>. QED BY <2>1, <2>2
<1>13. CASE SetFail(t)
  BY <1>13, <1>0, EndingSteps
  DEF SetFail, IInv, SelectionInv, NewIsUnknown,
      EndedIsUnselected, Waiting, Ended, TypeOK, Terminal
<1>14. CASE ReturnHosts(t)
  BY <1>14, <1>0, EndingSteps
  DEF ReturnHosts, IInv, SelectionInv, NewIsUnknown,
      EndedIsUnselected, Waiting, Ended, TypeOK, Terminal, Cleanup
<1>15. CASE DeferLocalRetry(t)
  BY <1>15, <1>0, EndingSteps
  DEF DeferLocalRetry, IInv, SelectionInv, NewIsUnknown,
      EndedIsUnselected, Waiting, Ended, TypeOK, Terminal, SetState
<1>16. CASE DeleteCircuit(t)
  BY <1>16, <1>0, EndingSteps
  DEF DeleteCircuit, IInv, SelectionInv, NewIsUnknown,
      EndedIsUnselected, Waiting, Ended, TypeOK, Terminal, Cleanup
<1>17. CASE CancelTask(t)
  BY <1>17, <1>0, EndingSteps
  DEF CancelTask, IInv, SelectionInv, NewIsUnknown,
      EndedIsUnselected, Waiting, Ended, TypeOK, Terminal, CancelOutcome,
      EndInScheduler, SetState
<1>18. CASE sched[t] # "absent" /\ StartProviderSubmission(t)
  BY <1>18, <1>0, StartSelection, SMTT(60)
<1>. QED
  BY <1>1, <1>2, <1>3, <1>5, <1>6, <1>8, <1>9, <1>10, <1>11, <1>12, <1>13,
     <1>14, <1>15, <1>16, <1>17, <1>18
  DEF TaskOperation, ProviderOperation

\* The step that promises a place: none is selected that still lives, and the
\* limit was looked at under the same hold of the lock.
LEMMA SelectSelection ==
    ASSUME IInv, NEW p \in Threads, NEW c \in Selections(p),
           SelectQtask(p, c), TypeOK'
    PROVE  SelectionInv'
<1>1. Live \subseteq selected /\ selected \subseteq Tasks
  BY DEF Live, IInv, TypeOK
<1>2. CASE c.kind = "new"
  <2>1. c.task \in Queue \cap known /\ Live = {} /\ CanSelect
    BY <1>2, SelectionTask DEF IInv
  <2>2. /\ selected' = {c.task}
        /\ sched' = [t \in Tasks |-> IF t = c.task THEN "selected"
                                                  ELSE sched[t]]
        /\ st' = [t \in Tasks |-> IF t = c.task THEN "SELECTED" ELSE st[t]]
        /\ UNCHANGED <<known, inflight, reservation>>
    BY <1>2, <2>1 DEF SelectQtask, SetState
  <2>3. AloneSelected' /\ NewIsUnknown' /\ InflightStarted'
          /\ EndedIsUnselected'
    BY <2>1, <2>2
    DEF IInv, SelectionInv, AloneSelected, NewIsUnknown, InflightStarted,
        EndedIsUnselected, Queue, TypeOK, Terminal
  <2>4. WaitingIsSelected'
    BY <2>1, <2>2
    DEF IInv, SelectionInv, WaitingIsSelected, Waiting, Ended, Live, TypeOK
  <2>5. PlaceIsKept'
    BY <2>1, <2>2, InflightFinite, ControllerAssumption
    DEF IInv, PlaceIsKept, CanSelect
  <2>. QED BY <2>3, <2>4, <2>5 DEF SelectionInv
<1>3. CASE c.kind = "unknown"
  <2>1. c.task \in Queue \ known /\ Live = {}
    BY <1>3, SelectionTask DEF IInv
  <2>2. /\ selected' = {}
        /\ sched' = [t \in Tasks |-> IF t = c.task THEN "selected"
                                                  ELSE sched[t]]
        /\ st' = st
        /\ UNCHANGED <<known, inflight, reservation>>
    BY <1>3, <2>1 DEF SelectQtask, SetState, IInv, TypeOK
  <2>3. AloneSelected' /\ NewIsUnknown' /\ InflightStarted'
    BY <2>1, <2>2
    DEF IInv, SelectionInv, AloneSelected, NewIsUnknown, InflightStarted,
        Queue, TypeOK
  <2>4. EndedIsUnselected'
    BY <2>1, <2>2 DEF IInv, SelectionInv, EndedIsUnselected, TypeOK
  <2>5. WaitingIsSelected' /\ PlaceIsKept'
    BY <2>1, <2>2
    DEF IInv, SelectionInv, WaitingIsSelected, PlaceIsKept, Waiting, Ended,
        Live, TypeOK
  <2>. QED BY <2>3, <2>4, <2>5 DEF SelectionInv
<1>4. CASE c.kind \in {"again", "none"}
  <2>1. /\ selected' = Live
        /\ UNCHANGED <<sched, st, known, inflight, reservation>>
    BY <1>4, SelectionTask DEF SelectQtask, SetState, IInv, TypeOK
  <2>. QED
    BY <2>1, <1>1, EndingSteps
    DEF IInv, SelectionInv, NewIsUnknown, EndedIsUnselected, Waiting, Ended,
        Live, TypeOK
<1>. QED BY <1>2, <1>3, <1>4, SelectionTask DEF IInv

\* So does every step.
LEMMA NextSelection ==
    ASSUME IInv, [Next]_cvars
    PROVE  SelectionInv'
<1>0. TypeOK'
  BY NextTyped DEF IInv
<1>1. ASSUME NEW t \in Tasks, TaskOperation(t)
      PROVE  SelectionInv'
  BY <1>1, TaskOperationSelection
<1>2. ASSUME NEW p \in Threads, NEW c \in Selections(p), SelectQtask(p, c)
      PROVE  SelectionInv'
  BY <1>2, <1>0, SelectSelection
<1>3. ASSUME NEW a \in SUBSET pending, RetryPendingCapacity(a)
      PROVE  SelectionInv'
  BY <1>3, <1>0, EndingSteps
  DEF RetryPendingCapacity, IInv, SelectionInv, NewIsUnknown,
      EndedIsUnselected, Waiting, Ended, TypeOK, Terminal, SetState
<1>4. CASE CloseReservation
  BY <1>4, <1>0, EndingSteps
  DEF CloseReservation, Closing, IInv, SelectionInv, NewIsUnknown,
      EndedIsUnselected, Waiting, Ended, TypeOK, Terminal, SetState,
      EndInScheduler
<1>5. CASE UNCHANGED cvars
  BY <1>5, <1>0, EndingSteps
  DEF cvars, IInv, SelectionInv, NewIsUnknown,
      EndedIsUnselected, Waiting, Ended, TypeOK
<1>. QED BY <1>1, <1>2, <1>3, <1>4, <1>5 DEF Next

\* The controller starts with nothing selected.
LEMMA InitIInv == Init => IInv
<1>. SUFFICES ASSUME Init PROVE IInv
  OBVIOUS
<1>1. TypeOK
  BY ControllerAssumption
  DEF Init, TypeOK, States, Terminal, SchedStates, RecordCounts
<1>2. Cardinality(inflight) = 0
  BY FS_EmptySet DEF Init
<1>3. SelectionInv
  BY <1>2, ControllerAssumption
  DEF Init, SelectionInv, AloneSelected, NewIsUnknown, InflightStarted,
      WaitingIsSelected, EndedIsUnselected, PlaceIsKept, Waiting, Terminal
<1>. QED BY <1>1, <1>3 DEF IInv

----------------------------------------------------------------------------
\* The controller's variables keep their types under every operation.
THEOREM ControllerTyped == ControllerSpec => []TypeOK
<1>1. Init => TypeOK
  BY InitIInv DEF IInv
<1>2. TypeOK /\ [Next]_cvars => TypeOK'
  BY NextTyped
<1>. QED BY <1>1, <1>2, PTL DEF ControllerSpec

\* The inductive invariant of the controller holds throughout.
LEMMA ControllerIInv == ControllerSpec => []IInv
<1>1. IInv /\ [Next]_cvars => IInv'
  BY NextTyped, NextSelection DEF IInv
<1>. QED BY <1>1, InitIInv, PTL DEF ControllerSpec

\* Whatever the threads do, at most one task is selected at a time.
THEOREM SelectionIsSingle == ControllerSpec => []OneSelected
<1>1. IInv => OneSelected
  <2>. SUFFICES ASSUME IInv PROVE OneSelected
    OBVIOUS
  <2>1. CASE selected = {}
    BY <2>1, FS_EmptySet DEF OneSelected
  <2>2. CASE selected # {}
    <3>1. PICK t : t \in selected
      BY <2>2
    <3>2. selected = {t}
      BY <3>1 DEF IInv, SelectionInv, AloneSelected
    <3>3. Cardinality({t}) = 1
      BY FS_Singleton, Zenon
    <3>. QED BY <3>2, <3>3 DEF OneSelected
  <2>. QED BY <2>1, <2>2
<1>. QED BY <1>1, ControllerIInv, PTL

\* Whatever the threads do, the dispatch limit is kept: the place looked at
\* when a task is selected is still there when it is started.
THEOREM LimitIsKept == ControllerSpec => []InflightWithinLimit
<1>1. IInv => InflightWithinLimit
  BY DEF IInv, SelectionInv, PlaceIsKept, InflightWithinLimit
<1>. QED BY <1>1, ControllerIInv, PTL

\* Both bounds of dispatch, which selection alone looks at, hold throughout.
THEOREM DispatchIsBounded == ControllerSpec => []DispatchBounded
<1>1. OneSelected /\ InflightWithinLimit => DispatchBounded
  BY DEF DispatchBounded
<1>. QED BY <1>1, SelectionIsSingle, LimitIsKept, PTL

----------------------------------------------------------------------------
\* The slots that are out, one pair for each.
Taken == {x \in Tasks \X Nat : x[2] # 0 /\ x[2] <= debt[x[1]]}

\* Every slot is free or out.
SlotsAdd ==
    /\ TypeOK
    /\ \A t \in Tasks : debt[t] >= 0
    /\ IsFiniteSet(Taken)
    /\ free + Cardinality(Taken) = Slots

\* Consuming hosts for a task takes one slot out.
LEMMA ConsumeAdds ==
    ASSUME SlotsAdd, TypeOK', NEW t \in Tasks, ConsumeForDispatch(t)
    PROVE  SlotsAdd'
<1>1. /\ debt \in [Tasks -> Int] /\ \A u \in Tasks : debt[u] >= 0
      /\ debt' = [debt EXCEPT ![t] = debt[t] + 1] /\ free' = free - 1
      /\ free \in Nat
  BY DEF SlotsAdd, TypeOK, ConsumeForDispatch
<1>2. PICK y : y = <<t, debt[t] + 1>>
  BY Zenon
<1>3. y \notin Taken
  BY <1>1, <1>2 DEF Taken
<1>4. Taken' = Taken \cup {y}
  <2>1. \A x \in Tasks \X Nat : x \in Taken' <=> x \in Taken \cup {y}
    <3>. SUFFICES ASSUME NEW u \in Tasks, NEW n \in Nat
                PROVE  <<u, n>> \in Taken' <=> <<u, n>> \in Taken \cup {y}
      OBVIOUS
    <3>1. CASE u = t
      BY <1>1, <1>2, <3>1 DEF Taken
    <3>2. CASE u # t
      BY <1>1, <1>2, <3>2 DEF Taken
    <3>. QED BY <3>1, <3>2
  <2>2. y \in Tasks \X Nat
    BY <1>1, <1>2
  <2>3. Taken \subseteq Tasks \X Nat /\ Taken' \subseteq Tasks \X Nat
    BY DEF Taken
  <2>. QED BY <2>1, <2>2, <2>3
<1>5. /\ IsFiniteSet(Taken')
      /\ Cardinality(Taken') = Cardinality(Taken) + 1
      /\ Cardinality(Taken) \in Nat
  BY <1>3, <1>4, FS_AddElement, FS_CardinalityType DEF SlotsAdd
<1>6. free + Cardinality(Taken) = Slots /\ Slots \in Nat
  BY ControllerAssumption DEF SlotsAdd
<1>7. \A u \in Tasks : debt'[u] >= 0
  BY <1>1
<1>8. free' + Cardinality(Taken') = Slots
  BY <1>1, <1>5, <1>6
<1>. QED BY <1>5, <1>7, <1>8 DEF SlotsAdd

\* Returning them brings one back.
LEMMA ReturnAdds ==
    ASSUME SlotsAdd, TypeOK', NEW t \in Tasks, debt[t] > 0, ReturnHosts(t)
    PROVE  SlotsAdd'
<1>1. /\ debt \in [Tasks -> Int] /\ \A u \in Tasks : debt[u] >= 0
      /\ debt' = [debt EXCEPT ![t] = debt[t] - 1] /\ free' = free + 1
      /\ free \in Nat
  BY DEF SlotsAdd, TypeOK, ReturnHosts
<1>2. PICK y : y = <<t, debt[t]>>
  BY Zenon
<1>3. y \in Taken
  BY <1>1, <1>2 DEF Taken
<1>4. Taken' = Taken \ {y}
  <2>1. \A x \in Tasks \X Nat : x \in Taken' <=> x \in Taken \ {y}
    <3>. SUFFICES ASSUME NEW u \in Tasks, NEW n \in Nat
                PROVE  <<u, n>> \in Taken' <=> <<u, n>> \in Taken \ {y}
      OBVIOUS
    <3>1. CASE u = t
      BY <1>1, <1>2, <3>1 DEF Taken
    <3>2. CASE u # t
      BY <1>1, <1>2, <3>2 DEF Taken
    <3>. QED BY <3>1, <3>2
  <2>2. Taken \subseteq Tasks \X Nat /\ Taken' \subseteq Tasks \X Nat
    BY DEF Taken
  <2>. QED BY <2>1, <2>2
<1>5. /\ IsFiniteSet(Taken')
      /\ Cardinality(Taken') = Cardinality(Taken) - 1
      /\ Cardinality(Taken) \in Nat
  BY <1>3, <1>4, FS_RemoveElement, FS_CardinalityType DEF SlotsAdd
<1>6. free + Cardinality(Taken) = Slots /\ Slots \in Nat
  BY ControllerAssumption DEF SlotsAdd
<1>7. \A u \in Tasks : debt'[u] >= 0
  BY <1>1
<1>8. free' + Cardinality(Taken') = Slots
  BY <1>1, <1>5, <1>6
<1>. QED BY <1>5, <1>7, <1>8 DEF SlotsAdd

\* No other operation touches the hosts.
LEMMA SlotsStep ==
    ASSUME SlotsAdd, [Next]_cvars
    PROVE  SlotsAdd'
<1>1. TypeOK'
  BY NextTyped DEF SlotsAdd
<1>2. ASSUME UNCHANGED <<debt, free>>
      PROVE  SlotsAdd'
  <2>1. Taken' = Taken
    BY <1>2 DEF Taken
  <2>. QED BY <1>1, <1>2, <2>1 DEF SlotsAdd
<1>3. ASSUME NEW t \in Tasks, TaskOperation(t)
      PROVE  SlotsAdd'
  <2>1. CASE ConsumeForDispatch(t)
    BY <1>1, <2>1, ConsumeAdds
  <2>2. CASE debt[t] > 0 /\ ReturnHosts(t)
    BY <1>1, <2>2, ReturnAdds
  <2>3. CASE ~ConsumeForDispatch(t) /\ ~(debt[t] > 0 /\ ReturnHosts(t))
    <3>1. CASE \/ RegisterCircuit(t) \/ SubmitQtaskToScheduler(t)
               \/ ReleaseDispatchClaim(t) \/ DeferLocalRetry(t)
               \/ DeleteCircuit(t) \/ BindProviderHandle(t) \/ SetFail(t)
      BY <1>2, <3>1
      DEF RegisterCircuit, SubmitQtaskToScheduler, ReleaseDispatchClaim,
          DeferLocalRetry, DeleteCircuit, BindProviderHandle, SetFail
    <3>2. CASE \E d \in Decisions : AuthorizeCapacityHold(t, d)
      BY <1>2, <3>2 DEF AuthorizeCapacityHold
    <3>3. CASE StartProviderSubmission(t) \/ CancelTask(t)
      BY <1>2, <3>3 DEF StartProviderSubmission, CancelTask
    <3>4. ASSUME NEW o, FinishTask(t, o)
          PROVE  SlotsAdd'
      BY <1>2, <3>4 DEF FinishTask
    <3>5. CASE \/ SubmissionFails(t) \/ CompleteScheduledTask(t)
               \/ \E b \in BOOLEAN : FailScheduledTask(t, b)
      BY <3>4, <3>5 DEF SubmissionFails, CompleteScheduledTask, FailScheduledTask
    <3>6. CASE PublishCompletion(t)
      BY <1>2, <3>4, <3>6 DEF PublishCompletion
    <3>. QED
      BY <1>3, <2>3, <3>1, <3>2, <3>3, <3>5, <3>6
      DEF TaskOperation, ProviderOperation
  <2>. QED BY <2>1, <2>2, <2>3
<1>4. ASSUME NEW p \in Threads, NEW c \in Selections(p), SelectQtask(p, c)
      PROVE  SlotsAdd'
  BY <1>2, <1>4 DEF SelectQtask
<1>5. ASSUME NEW a, RetryPendingCapacity(a)
      PROVE  SlotsAdd'
  BY <1>2, <1>5 DEF RetryPendingCapacity
<1>6. CASE CloseReservation
  BY <1>2, <1>6 DEF CloseReservation
<1>7. CASE UNCHANGED cvars
  BY <1>2, <1>7 DEF cvars
<1>. QED BY <1>3, <1>4, <1>5, <1>6, <1>7 DEF Next

\* All slots are free at the start.
LEMMA SlotsInitially == Init => SlotsAdd
<1>. SUFFICES ASSUME Init PROVE SlotsAdd
  OBVIOUS
<1>1. TypeOK
  BY InitIInv DEF IInv
<1>2. free = Slots /\ \A t \in Tasks : debt[t] = 0
  BY DEF Init
<1>3. Taken = {}
  BY <1>2 DEF Taken
<1>4. IsFiniteSet(Taken) /\ Cardinality(Taken) = 0
  BY <1>3, FS_EmptySet
<1>. QED BY <1>1, <1>2, <1>4, ControllerAssumption DEF SlotsAdd

\* Every process slot is free or taken for some task, whoever calls what: the
\* pool neither loses slots nor makes new ones.
THEOREM SlotsAreConserved == ControllerSpec => []SlotsAdd
<1>1. SlotsAdd /\ [Next]_cvars => SlotsAdd'
  BY SlotsStep
<1>. QED BY <1>1, SlotsInitially, PTL DEF ControllerSpec

\* A slot that is out can come back.
LEMMA DebtFits ==
    ASSUME SlotsAdd, NEW t \in Tasks, debt[t] > 0
    PROVE  ReturnFits
<1>1. debt[t] \in Int /\ free \in Nat
  BY DEF SlotsAdd, TypeOK
<1>2. <<t, 1>> \in Taken
  BY <1>1 DEF Taken
<1>3. Cardinality(Taken) \in Nat /\ Cardinality(Taken) # 0
  BY <1>2, FS_CardinalityType, FS_EmptySet DEF SlotsAdd
<1>. QED BY <1>1, <1>3, ControllerAssumption DEF SlotsAdd, ReturnFits
=============================================================================
