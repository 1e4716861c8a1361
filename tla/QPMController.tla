---------------------------- MODULE QPMController ----------------------------
(***************************************************************************)
(* The runtime state of one QPM target and the operations on it that       *)
(* QPMTargetController (services/util/qpm/controller.py) and UTIL_QPM      *)
(* (services/util/qpm/util_qpm.py) make under one hold of the controller's *)
(* lock. Each operation is one action; a check the code makes before it    *)
(* takes the lock is not part of it. Who calls what, and when, is left     *)
(* open: here any operation may come at any time. QPMDispatch supplies the *)
(* threads.                                                                *)
(*                                                                         *)
(* A circuit asks for one process slot, the hosts are one pool of slots    *)
(* (how consume_resources packs them is left out), and the tasks belong to *)
(* one reservation.                                                        *)
(***************************************************************************)
EXTENDS Integers, FiniteSets

CONSTANTS
    Threads,         \* the threads that call the QPM
    Tasks,           \* the qtasks, each named by its cid and its qtask id
    None,            \* no thread, no task
    Slots,           \* process slots of all hosts together
    DispatchLimit,   \* effective_max_inflight, 0 for no limit
    UsageCapacity,   \* tasks whose usage the admission library lets stand
    Cancellable,     \* whether the QRC has a cancel method that ends a run
    RecordBound      \* bound: a task's completion records counted

ASSUME ControllerAssumption ==
    /\ IsFiniteSet(Tasks)
    /\ None \notin Threads \cup Tasks
    /\ Slots \in Nat
    /\ DispatchLimit \in Nat
    /\ UsageCapacity \in Nat
    /\ Cancellable \in BOOLEAN
    /\ RecordBound \in Nat

VARIABLES
    st,          \* runtime.state of each task, NEW before create_circuit
    known,       \* tasks of runtime_by_qtask_id
    circuits,    \* tasks of self.circuits
    sched,       \* each task's state in the scheduler library
    selected,    \* selected_qtask_ids
    claim,       \* dispatching_qtask_ids: the thread dispatching each task
    inflight,    \* provider_inflight
    handle,      \* tasks with a provider_handle
    holds,       \* capacity_holds
    pending,     \* pending_capacity
    usage,       \* usage the admission library holds for each task
    free,        \* free process slots
    debt,        \* history: slots taken for each task and not given back
    hosted,      \* tasks whose circuit.info has 'hosts'
    failed,      \* tasks whose circuit is in state FAIL
    records,     \* completion records enqueued for each task
    reservation, \* active, closing (a provider still runs) or closed
    awaited      \* provider_cancel_pending of the reservation's close state

taskVars == <<st, known, circuits>>
dispatchVars == <<sched, selected, claim, inflight, handle>>
usageVars == <<holds, pending, usage>>
hostVars == <<free, debt, hosted>>
reservationVars == <<reservation, awaited>>

cvars == <<taskVars, dispatchVars, usageVars, hostVars, failed, records,
           reservationVars>>

\* QPM_TASK_TERMINAL_STATES
Terminal == {"COMPLETED", "FAILED", "CANCELLED"}

States == Terminal \cup
    {"NEW", "CREATED", "PENDING", "HELD", "QUEUED", "SELECTED", "CONSUMED",
     "SUBMITTED"}

\* "absent" is a task with no scheduler_task_id.
SchedStates == {"absent", "queued", "selected", "running", "ended"}

\* A record count saturates: some properties tell none, one and more apart,
\* the others do not look at it.
RecordCounts == 0..RecordBound

TypeOK ==
    /\ st \in [Tasks -> States]
    /\ known \subseteq Tasks
    /\ circuits \subseteq Tasks
    /\ sched \in [Tasks -> SchedStates]
    /\ selected \subseteq Tasks
    /\ claim \in [Tasks -> Threads \cup {None}]
    /\ inflight \subseteq Tasks
    /\ handle \subseteq Tasks
    /\ holds \subseteq Tasks
    /\ pending \subseteq Tasks
    /\ usage \subseteq Tasks
    /\ free \in Nat
    /\ debt \in [Tasks -> Int]
    /\ hosted \subseteq Tasks
    /\ failed \subseteq Tasks
    /\ records \in [Tasks -> RecordCounts]
    /\ reservation \in {"active", "closing", "closed"}
    /\ awaited \subseteq Tasks

Init ==
    /\ st = [t \in Tasks |-> "NEW"]
    /\ known = {}
    /\ circuits = {}
    /\ sched = [t \in Tasks |-> "absent"]
    /\ selected = {}
    /\ claim = [t \in Tasks |-> None]
    /\ inflight = {}
    /\ handle = {}
    /\ holds = {}
    /\ pending = {}
    /\ usage = {}
    /\ free = Slots
    /\ debt = [t \in Tasks |-> 0]
    /\ hosted = {}
    /\ failed = {}
    /\ records = [t \in Tasks |-> 0]
    /\ reservation = "active"
    /\ awaited = {}

----------------------------------------------------------------------------
\* _task_ended
Ended(t) == t \notin known \/ st[t] \in Terminal

\* Seeded fault: a submission not yet bound to a handle is overlooked.
ProviderActiveByHandle(t) == t \in handle

\* Tasks at their provider, as far as the controller knows.
ProviderActive(t) == t \in handle \/ t \in inflight

\* The admission library authorizes usage while there is room.
Room == Cardinality(usage) < UsageCapacity

Counted(n) == IF n < RecordBound THEN n ELSE RecordBound

Enqueue(ts) ==
    records' = [t \in Tasks |->
        IF t \in ts THEN Counted(records[t] + 1) ELSE records[t]]

SetState(ts, s) == st' = [t \in Tasks |-> IF t \in ts THEN s ELSE st[t]]

DropClaim(ts) ==
    claim' = [t \in Tasks |-> IF t \in ts THEN None ELSE claim[t]]

\* Seeded fault: the scheduler is not told.
EndUntold(ts) == sched' = sched

\* The scheduler library ends a task once and refuses the second time, which
\* _end_scheduler_task_locked lets pass.
EndInScheduler(ts) ==
    sched' = [t \in Tasks |->
        IF t \in ts /\ sched[t] # "absent" THEN "ended" ELSE sched[t]]

\* Seeded fault: the hold goes and its usage stays.
ReconcileForgetting(t) ==
    /\ holds' = holds \ {t}
    /\ UNCHANGED usage

\* _reconcile_task_hold_locked
ReconcileTaskHold(t) ==
    /\ holds' = holds \ {t}
    /\ usage' = IF t \in holds THEN usage \ {t} ELSE usage

\* create_circuit with register_circuit
RegisterCircuit(t) ==
    /\ st[t] = "NEW"
    /\ SetState({t}, "CREATED")
    /\ known' = known \cup {t}
    /\ circuits' = circuits \cup {t}
    /\ UNCHANGED <<dispatchVars, usageVars, hostVars, failed, records,
                   reservationVars>>

\* The admission library's answer to authorize_usage.
Decisions ==
    IF reservation = "closed" THEN {"rejected"}
    ELSE IF Room THEN {"accepted"} ELSE {"delayed"}

\* authorize_capacity_hold for a task that has not ended. A rejected task is
\* FAILED without a completion record.
AuthorizeCapacityHold(t, decision) ==
    /\ ~Ended(t)
    /\ decision \in Decisions
    /\ \/ /\ decision = "accepted"
          /\ usage' = usage \cup {t}
          /\ holds' = holds \cup {t}
          /\ SetState({t}, "HELD")
          /\ UNCHANGED pending
       \/ /\ decision = "delayed"
          /\ pending' = pending \cup {t}
          /\ SetState({t}, "PENDING")
          /\ UNCHANGED <<usage, holds>>
       \/ /\ decision = "rejected"
          /\ SetState({t}, "FAILED")
          /\ UNCHANGED usageVars
    /\ UNCHANGED <<known, circuits, dispatchVars, hostVars, failed, records,
                   reservationVars>>

\* retry_pending_capacity: the pending tasks are tried in turn. An entry whose
\* task is gone is dropped, a closing or closed reservation rejects them all,
\* and otherwise as many are accepted as there is room for. The task's own
\* state is not looked at. The library charges a task once however often its
\* usage is consumed.
RetryPendingCapacity(accepted) ==
    /\ accepted \subseteq pending \cap known
    /\ IF reservation = "active"
       THEN /\ accepted # {} => Room
            /\ Cardinality(usage \cup accepted) <= UsageCapacity
            /\ accepted # pending \cap known =>
                  Cardinality(usage \cup accepted) >= UsageCapacity
            /\ pending' = (pending \cap known) \ accepted
            /\ SetState(accepted, "HELD")
       ELSE /\ accepted = {}
            /\ pending' = {}
            /\ SetState({t \in pending \cap known : ~Ended(t)}, "FAILED")
    /\ usage' = usage \cup accepted
    /\ holds' = holds \cup accepted
    /\ UNCHANGED <<known, circuits, dispatchVars, hostVars, failed, records,
                   reservationVars>>

\* submit_qtask_to_scheduler for a task with a hold and no scheduler task.
SubmitQtaskToScheduler(t) ==
    /\ t \in known \cap holds
    /\ sched[t] = "absent"
    /\ sched' = [sched EXCEPT ![t] = "queued"]
    /\ SetState({t}, "QUEUED")
    /\ UNCHANGED <<known, circuits, selected, claim, inflight, handle,
                   usageVars, hostVars, failed, records, reservationVars>>

\* Seeded fault: one place too many.
CanSelectOneMore ==
    DispatchLimit = 0 \/ Cardinality(inflight) <= DispatchLimit

\* _can_select_scheduler_task_locked with neither pause nor drain.
CanSelect == DispatchLimit = 0 \/ Cardinality(inflight) < DispatchLimit

Live == {t \in selected : ~Ended(t)}

Queue == {t \in Tasks : sched[t] = "queued"}

NewSelections ==
    {[kind |-> IF t \in known THEN "new" ELSE "unknown", task |-> t] :
        t \in Queue}

NoSelection == {[kind |-> "none", task |-> None]}

\* Seeded fault: a task another thread is dispatching is given again.
SelectionsUnclaimed(p) ==
    IF Live # {} THEN {[kind |-> "again", task |-> t] : t \in Live}
    ELSE IF CanSelect /\ Queue # {} THEN NewSelections ELSE NoSelection

\* What select_qtask_for_dispatch can answer thread p: the selected task if
\* no other thread is dispatching it, nothing while one is, else a task of
\* the scheduler's queue if the dispatch limit leaves a place. The policy is
\* the library's, so any queued task may come. A task the QPM has forgotten
\* is an error.
Selections(p) ==
    LET mine == {t \in Live : claim[t] \in {p, None}} IN
    IF mine # {} THEN {[kind |-> "again", task |-> t] : t \in mine}
    ELSE IF Live = {} /\ CanSelect /\ Queue # {} THEN NewSelections
    ELSE NoSelection

\* select_qtask_for_dispatch. The ended tasks it meets leave the selection.
SelectQtask(p, choice) ==
    /\ choice \in Selections(p)
    /\ LET found == choice.kind \in {"again", "new"} IN
       /\ selected' = Live \cup (IF found THEN {choice.task} ELSE {})
       /\ claim' = [t \in Tasks |->
              IF found /\ t = choice.task THEN p
              ELSE IF t \in selected \ Live THEN None ELSE claim[t]]
       /\ sched' = [t \in Tasks |->
              IF choice.kind \in {"new", "unknown"} /\ t = choice.task
              THEN "selected" ELSE sched[t]]
       /\ SetState(IF choice.kind = "new" THEN {choice.task} ELSE {},
                   "SELECTED")
    /\ UNCHANGED <<known, circuits, inflight, handle, usageVars, hostVars,
                   failed, records, reservationVars>>

\* release_dispatch_claim drops the claim whoever has it.
ReleaseDispatchClaim(t) ==
    /\ DropClaim({t})
    /\ UNCHANGED <<taskVars, sched, selected, inflight, handle, usageVars,
                   hostVars, failed, records, reservationVars>>

\* _consume_for_dispatch when the task is live and a slot is free.
ConsumeForDispatch(t) ==
    /\ t \in circuits
    /\ ~Ended(t)
    /\ free > 0
    /\ free' = free - 1
    /\ debt' = [debt EXCEPT ![t] = @ + 1]
    /\ hosted' = hosted \cup {t}
    /\ SetState({t}, "CONSUMED")
    /\ UNCHANGED <<known, circuits, dispatchVars, usageVars, failed, records,
                   reservationVars>>

\* What start_provider_submission does to a task: nothing to start, started
\* already, refused by the scheduler, or started.
StartOutcome(t) ==
    IF Ended(t) THEN "inactive"
    ELSE IF t \in inflight \/ st[t] = "SUBMITTED" THEN "already"
    ELSE IF sched[t] \notin {"absent", "selected"} THEN "refused"
    ELSE "started"

StartProviderSubmission(t) ==
    LET outcome == StartOutcome(t) IN
    /\ IF outcome = "started"
       THEN /\ sched' = [sched EXCEPT
                    ![t] = IF @ = "absent" THEN @ ELSE "running"]
            /\ selected' = selected \ {t}
            /\ inflight' = inflight \cup {t}
            /\ SetState({t}, "SUBMITTED")
       ELSE UNCHANGED <<sched, selected, inflight, st>>
    /\ IF outcome = "refused" THEN UNCHANGED claim ELSE DropClaim({t})
    /\ UNCHANGED <<known, circuits, handle, usageVars, hostVars, failed,
                   records, reservationVars>>

\* bind_provider_handle
BindProviderHandle(t) ==
    /\ handle' = IF t \in known THEN handle \cup {t} ELSE handle
    /\ UNCHANGED <<taskVars, sched, selected, claim, inflight, usageVars,
                   hostVars, failed, records, reservationVars>>

\* complete_scheduled_task and _fail_scheduled_task_locked: a task that has
\* ended is left as it is, any other gives back its usage and its place.
FinishTask(t, outcome) ==
    /\ IF Ended(t)
       THEN UNCHANGED <<holds, usage, sched, inflight, selected, claim, st>>
       ELSE /\ ReconcileTaskHold(t)
            /\ EndInScheduler({t})
            /\ inflight' = inflight \ {t}
            /\ selected' = selected \ {t}
            /\ DropClaim({t})
            /\ SetState({t}, outcome)
    /\ UNCHANGED <<known, circuits, handle, pending, hostVars, failed,
                   reservationVars>>

CompleteScheduledTask(t) == FinishTask(t, "COMPLETED") /\ UNCHANGED records

\* fail_scheduled_task; enqueue is publish_completion.
FailScheduledTask(t, enqueue) ==
    /\ FinishTask(t, "FAILED")
    /\ Enqueue(IF enqueue /\ ~Ended(t) THEN {t} ELSE {})

\* submit_qtask_to_scheduler when the scheduler library raises.
SubmissionFails(t) ==
    /\ t \in known \cap holds
    /\ sched[t] = "absent"
    /\ FailScheduledTask(t, TRUE)

\* publish_completion: the result of a live task ends it, and the record is
\* enqueued whatever has been enqueued before.
PublishCompletion(t) ==
    /\ st[t] # "NEW"
    /\ IF ~Ended(t) /\ t \in circuits
       THEN FinishTask(t, IF t \in failed THEN "FAILED" ELSE "COMPLETED")
       ELSE UNCHANGED <<usageVars, dispatchVars, taskVars, hostVars, failed,
                        reservationVars>>
    /\ Enqueue({t})

\* The provider's runner marks the circuit of a run that went wrong.
SetFail(t) ==
    /\ failed' = failed \cup {t}
    /\ UNCHANGED <<taskVars, dispatchVars, usageVars, hostVars, records,
                   reservationVars>>

\* cleanup_task forgets a task. A hold goes without a call of return_usage.
Cleanup(t) ==
    /\ known' = known \ {t}
    /\ circuits' = circuits \ {t}
    /\ pending' = pending \ {t}
    /\ holds' = holds \ {t}
    /\ selected' = selected \ {t}
    /\ inflight' = inflight \ {t}
    /\ handle' = handle \ {t}
    /\ DropClaim({t})

\* _return_hosts raises, and forgets nothing, when the pool would overflow.
ReturnFits == free < Slots

ReturnHosts(t) ==
    /\ t \in hosted
    /\ ReturnFits
    /\ free' = free + 1
    /\ debt' = [debt EXCEPT ![t] = @ - 1]
    /\ Cleanup(t)
    /\ UNCHANGED <<st, sched, usage, hosted, failed, records,
                   reservationVars>>

\* Seeded fault: the task is put back whatever has become of it.
DeferAlways(t) ==
    /\ SetState(IF t \in known THEN {t} ELSE {}, "PENDING")
    /\ UNCHANGED <<known, circuits, dispatchVars, usageVars, hostVars, failed,
                   records, reservationVars>>

\* defer_local_retry
DeferLocalRetry(t) ==
    /\ SetState(IF t \in known /\ st[t] \in {"CREATED", "HELD"}
                THEN {t} ELSE {}, "PENDING")
    /\ UNCHANGED <<known, circuits, dispatchVars, usageVars, hostVars, failed,
                   records, reservationVars>>

\* delete_circuit for a circuit that has taken no hosts (can_delete).
DeleteCircuit(t) ==
    /\ t \in circuits
    /\ t \notin hosted
    /\ Cleanup(t)
    /\ UNCHANGED <<st, sched, usage, hostVars, failed, records,
                   reservationVars>>

\* What cancel_task answers. A FAILED task is not an early return; if it has
\* a scheduler task, the scheduler refuses to end it again and the call
\* raises with the hold already gone.
CancelOutcome(t) ==
    IF t \notin known \/ st[t] \in {"COMPLETED", "CANCELLED"} THEN "nothing"
    ELSE IF ProviderActive(t) /\ ~(t \in handle /\ Cancellable) THEN "pending"
    ELSE IF sched[t] = "ended" THEN "refused"
    ELSE "cancelled"

CancelTask(t) ==
    LET outcome == CancelOutcome(t) IN
    /\ IF outcome \in {"refused", "cancelled"}
       THEN /\ pending' = pending \ {t}
            /\ ReconcileTaskHold(t)
       ELSE UNCHANGED usageVars
    /\ IF outcome = "cancelled"
       THEN /\ EndInScheduler({t})
            /\ selected' = selected \ {t}
            /\ inflight' = inflight \ {t}
            /\ DropClaim({t})
            /\ SetState({t}, "CANCELLED")
            /\ Enqueue({t})
       ELSE UNCHANGED <<sched, selected, inflight, claim, st, records>>
    /\ UNCHANGED <<known, circuits, handle, hostVars, failed,
                   reservationVars>>

\* Seeded fault: the close takes the scheduler's word that a task is over.
CancelResolvedByScheduler(t) == sched'[t] = "ended"

\* _provider_cancel_pending_resolved
CancelResolved(t) == t \notin holds' \cup inflight' /\ Ended(t)

\* What a close of the reservation looks at: pending or held tasks.
Closing == (pending \cup holds) \cap known

\* _cancel_runtime_for_reservation_close leaves those whose provider runs on.
Kept ==
    {t \in Closing : ProviderActive(t) /\ ~(t \in handle /\ Cancellable)}

\* release_admission and cancel_admission: _close_reservation cancels what
\* is pending or held and not at its provider, keeps the holds of what a
\* provider still runs, and releases the reservation once every run it has
\* had to wait for is over. A task with neither a hold nor a pending entry is
\* not looked at; one with both is cancelled, and reported, twice.
CloseReservation ==
    LET gone == Closing \ Kept
        reports(t) == (IF t \in pending THEN 1 ELSE 0)
                        + (IF t \in holds THEN 1 ELSE 0)
    IN
    /\ reservation # "closed"
    /\ pending' = {}
    /\ holds' = holds \cap Kept
    /\ usage' = usage \ (holds \ Kept)
    /\ EndInScheduler(Closing)
    /\ selected' = selected \ Closing
    /\ inflight' = inflight \ gone
    /\ circuits' = circuits \ {t \in gone : ~ProviderActive(t)}
    /\ SetState(gone, "CANCELLED")
    /\ records' = [t \in Tasks |->
            IF t \in gone THEN Counted(records[t] + reports(t))
                          ELSE records[t]]
    /\ awaited' = {t \in (awaited \cup Kept) \ gone : ~CancelResolved(t)}
    /\ reservation' = IF awaited' = {} THEN "closed" ELSE "closing"
    /\ UNCHANGED <<known, claim, handle, hostVars, failed>>

----------------------------------------------------------------------------
\* The callers owe the controller three things: a task is started only after
\* submit_qtask_to_scheduler has returned for it, what a provider reports is
\* about a task that was given hosts, and hosts are returned no more often
\* than they were taken.
ProviderOperation(t) ==
    /\ t \in hosted
    /\ \/ BindProviderHandle(t)
       \/ CompleteScheduledTask(t)
       \/ PublishCompletion(t)
       \/ SetFail(t)
       \/ debt[t] > 0 /\ ReturnHosts(t)

TaskOperation(t) ==
    \/ RegisterCircuit(t)
    \/ \E d \in Decisions : AuthorizeCapacityHold(t, d)
    \/ SubmitQtaskToScheduler(t)
    \/ SubmissionFails(t)
    \/ ReleaseDispatchClaim(t)
    \/ ConsumeForDispatch(t)
    \/ sched[t] # "absent" /\ StartProviderSubmission(t)
    \/ \E b \in BOOLEAN : FailScheduledTask(t, b)
    \/ DeferLocalRetry(t)
    \/ DeleteCircuit(t)
    \/ CancelTask(t)
    \/ ProviderOperation(t)

Next ==
    \/ \E t \in Tasks : TaskOperation(t)
    \/ \E p \in Threads : \E c \in Selections(p) : SelectQtask(p, c)
    \/ \E a \in SUBSET pending : RetryPendingCapacity(a)
    \/ CloseReservation

ControllerSpec == Init /\ [][Next]_cvars

----------------------------------------------------------------------------
\* Selection is one task at a time, whatever the callers do: "while any is,
\* no new task is selected" (select_qtask_for_dispatch).
OneSelected == Cardinality(selected) <= 1

\* The controller never has more work at the provider than the dispatch
\* limit, although start_provider_submission does not look at the limit: a
\* place is granted at selection and used a few steps later.
InflightWithinLimit ==
    DispatchLimit # 0 => Cardinality(inflight) <= DispatchLimit

\* Selection and the limit together: what is on its way to the provider, and
\* what is there.
DispatchBounded ==
    OneSelected /\ InflightWithinLimit
=============================================================================
