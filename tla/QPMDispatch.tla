----------------------------- MODULE QPMDispatch -----------------------------
(***************************************************************************)
(* The threads of one QPM: async_run, sync_run, read_cq, cancel_task and   *)
(* the provider's completion callback of services/util/qpm/util_qpm.py,    *)
(* each of which dispatches queued work on its way.                        *)
(*                                                                         *)
(* A thread runs one call at a time. Between two holds of the controller's *)
(* lock the other threads may run, so each hold (an operation of           *)
(* QPMController) and each access to oor_queue is one step. `frame` is     *)
(* what a thread remembers between them.                                   *)
(***************************************************************************)
EXTENDS QPMController, Sequences

CONSTANTS
    Runners,    \* the provider's threads; the others serve clients' calls
    Ops,        \* the calls clients make, besides async_run
    Faults,     \* what may go wrong outside the QPM
    QueueBound  \* oor_queue is not modelled beyond this length

ASSUME DispatchAssumption ==
    /\ IsFiniteSet(Threads)
    /\ Runners \subseteq Threads
    /\ Ops \subseteq {"sync", "timeout", "read", "cancel", "close", "delete"}
    /\ Faults \subseteq {"submit", "prepare", "start", "provider", "poolfull"}
    /\ QueueBound \in Nat

VARIABLES
    oorq,       \* oor_queue: a sequence of cids
    drainLock,  \* the thread that holds oor_drain_lock, or None
    drainReq,   \* oor_drain_requested
    running,    \* tasks the provider has and has not reported
    frame       \* each thread's call

dvars == <<oorq, drainLock, drainReq, running, frame>>
vars == <<cvars, dvars>>

\* A thread's call in progress. `call` is the client's or the provider's call,
\* `own` its cid, `how` the function that called _prepare_run_circuit
\* ("own": the call itself, "oor": async_run_oor, "ready":
\* dispatch_ready_qtask), `task` the cid that function works on, `pick` the
\* task select_qtask_for_dispatch gave, `circuit` whether that function's
\* variable circuit is set, `error` the exception being handled.
Idle == [pc |-> "idle", call |-> "none", own |-> None, how |-> "none",
         task |-> None, pick |-> None, circuit |-> FALSE, error |-> "none"]

DispatchInit ==
    /\ Init
    /\ oorq = <<>>
    /\ drainLock = None
    /\ drainReq = FALSE
    /\ running = {}
    /\ frame = [p \in Threads |-> Idle]

----------------------------------------------------------------------------
At(p, pc) == frame[p].pc = pc

Set(p, f) == frame' = [frame EXCEPT ![p] = f]

Goto(p, pc) == Set(p, [frame[p] EXCEPT !.pc = pc])

Return(p) == Set(p, Idle)

QueueUnchanged == UNCHANGED <<oorq, drainLock, drainReq, running>>

InDrain(p) == drainLock = p

\* dispatch_ready_qtask was called by the drain, whose pass an exception ends,
\* or by an async_run that found no resources for its own task, which it then
\* puts in the queue whatever came of the earlier one.
ReadyRaised(p, f) ==
    LET g == [f EXCEPT !.pick = None, !.circuit = FALSE, !.error = "none"] IN
    IF InDrain(p) THEN [g EXCEPT !.pc = "releaseLock"]
                  ELSE [g EXCEPT !.pc = "defer", !.task = f.own]

ReadyReturned(p, f) ==
    LET g == [f EXCEPT !.pick = None, !.circuit = FALSE, !.error = "none"] IN
    IF InDrain(p) THEN [g EXCEPT !.pc = "remove"]
                  ELSE [g EXCEPT !.pc = "defer", !.task = f.own]

\* The except clauses of the functions that call _prepare_run_circuit: what
\* frame f does with exception e, its variable circuit being set or not.
Handle(f, e, circuit) ==
    LET g == [f EXCEPT !.error = e, !.circuit = circuit, !.pick = None] IN
    CASE f.how = "own" /\ f.call = "async" /\ e = "oor" ->
            [g EXCEPT !.how = "ready", !.pc = "selectReady",
                      !.error = "none", !.circuit = FALSE]
      [] f.how = "own" /\ f.call = "async" /\ e # "oor" ->
            [g EXCEPT !.pc = IF circuit THEN "fail" ELSE "request"]
      [] f.how = "own" /\ f.call = "sync" /\ e = "oor" ->
            [g EXCEPT !.pc = "syncWait"]
      [] f.how = "own" /\ f.call = "sync" /\ e # "oor" ->
            IF circuit THEN [g EXCEPT !.pc = "fail"] ELSE Idle
      [] f.how = "oor" /\ e = "oor" -> [g EXCEPT !.pc = "defer"]
      [] f.how = "oor" /\ e # "oor" ->
            [g EXCEPT !.pc = IF circuit THEN "fail" ELSE "nested"]
      [] f.how = "ready" /\ e # "error" -> [g EXCEPT !.pc = "release"]
      [] OTHER -> [g EXCEPT !.pc = IF circuit THEN "fail" ELSE "failReady"]

Raise(p, e, circuit) == Set(p, Handle(frame[p], e, circuit))

\* A submission that went through, or was found already made.
Submitted(p) ==
    LET f == frame[p] IN
    Set(p, CASE f.how = "own" -> Idle
             [] f.how = "oor" -> [f EXCEPT !.pc = "remove", !.error = "none"]
             [] OTHER -> ReadyReturned(p, f))

----------------------------------------------------------------------------
\* async_run and sync_run check the reservation, then create the circuit.
Submit(p, t, call) ==
    /\ At(p, "idle")
    /\ p \notin Runners
    /\ reservation = "active"
    /\ st[t] = "NEW"
    /\ \A q \in Threads : frame[q].own # t
    /\ Set(p, [Idle EXCEPT !.pc = "create", !.call = call, !.own = t])
    /\ UNCHANGED cvars /\ QueueUnchanged

AsyncRun(p) == \E t \in Tasks : Submit(p, t, "async")

SyncRun(p) == "sync" \in Ops /\ \E t \in Tasks : Submit(p, t, "sync")

CreateCircuit(p) ==
    /\ At(p, "create")
    /\ RegisterCircuit(frame[p].own)
    /\ Set(p, [frame[p] EXCEPT !.pc = "prepare", !.how = "own",
                               !.task = frame[p].own])
    /\ QueueUnchanged

\* _prepare_run_circuit: look the circuit up, authorize it unless it has a
\* hold.
Prepare(p) ==
    LET t == frame[p].task IN
    /\ At(p, "prepare")
    /\ \/ t \notin circuits /\ Raise(p, "inactive", FALSE)
       \/ t \in circuits /\ Goto(p, IF t \in holds THEN "submit"
                                                  ELSE "authorize")
    /\ UNCHANGED cvars /\ QueueUnchanged

\* authorize_capacity_hold looks the task up before it takes the lock and
\* again under it; a task gone by the first look is another error than one
\* gone by the second.
Authorize(p) ==
    LET t == frame[p].task IN
    /\ At(p, "authorize")
    /\ \/ /\ Ended(t)
          /\ \/ t \notin known /\ Raise(p, "error", FALSE)
             \/ Raise(p, "inactive", FALSE)
          /\ UNCHANGED cvars
       \/ \E d \in Decisions :
            /\ AuthorizeCapacityHold(t, d)
            /\ CASE d = "accepted" -> Goto(p, "submit")
                 [] d = "delayed" -> Raise(p, "oor", FALSE)
                 [] d = "rejected" -> Raise(p, "error", FALSE)
    /\ QueueUnchanged

SubmitToScheduler(p) ==
    LET t == frame[p].task IN
    /\ At(p, "submit")
    /\ \/ t \notin known /\ Raise(p, "inactive", FALSE) /\ UNCHANGED cvars
       \/ t \in known /\ sched[t] # "absent" /\ Goto(p, "select")
            /\ UNCHANGED cvars
       \/ t \in known \ holds /\ sched[t] = "absent"
            /\ Raise(p, "error", FALSE) /\ UNCHANGED cvars
       \/ SubmitQtaskToScheduler(t) /\ Goto(p, "select")
       \/ "submit" \in Faults /\ SubmissionFails(t)
            /\ Raise(p, "error", FALSE)
    /\ QueueUnchanged

Select(p) ==
    /\ At(p, "select")
    /\ \E c \in Selections(p) :
        /\ SelectQtask(p, c)
        /\ CASE c.kind = "none" -> Raise(p, "oor", FALSE)
             [] c.kind = "unknown" -> Raise(p, "error", FALSE)
             [] OTHER -> Set(p, [frame[p] EXCEPT !.pc = "consume",
                                                 !.pick = c.task])
    /\ QueueUnchanged

\* Under the claim: the scheduler must have picked this very task, which must
\* still be live, and a slot must be free.
Consume(p) ==
    LET f == frame[p]
        Refuse(e) == Set(p, [f EXCEPT !.pc = "unclaim", !.error = e])
                        /\ UNCHANGED cvars
        gone == f.pick \notin circuits \/ Ended(f.pick)
    IN
    /\ At(p, "consume")
    /\ \/ f.pick # f.task /\ Refuse("oor")
       \/ f.pick = f.task /\ gone /\ Refuse("inactive")
       \/ f.pick = f.task /\ ~gone /\ free = 0 /\ Refuse("oor")
       \/ f.pick = f.task /\ ConsumeForDispatch(f.task) /\ Goto(p, "attach")
    /\ QueueUnchanged

\* Seeded fault: the claim is kept.
UnclaimForgotten(p) ==
    /\ At(p, "unclaim")
    /\ Raise(p, frame[p].error, FALSE)
    /\ UNCHANGED cvars /\ QueueUnchanged

\* The except clause of _prepare_run_circuit gives the claim back.
Unclaim(p) ==
    /\ At(p, "unclaim")
    /\ ReleaseDispatchClaim(frame[p].pick)
    /\ Raise(p, frame[p].error, FALSE)
    /\ QueueUnchanged

\* attach_provider_credential and prepare_provider_submission. A failure is
\* recorded and the hosts returned before it reaches the caller, whose
\* variable circuit stays unset.
Attach(p) ==
    LET f == [frame[p] EXCEPT !.pick = None] IN
    /\ At(p, "attach")
    /\ \/ reservation # "closed"
            /\ Set(p, [f EXCEPT !.pc = "start", !.circuit = TRUE])
       \/ (reservation = "closed" \/ "prepare" \in Faults)
            /\ Set(p, [f EXCEPT !.pc = "fail", !.error = "error"])
    /\ UNCHANGED cvars /\ QueueUnchanged

\* _start_provider_submission
Start(p) ==
    LET f == frame[p]
        outcome == StartOutcome(f.task)
    IN
    /\ At(p, "start")
    /\ \/ /\ StartProviderSubmission(f.task)
          /\ CASE outcome = "inactive" -> Raise(p, "inactive", TRUE)
               [] outcome = "refused" -> Raise(p, "error", TRUE)
               [] outcome = "already" ->
                    IF f.call = "sync" /\ f.how = "own"
                    THEN Raise(p, "oor", TRUE) ELSE Submitted(p)
               [] outcome = "started" ->
                    Goto(p, IF f.call = "sync" /\ f.how = "own"
                            THEN "syncRun" ELSE "provider")
       \/ /\ "start" \in Faults /\ outcome = "started"
          /\ Raise(p, "error", TRUE)
          /\ UNCHANGED cvars
    /\ QueueUnchanged

\* qrc.async_run: the run is under way, or every worker's queue is full, or
\* the QRC raises.
SubmitToProvider(p) ==
    LET t == frame[p].task IN
    /\ At(p, "provider")
    /\ \/ running' = running \cup {t} /\ Goto(p, "bind")
       \/ "poolfull" \in Faults /\ Raise(p, "oor", TRUE) /\ UNCHANGED running
       \/ "provider" \in Faults /\ Raise(p, "error", TRUE)
            /\ UNCHANGED running
    /\ UNCHANGED <<cvars, oorq, drainLock, drainReq>>

Bind(p) ==
    /\ At(p, "bind")
    /\ BindProviderHandle(frame[p].task)
    /\ Submitted(p)
    /\ QueueUnchanged

----------------------------------------------------------------------------
\* The except clauses: record the failure, then free_resources, which is
\* finalize_provider_task followed by _return_hosts.
Fail(p) ==
    /\ At(p, "fail")
    /\ FailScheduledTask(frame[p].task, TRUE)
    /\ Goto(p, "finalize")
    /\ QueueUnchanged

\* Seeded fault: a failure is published here and again with its result.
FinalizePublishing(p) ==
    LET t == frame[p].task IN
    /\ At(p, "finalize")
    /\ IF t \in failed THEN FailScheduledTask(t, TRUE)
                       ELSE CompleteScheduledTask(t)
    /\ Goto(p, "returnHosts")
    /\ QueueUnchanged

Finalize(p) ==
    LET f == frame[p]
        withResult == f.call = "finish" /\ f.how = "none"
    IN
    /\ At(p, "finalize")
    /\ IF f.task \in failed THEN FailScheduledTask(f.task, ~withResult)
                            ELSE CompleteScheduledTask(f.task)
    /\ Goto(p, "returnHosts")
    /\ QueueUnchanged

\* Seeded fault: a caller frees what free_resources has freed.
AfterReturnAgain(p, f) ==
    IF f.how = "none" \/ (f.how = "own" /\ f.circuit)
    THEN [f EXCEPT !.pc = "finalize"] ELSE [f EXCEPT !.pc = "request"]

\* Where free_resources returns to.
AfterReturn(p, f) ==
    CASE f.call = "finish" /\ f.how = "none" -> [f EXCEPT !.pc = "request"]
      [] f.how = "own" /\ f.call = "sync" /\ f.circuit -> Idle
      [] f.how # "none" /\ ~f.circuit -> Handle(f, "error", FALSE)
      [] f.how = "own" /\ f.call # "sync" /\ f.circuit ->
            [f EXCEPT !.pc = "request"]
      [] f.how = "oor" /\ f.circuit -> [f EXCEPT !.pc = "nested"]
      [] OTHER -> IF f.error = "inactive" THEN ReadyReturned(p, f)
                                         ELSE ReadyRaised(p, f)

ReturnHostsStep(p) ==
    LET f == frame[p] IN
    /\ At(p, "returnHosts")
    /\ ReturnHosts(f.task)
    /\ Set(p, AfterReturn(p, f))
    /\ QueueUnchanged

\* dispatch_ready_qtask fails a task it could not prepare, if its circuit is
\* still there.
FailReady(p) ==
    LET t == frame[p].task IN
    /\ At(p, "failReady")
    /\ IF t \in circuits THEN FailScheduledTask(t, TRUE) ELSE UNCHANGED cvars
    /\ Goto(p, "release")
    /\ QueueUnchanged

\* Seeded fault: a task that ended after it took its resources keeps them.
ReleaseReadyKeeping(p) ==
    LET f == frame[p] IN
    /\ At(p, "release")
    /\ ReleaseDispatchClaim(f.task)
    /\ Set(p, IF f.error = "inactive" THEN ReadyReturned(p, f)
                                      ELSE ReadyRaised(p, f))
    /\ QueueUnchanged

\* The outer release_dispatch_claim of dispatch_ready_qtask.
ReleaseReady(p) ==
    LET f == frame[p] IN
    /\ At(p, "release")
    /\ ReleaseDispatchClaim(f.task)
    /\ Set(p, CASE f.error = "oor" /\ f.circuit ->
                      [f EXCEPT !.pc = "deferReady"]
                [] f.error = "inactive" /\ f.circuit ->
                      [f EXCEPT !.pc = "finalize"]
                [] f.error = "inactive" /\ ~f.circuit -> ReadyReturned(p, f)
                [] OTHER -> ReadyRaised(p, f))
    /\ QueueUnchanged

DeferReady(p) ==
    /\ At(p, "deferReady")
    /\ DeferLocalRetry(frame[p].task)
    /\ Set(p, ReadyRaised(p, frame[p]))
    /\ QueueUnchanged

\* dispatch_ready_qtask: what the scheduler gives next, if anything.
SelectReady(p) ==
    /\ At(p, "selectReady")
    /\ \E c \in Selections(p) :
        /\ SelectQtask(p, c)
        /\ Set(p, IF c.kind \in {"none", "unknown"}
                  THEN ReadyRaised(p, frame[p])
                  ELSE [frame[p] EXCEPT !.pc = "prepare", !.task = c.task])
    /\ QueueUnchanged

\* A task without resources waits in the queue.
Defer(p) ==
    /\ At(p, "defer")
    /\ DeferLocalRetry(frame[p].task)
    /\ Goto(p, "put")
    /\ QueueUnchanged

Put(p) ==
    /\ At(p, "put")
    /\ Len(oorq) < QueueBound
    /\ oorq' = Append(oorq, frame[p].task)
    /\ IF InDrain(p) THEN Goto(p, "releaseLock") ELSE Return(p)
    /\ UNCHANGED <<cvars, drainLock, drainReq, running>>

----------------------------------------------------------------------------
\* process_oor_queue, as in OorDrain.
InPass(f) == [f EXCEPT !.how = "none", !.task = None, !.pick = None,
                       !.circuit = FALSE, !.error = "none"]

DrainDone(p) ==
    IF frame[p].call = "finish" THEN Goto(p, "publish") ELSE Return(p)

RequestDrain(p) ==
    /\ frame[p].pc \in {"request", "rerequest"}
    /\ drainReq' = TRUE
    /\ Set(p, [InPass(frame[p]) EXCEPT !.pc = "acquire"])
    /\ UNCHANGED <<cvars, oorq, drainLock, running>>

\* Seeded fault: the lock is not looked at.
AcquireUnchecked(p) ==
    /\ At(p, "acquire")
    /\ drainLock' = p
    /\ Goto(p, "clear")
    /\ UNCHANGED <<cvars, oorq, drainReq, running>>

AcquireDrain(p) ==
    /\ At(p, "acquire")
    /\ IF drainLock = None THEN drainLock' = p /\ Goto(p, "clear")
                           ELSE DrainDone(p) /\ UNCHANGED drainLock
    /\ UNCHANGED <<cvars, oorq, drainReq, running>>

ClearRequest(p) ==
    /\ At(p, "clear")
    /\ drainReq' = FALSE
    /\ Goto(p, "retry")
    /\ UNCHANGED <<cvars, oorq, drainLock, running>>

Retry(p) ==
    /\ At(p, "retry")
    /\ \E a \in SUBSET pending : RetryPendingCapacity(a)
    /\ Goto(p, "scan")
    /\ QueueUnchanged

\* Seeded fault: a pass only looks at tasks not yet in the scheduler.
ScanEarly(p) ==
    LET live == SelectSeq(oorq, LAMBDA t : ~Ended(t))
        early == SelectSeq(live, LAMBDA t : sched[t] = "absent")
        f == InPass(frame[p])
    IN
    /\ At(p, "scan")
    /\ oorq' = live
    /\ Set(p, IF early = <<>> THEN [f EXCEPT !.pc = "releaseLock"]
              ELSE [f EXCEPT !.pc = "prepare", !.how = "oor",
                             !.task = Head(early)])
    /\ UNCHANGED <<cvars, drainLock, drainReq, running>>

\* _prune_oor_queue, then _next_oor_cid_without_scheduler_task: tasks that
\* have not reached the scheduler go first, by async_run_oor.
Scan(p) ==
    LET live == SelectSeq(oorq, LAMBDA t : ~Ended(t))
        early == SelectSeq(live, LAMBDA t : sched[t] = "absent")
        f == InPass(frame[p])
    IN
    /\ At(p, "scan")
    /\ oorq' = live
    /\ Set(p, CASE live = <<>> -> [f EXCEPT !.pc = "releaseLock"]
                [] live # <<>> /\ early # <<>> ->
                      [f EXCEPT !.pc = "prepare", !.how = "oor",
                                !.task = Head(early)]
                [] OTHER -> [f EXCEPT !.pc = "selectReady", !.how = "ready"])
    /\ UNCHANGED <<cvars, drainLock, drainReq, running>>

\* async_run_oor calls process_oor_queue for a task that failed, from inside
\* the pass: the lock is this thread's, so it only leaves a request.
NestedRequest(p) ==
    /\ At(p, "nested")
    /\ drainReq' = TRUE
    /\ Goto(p, "remove")
    /\ UNCHANGED <<cvars, oorq, drainLock, running>>

\* The queue without the first entry of a task.
WithoutFirst(q, t) ==
    LET entries == {i \in DOMAIN q : q[i] = t}
        first == CHOOSE i \in entries : \A j \in entries : i <= j
    IN IF entries = {} THEN q
       ELSE SubSeq(q, 1, first - 1) \o SubSeq(q, first + 1, Len(q))

RemoveOorCid(p) ==
    /\ At(p, "remove")
    /\ oorq' = WithoutFirst(oorq, frame[p].task)
    /\ Set(p, [InPass(frame[p]) EXCEPT
                  !.pc = IF frame[p].error = "error" THEN "releaseLock"
                                                     ELSE "scan"])
    /\ UNCHANGED <<cvars, drainLock, drainReq, running>>

ReleaseDrain(p) ==
    /\ At(p, "releaseLock")
    /\ drainLock' = None
    /\ Set(p, [InPass(frame[p]) EXCEPT !.pc = "check"])
    /\ UNCHANGED <<cvars, oorq, drainReq, running>>

CheckRequest(p) ==
    /\ At(p, "check")
    /\ IF drainReq THEN Goto(p, "rerequest") ELSE DrainDone(p)
    /\ UNCHANGED cvars /\ QueueUnchanged

----------------------------------------------------------------------------
\* The provider's thread reports a run: free_resources_and_oor, then the
\* result is published.
Finish(p) ==
    \E t \in running :
        /\ At(p, "idle")
        /\ p \in Runners
        /\ running' = running \ {t}
        /\ Set(p, [Idle EXCEPT !.pc = "finalize", !.call = "finish",
                              !.own = t, !.task = t])
        /\ \/ UNCHANGED cvars
           \/ "provider" \in Faults /\ SetFail(t)
        /\ UNCHANGED <<oorq, drainLock, drainReq>>

Publish(p) ==
    /\ At(p, "publish")
    /\ PublishCompletion(frame[p].own)
    /\ Return(p)
    /\ QueueUnchanged

\* qrc.sync_run returned or raised, then complete_provider_submission and
\* free_resources. Nothing drains the queue after it.
SyncReturns(p) ==
    LET t == frame[p].task IN
    /\ At(p, "syncRun")
    /\ \/ CompleteScheduledTask(t)
            /\ Goto(p, IF t \in known THEN "syncPublish" ELSE "finalize")
       \/ "provider" \in Faults /\ SetFail(t) /\ Raise(p, "error", TRUE)
    /\ QueueUnchanged

SyncPublish(p) ==
    /\ At(p, "syncPublish")
    /\ PublishCompletion(frame[p].task)
    /\ Goto(p, "finalize")
    /\ QueueUnchanged

\* A sync_run without resources tries again until its deadline.
SyncRetry(p) ==
    /\ At(p, "syncWait")
    /\ Set(p, [frame[p] EXCEPT !.pc = "prepare", !.error = "none",
                               !.circuit = FALSE])
    /\ UNCHANGED cvars /\ QueueUnchanged

\* _sync_timeout_response: the task is cancelled, or left to the queue.
SyncTimeout(p) ==
    LET t == frame[p].own IN
    /\ At(p, "syncWait")
    /\ "timeout" \in Ops
    /\ \/ t \notin known /\ Return(p) /\ UNCHANGED <<cvars, oorq>>
       \/ t \in known /\ UNCHANGED <<cvars, oorq>>
            /\ IF reservation = "active"
               THEN Set(p, [Idle EXCEPT !.pc = "cancel", !.call = "cancel",
                                        !.task = t])
               ELSE Return(p)
       \/ t \in known /\ Len(oorq) < QueueBound /\ oorq' = Append(oorq, t)
            /\ Return(p) /\ UNCHANGED cvars
    /\ UNCHANGED <<drainLock, drainReq, running>>

\* read_cq drains before it reads.
ReadCq(p) ==
    /\ At(p, "idle")
    /\ p \notin Runners
    /\ "read" \in Ops
    /\ Set(p, [Idle EXCEPT !.pc = "request", !.call = "read"])
    /\ UNCHANGED cvars /\ QueueUnchanged

\* cancel_task checks the reservation, cancels, and drains after it unless
\* the cancel raised.
Cancel(p) ==
    \E t \in known :
        /\ At(p, "idle")
        /\ p \notin Runners
        /\ "cancel" \in Ops
        /\ reservation = "active"
        /\ Set(p, [Idle EXCEPT !.pc = "cancel", !.call = "cancel", !.task = t])
        /\ UNCHANGED cvars /\ QueueUnchanged

CancelLocked(p) ==
    LET t == frame[p].task IN
    /\ At(p, "cancel")
    /\ CancelTask(t)
    /\ IF CancelOutcome(t) = "refused" THEN Return(p) ELSE Goto(p, "request")
    /\ QueueUnchanged

\* release_admission, cancel_admission and delete_circuit do not drain.
Close ==
    /\ "close" \in Ops
    /\ CloseReservation
    /\ UNCHANGED dvars

Delete ==
    /\ "delete" \in Ops
    /\ reservation = "active"
    /\ \E t \in circuits : DeleteCircuit(t)
    /\ UNCHANGED dvars

----------------------------------------------------------------------------
\* A new call of a client.
Call(p) == AsyncRun(p) \/ SyncRun(p) \/ ReadCq(p) \/ Cancel(p)

\* The next step of the call a thread is in. A sync_run's deadline may pass
\* or not.
Step(p) ==
    \/ CreateCircuit(p) \/ Prepare(p) \/ Authorize(p) \/ SubmitToScheduler(p)
    \/ Select(p) \/ Consume(p) \/ Unclaim(p) \/ Attach(p) \/ Start(p)
    \/ SubmitToProvider(p) \/ Bind(p)
    \/ Fail(p) \/ Finalize(p) \/ ReturnHostsStep(p) \/ FailReady(p)
    \/ ReleaseReady(p) \/ DeferReady(p) \/ SelectReady(p) \/ Defer(p) \/ Put(p)
    \/ RequestDrain(p) \/ AcquireDrain(p) \/ ClearRequest(p) \/ Retry(p)
    \/ Scan(p) \/ NestedRequest(p) \/ RemoveOorCid(p) \/ ReleaseDrain(p)
    \/ CheckRequest(p)
    \/ CancelLocked(p) \/ Publish(p) \/ SyncReturns(p) \/ SyncPublish(p)
    \/ SyncRetry(p)

DispatchNext ==
    \/ \E p \in Threads : Call(p) \/ Step(p) \/ Finish(p) \/ SyncTimeout(p)
    \/ Close
    \/ Delete

DispatchSpec == DispatchInit /\ [][DispatchNext]_vars

\* A thread inside a call keeps running, and a provider reports every run it
\* accepted as soon as it has a thread for it. No client is obliged to call.
Fairness ==
    /\ \A p \in Threads : WF_vars(Step(p))
    /\ SF_vars(\E p \in Threads : Finish(p))

FairDispatch == DispatchSpec /\ Fairness

\* A client that waits for its result polls read_cq.
PollingDispatch == FairDispatch /\ WF_vars(\E p \in Threads : ReadCq(p))
----------------------------------------------------------------------------
\* The thread has taken slots for t and has neither handed the run to the
\* provider nor given them back.
Holding(p, t) ==
    /\ frame[p].task = t
    /\ \/ frame[p].pc \in {"attach", "start", "provider", "syncRun",
                           "syncPublish", "fail", "finalize", "returnHosts"}
       \/ frame[p].pc = "release" /\ frame[p].circuit
            /\ frame[p].error = "inactive"

\* Every slot taken for a task has exactly one party that will give it back:
\* the thread dispatching the task or the provider running it. "Kept, they
\* would leave every later circuit waiting for resources that never come
\* back" (free_resources).
SlotHasOwner ==
    \A t \in Tasks :
        debt[t] = Cardinality({p \in Threads : Holding(p, t)})
                    + (IF t \in running THEN 1 ELSE 0)

\* Slots that are given back always fit: _return_hosts never raises "Returning
\* more resources than originally had", which would lose the rest of them.
ReturnsFit ==
    \A p \in Threads :
        At(p, "returnHosts") => ReturnFits /\ frame[p].task \in hosted

\* "One that another thread is dispatching is left to that thread"
\* (select_qtask_for_dispatch): no two threads take one task to its provider.
OneDispatcher ==
    \A p, q \in Threads : \A t \in Tasks :
        p # q => ~(Holding(p, t) /\ Holding(q, t))

\* Usage consumed from the admission library belongs to a hold, which is what
\* returns it: "Authorizing it again would hold usage that nothing returns"
\* (authorize_capacity_hold).
UsageHasHold == usage \subseteq holds

\* A claim is held by a thread that is still dispatching: a claim its thread
\* forgot would keep every other thread from dispatching anything.
ClaimHasThread ==
    \A t \in Tasks : claim[t] # None /\ ~Ended(t) =>
        LET f == frame[claim[t]] IN
        /\ f.pc \notin {"idle", "request", "acquire", "scan", "retry"}
        /\ t \in {f.task, f.pick}

\* Slots and claims have one owner each, who will give them back.
OwnersExact ==
    SlotHasOwner /\ ClaimHasThread

\* One completion record per task: a client that reads two would take the
\* second for another result.
OneRecord == \A t \in Tasks : records[t] <= 1

\* A completion record can be read only once the admission library has the
\* task's usage back and the scheduler library has ended it, whichever of the
\* threads and paths enqueued it.
RecordIsSettled ==
    \A t \in Tasks : records[t] > 0 =>
        t \notin usage /\ sched[t] \in {"absent", "ended"}

\* A client reads one record of a task, and may act on it.
RecordSound ==
    OneRecord /\ RecordIsSettled

\* "Only after all held qtasks have final accounting does QPM call release":
\* a closed reservation has no usage out and no task on its way.
ClosedIsSettled ==
    reservation = "closed" =>
        /\ holds = {} /\ usage = {}
        /\ \A t \in Tasks : st[t] \notin {"HELD", "QUEUED", "SELECTED",
                                         "CONSUMED", "SUBMITTED"}

\* What a task was given comes back: its usage by its hold, its hosts once,
\* and all of it before its reservation closes.
SettlementSound ==
    UsageHasHold /\ ReturnsFit /\ ClosedIsSettled

\* How a task ended does not change: "write over how it ended"
\* (authorize_capacity_hold) is what no later step may do.
EndedStaysEnded ==
    [][\A t \in Tasks : st[t] \in Terminal => st'[t] = st[t]]_vars

\* The provider is handed only tasks that are submitted and charged, never
\* one that was cancelled, failed or closed while a thread had it.
OnlySubmittedRuns ==
    [][\A t \in running' \ running :
          st[t] = "SUBMITTED" /\ t \in inflight \cap holds]_vars

\* The threads use the controller as QPMController says.
ControllerRefined == ControllerSpec

DrainStep(pc) ==
    CASE pc = "rerequest" -> "begin"
      [] pc \in {"acquire", "clear", "check"} -> pc
      [] pc = "releaseLock" -> "release"
      [] OTHER -> "out"

\* A thread inside a pass may be anywhere in the dispatch of a task.
Drain == INSTANCE OorDrain WITH
    NoThread <- None,
    dpc <- [p \in Threads |->
              IF InDrain(p) /\ frame[p].pc \notin {"clear", "releaseLock"}
              THEN "drain" ELSE DrainStep(frame[p].pc)],
    holder <- drainLock, requested <- drainReq, owed <- drainReq

\* The drain of the queue keeps to the handshake of OorDrain.
DrainRefined == Drain!Spec

\* A task that waits for capacity or in the scheduler's queue gets to an end.
EveryTaskEnds ==
    \A t \in Tasks : st[t] \notin Terminal \cup {"NEW"} ~> st[t] \in Terminal
=============================================================================
