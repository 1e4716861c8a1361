------------------------- MODULE QPMDispatchProofs -------------------------
(***************************************************************************)
(* What holds of the QPM's threads for any number of threads and tasks and *)
(* any limits.                                                             *)
(***************************************************************************)
EXTENDS QPMDispatch, QPMControllerProofs

\* Where a thread is while it drains, and where it is while it does not.
PassOnly == {"clear", "retry", "scan", "nested", "remove", "releaseLock"}

OutsideOnly ==
    {"idle", "create", "request", "rerequest", "acquire", "check", "publish",
     "cancel", "syncWait", "syncRun", "syncPublish"}

\* Where a thread has hosts to give back, or has just handed them over.
WithHosts ==
    {"attach", "start", "provider", "bind", "syncRun", "syncPublish", "fail",
     "finalize", "returnHosts"}

\* Where a thread works on a task that it has found to exist.
WithTask ==
    WithHosts \cup
    {"authorize", "submit", "select", "consume", "unclaim", "failReady",
     "release", "deferReady", "defer", "put", "syncWait", "cancel"}

Pcs ==
    PassOnly \cup OutsideOnly \cup WithTask \cup {"prepare", "selectReady"}

IsFrame(f) ==
    DOMAIN f = {"pc", "call", "own", "how", "task", "pick", "circuit", "error"}

\* The owner of oor_drain_lock is inside a pass, and nobody else is. The
\* dispatch of a task looks the same inside a pass and outside it, so what
\* tells them apart is the function that dispatches.
PassSound(f, drains) ==
    IF drains
    THEN /\ f.pc \notin OutsideOnly
         /\ f.how # "own"
         /\ f.how = "none" =>
               f.pc \in {"clear", "retry", "scan", "releaseLock"}
    ELSE /\ f.pc \notin PassOnly
         /\ f.how # "oor"
         /\ f.how = "ready" => f.call = "async"

\* How a thread came to where it is.
CallSound(f) ==
    /\ f.pc \in Pcs
    /\ f.call \in {"none", "async", "sync", "read", "cancel", "finish"}
    /\ f.how \in {"none", "own", "oor", "ready"}
    /\ f.circuit \in BOOLEAN
    /\ f.error \in {"none", "oor", "inactive", "error"}
    /\ f.call \in {"async", "sync", "finish"} => f.own \in Tasks
    /\ f.how = "own" => f.call \in {"async", "sync"} /\ f.task = f.own
    /\ f.how = "none" =>
          /\ f.pc \in WithTask => f.pc \in {"finalize", "returnHosts", "cancel"}
          /\ f.pc \in {"finalize", "returnHosts"} => f.call = "finish"
          /\ f.pc # "prepare"
    /\ f.pc \in {"selectReady", "failReady", "release", "deferReady"} =>
          f.how = "ready"
    /\ f.pc \in {"syncWait", "syncRun", "syncPublish"} =>
          f.how = "own" /\ f.call = "sync"
    /\ f.pc = "create" => f.call \in {"async", "sync"}
    /\ f.pc = "publish" => f.call = "finish"
    /\ f.pc = "unclaim" => f.error \in {"oor", "inactive"}
    /\ f.pc = "failReady" => f.error = "error"
    /\ f.pc \in {"acquire", "check"} => f.how = "none"
    /\ f.pc = "cancel" => Ops \cap {"cancel", "timeout"} # {}

\* A thread that works on a task has one, and has been given what it uses.
TaskSound(f) ==
    /\ f.pc \in WithTask \/ (f.pc = "prepare" /\ f.how # "oor") =>
          f.task \in Tasks
    /\ f.pc \in WithHosts => f.task \in hosted
    /\ f.pc = "release" /\ f.circuit /\ f.error = "inactive" =>
          f.task \in hosted
    /\ f.call = "finish" => f.own \in hosted
    /\ f.pc \in {"consume", "unclaim"} =>
          f.pick \in Tasks /\ sched[f.pick] # "absent"
    /\ f.pc \in {"attach", "start"} => sched[f.task] # "absent"

FrameSound(p, f) ==
    IsFrame(f) /\ CallSound(f) /\ PassSound(f, InDrain(p)) /\ TaskSound(f)

FramesSound ==
    /\ DOMAIN frame = Threads
    /\ \A p \in Threads : FrameSound(p, frame[p])

\* What a provider has was given hosts, and what is selected was submitted.
ThreadsInv ==
    /\ TypeOK
    /\ FramesSound
    /\ drainLock \in Threads \cup {None}
    /\ drainReq \in BOOLEAN
    /\ running \subseteq hosted
    /\ \A t \in selected : sched[t] # "absent"

\* The call goes on, or is over.
SameCall(g, f) == g = Idle \/ (g.call = f.call /\ g.own = f.own)

SameTask(g, f) == g = Idle \/ g.task = f.task

\* The call goes on at one of the places L, and a task that is to be put in the
\* queue is the call's own.
ReturnsTo(p, f, g, L) ==
    /\ IsFrame(g) /\ CallSound(g) /\ PassSound(g, InDrain(p))
    /\ SameCall(g, f) /\ g.pc \in L
    /\ g.pc = "defer" => g.task = f.own /\ f.own \in Tasks

\* Nothing but the place changes.
FieldsKept(f, g, l) ==
    /\ IsFrame(g) /\ g.pc = l /\ g.call = f.call /\ g.own = f.own
    /\ g.how = f.how /\ g.task = f.task /\ g.pick = f.pick
    /\ g.circuit = f.circuit /\ g.error = f.error

\* The sums of hosts owed, runs and holds that the balance of a step comes to.
LEMMA Sums ==
    /\ \A d \in Int, r, h \in {0, 1} : d + r + 0 <= d + r + h
    /\ \A d \in Int, r \in {0, 1} : d + 1 + 0 <= d + r + 1
    /\ \A d \in Int : d + 0 + 1 <= d + 1 + 0
    /\ \A d \in Int, r \in {0, 1} : d + r + 0 <= (d - 1) + r + 1
    /\ 0 >= 0 + 0
BY SMTT(30)

USE Zenon

\* What a raised exception makes of a frame.
LEMMA HandleFrame ==
    ASSUME NEW f, IsFrame(f), CallSound(f), NEW e \in {"oor", "inactive", "error"},
           NEW c \in BOOLEAN, NEW d, PassSound(f, d),
           f.how # "none",
           NEW g, g = Handle(f, e, c)
    PROVE  /\ IsFrame(g)
           /\ CallSound(g)
           /\ PassSound(g, d)
           /\ SameCall(g, f) /\ SameTask(g, f)
           /\ g.pc \in WithHosts => g.pc = "fail" /\ c
           /\ g.pc = "release" /\ g.circuit /\ g.error = "inactive" => c
           /\ g.pc \in {"idle", "selectReady", "fail", "request", "syncWait",
                        "defer", "nested", "release", "failReady"}
<1>. USE DEF IsFrame, CallSound, SameCall, SameTask
<1>0. f.how = "own" => ~d
  BY DEF PassSound
<1>1. CASE f.how = "own" /\ f.call = "async" /\ e = "oor"
  BY <1>0, <1>1, ZenonT(60) DEF Handle, PassSound, Pcs, PassOnly, OutsideOnly, WithTask, WithHosts
<1>2. CASE f.how = "own" /\ f.call = "async" /\ e # "oor"
  <2>1. /\ IsFrame(g) /\ g.call = f.call /\ g.own = f.own /\ g.task = f.task
        /\ g.pc = IF c THEN "fail" ELSE "request"
        /\ g.how = "own" /\ g.error = e /\ g.circuit = c
    BY <1>2 DEF Handle
  <2>. QED
    BY <1>0, <1>2, <2>1, ZenonT(60) DEF PassSound, Pcs, PassOnly, OutsideOnly, WithTask, WithHosts
<1>3. CASE f.how = "oor"
  BY <1>3, SMTT(30) DEF Handle, PassSound, Pcs, PassOnly, OutsideOnly, WithTask, WithHosts
<1>4. CASE f.how = "ready"
  BY <1>4, SMTT(30) DEF Handle, PassSound, Pcs, PassOnly, OutsideOnly, WithTask, WithHosts
<1>5. CASE f.how = "own" /\ f.call = "sync" /\ e = "oor"
  BY <1>0, <1>5, ZenonT(60) DEF Handle, PassSound, Pcs, PassOnly, OutsideOnly, WithTask, WithHosts
<1>6. CASE f.how = "own" /\ f.call = "sync" /\ e # "oor" /\ c
  BY <1>0, <1>6, ZenonT(60) DEF Handle, PassSound, Pcs, PassOnly, OutsideOnly, WithTask, WithHosts
<1>7. CASE f.how = "own" /\ f.call = "sync" /\ e # "oor" /\ ~c
  <2>1. g = Idle
    BY <1>7 DEF Handle
  <2>. QED
    BY <1>0, <1>7, <2>1, SMTT(30) DEF Idle, PassSound, Pcs, PassOnly, OutsideOnly, WithTask, WithHosts
<1>. QED BY <1>1, <1>2, <1>3, <1>4, <1>5, <1>6, <1>7, ZenonT(60)

\* The frame of an idle thread is sound outside a pass.
LEMMA IdleSound ==
    ASSUME NEW d, ~d
    PROVE  IsFrame(Idle) /\ CallSound(Idle) /\ PassSound(Idle, d) /\ Idle.pc = "idle"
BY DEF Idle, IsFrame, CallSound, PassSound, Pcs, PassOnly, OutsideOnly,
       WithTask, WithHosts

\* dispatch_ready_qtask goes back to the pass it is called from, or to the
\* async_run that now puts its own task in the queue.
LEMMA ReadyFrame ==
    ASSUME NEW p, NEW f, IsFrame(f), CallSound(f), PassSound(f, InDrain(p)),
           f.how = "ready", NEW g, g \in {ReadyRaised(p, f), ReadyReturned(p, f)}
    PROVE  /\ IsFrame(g) /\ CallSound(g) /\ PassSound(g, InDrain(p))
           /\ g.call = f.call /\ g.own = f.own
           /\ g.pc \in {"releaseLock", "remove", "defer"}
           /\ g.pc = "defer" => g.task = f.own /\ f.own \in Tasks
<1>1. /\ IsFrame(g) /\ g.call = f.call /\ g.own = f.own /\ g.how = f.how
      /\ g.circuit = FALSE /\ g.error = "none"
  BY DEF ReadyRaised, ReadyReturned, IsFrame
<1>2. /\ InDrain(p) => g.pc \in {"releaseLock", "remove"}
      /\ ~InDrain(p) => g.pc = "defer" /\ g.task = f.own
  BY DEF ReadyRaised, ReadyReturned, IsFrame
<1>3. ~InDrain(p) => f.call = "async" /\ f.own \in Tasks
  BY DEF PassSound, CallSound
<1>4. CallSound(g)
  BY <1>1, <1>2, <1>3, ZenonT(60) DEF CallSound, Pcs, PassOnly, OutsideOnly, WithTask, WithHosts
<1>5. PassSound(g, InDrain(p))
  BY <1>1, <1>2, <1>3, ZenonT(60) DEF PassSound, PassOnly, OutsideOnly
<1>. QED BY <1>1, <1>2, <1>3, <1>4, <1>5

\* Where a dispatch that went through returns to.
SubmittedFrame(p, f) ==
    CASE f.how = "own" -> Idle
      [] f.how = "oor" -> [f EXCEPT !.pc = "remove", !.error = "none"]
      [] OTHER -> ReadyReturned(p, f)

\* A submission that is over is followed by something sound.
LEMMA SubmittedSound ==
    ASSUME NEW p, NEW f, IsFrame(f), CallSound(f), PassSound(f, InDrain(p)),
           f.how # "none", NEW g, g = SubmittedFrame(p, f)
    PROVE  /\ IsFrame(g) /\ CallSound(g) /\ PassSound(g, InDrain(p))
           /\ SameCall(g, f)
           /\ g.pc \in {"idle", "releaseLock", "remove", "defer"}
           /\ g.pc = "defer" => g.task = f.own /\ f.own \in Tasks
<1>1. CASE f.how = "own"
  <2>1. g = Idle /\ ~InDrain(p)
    BY <1>1 DEF SubmittedFrame, PassSound
  <2>. QED BY <2>1, IdleSound, ZenonT(60) DEF SameCall
<1>2. CASE f.how = "oor"
  <2>1. /\ IsFrame(g) /\ g.call = f.call /\ g.own = f.own /\ g.how = f.how
        /\ g.circuit = f.circuit /\ g.error = "none" /\ g.pc = "remove"
    BY <1>2, ZenonT(60) DEF SubmittedFrame, IsFrame
  <2>2. InDrain(p)
    BY <1>2 DEF PassSound
  <2>3. PassSound(g, InDrain(p))
    BY <1>2, <2>1, <2>2, ZenonT(60) DEF PassSound, PassOnly, OutsideOnly
  <2>. QED
    BY <1>2, <2>1, <2>3, ZenonT(60) DEF SameCall, CallSound, Pcs, PassOnly, OutsideOnly, WithTask,
         WithHosts
<1>3. CASE f.how = "ready"
  <2>1. g = ReadyReturned(p, f)
    BY <1>3 DEF SubmittedFrame
  <2>. QED BY <1>3, <2>1, ReadyFrame, SMTT(30) DEF SameCall
<1>. QED BY <1>1, <1>2, <1>3, ZenonT(60) DEF CallSound

\* Where free_resources returns to.
LEMMA AfterReturnFrame ==
    ASSUME NEW p, NEW f, IsFrame(f), CallSound(f), PassSound(f, InDrain(p)),
           f.pc = "returnHosts", NEW g, g = AfterReturn(p, f)
    PROVE  /\ IsFrame(g) /\ CallSound(g) /\ PassSound(g, InDrain(p))
           /\ SameCall(g, f)
           /\ g.pc \in {"idle", "releaseLock", "remove", "defer", "request",
                        "nested", "failReady"}
           /\ g.pc = "defer" => g.task = f.own /\ f.own \in Tasks
           /\ g.pc = "failReady" => g.task = f.task
<1>1. CASE f.how = "none"
  BY <1>1, ZenonT(60) DEF AfterReturn, SameCall, IsFrame, CallSound, PassSound, Pcs, PassOnly,
         OutsideOnly, WithTask, WithHosts
<1>2. CASE f.how # "none" /\ ~f.circuit
  <2>1. g = Handle(f, "error", FALSE)
    BY <1>2, ZenonT(60) DEF AfterReturn
  <2>2. /\ IsFrame(g) /\ CallSound(g) /\ PassSound(g, InDrain(p))
        /\ SameCall(g, f) /\ SameTask(g, f)
    BY <1>2, <2>1, HandleFrame, ZenonT(60)
  <2>3. Idle.pc = "idle"
    BY DEF Idle
  <2>4. g.pc \in {"idle", "request", "nested", "failReady"}
    <3>1. CASE f.how = "own" /\ f.call = "sync"
      <4>1. g = Idle
        BY <2>1, <3>1, ZenonT(60) DEF Handle
      <4>. QED BY <4>1, SMTT(30) DEF Idle
    <3>2. CASE ~(f.how = "own" /\ f.call = "sync")
      BY <1>2, <2>1, <3>2, ZenonT(60) DEF Handle, IsFrame, CallSound
    <3>. QED BY <3>1, <3>2, ZenonT(60)
  <2>. QED BY <2>2, <2>3, <2>4 DEF SameTask
<1>3. CASE f.how = "own" /\ f.circuit
  <2>1. CASE f.call = "sync"
    <3>1. g = Idle /\ ~InDrain(p)
      BY <1>3, <2>1, ZenonT(60) DEF AfterReturn, PassSound
    <3>. QED BY <3>1, IdleSound, ZenonT(60) DEF SameCall
  <2>2. CASE f.call # "sync"
    BY <1>3, <2>2, ZenonT(60) DEF AfterReturn, SameCall, IsFrame, CallSound, PassSound, Pcs, PassOnly,
         OutsideOnly, WithTask, WithHosts
  <2>. QED BY <2>1, <2>2, ZenonT(60)
<1>4. CASE f.how = "oor" /\ f.circuit
  BY <1>4, ZenonT(60) DEF AfterReturn, SameCall, IsFrame, CallSound, PassSound, Pcs, PassOnly,
         OutsideOnly, WithTask, WithHosts
<1>5. CASE f.how = "ready" /\ f.circuit
  <2>1. g \in {ReadyRaised(p, f), ReadyReturned(p, f)}
    BY <1>5, ZenonT(60) DEF AfterReturn
  <2>. QED BY <1>5, <2>1, ReadyFrame, SMTT(30) DEF SameCall
<1>. QED BY <1>1, <1>2, <1>3, <1>4, <1>5 DEF CallSound

\* The three of them in one form: a ready dispatch that is over.
LEMMA ReadyReturns ==
    ASSUME NEW p, NEW f, IsFrame(f), CallSound(f), PassSound(f, InDrain(p)),
           f.how = "ready", NEW g, g \in {ReadyRaised(p, f), ReadyReturned(p, f)}
    PROVE  ReturnsTo(p, f, g, {"releaseLock", "remove", "defer"})
BY ReadyFrame, SMTT(30) DEF ReturnsTo, SameCall

\* A submission that is over.
LEMMA SubmittedReturns ==
    ASSUME NEW p, NEW f, IsFrame(f), CallSound(f), PassSound(f, InDrain(p)),
           f.how # "none", NEW g, g = SubmittedFrame(p, f)
    PROVE  ReturnsTo(p, f, g, {"idle", "releaseLock", "remove", "defer"})
BY SubmittedSound, SMTT(30) DEF ReturnsTo

\* A thread that has given its hosts back.
LEMMA AfterReturns ==
    ASSUME NEW p, NEW f, IsFrame(f), CallSound(f), PassSound(f, InDrain(p)),
           f.pc = "returnHosts", NEW g, g = AfterReturn(p, f)
    PROVE  ReturnsTo(p, f, g, {"idle", "releaseLock", "remove", "defer", "request",
                               "nested", "failReady"})
BY AfterReturnFrame, SMTT(30) DEF ReturnsTo

\* A dispatch that fails after it has given its hosts back keeps its task.
LEMMA AfterFails ==
    ASSUME NEW p, NEW f, IsFrame(f), CallSound(f), PassSound(f, InDrain(p)),
           f.pc = "returnHosts", NEW g, g = AfterReturn(p, f)
    PROVE  g.pc = "failReady" => g.task = f.task
BY AfterReturnFrame, SMTT(30)

\* A step that only changes the place.
LEMMA GotoFields ==
    ASSUME NEW f, IsFrame(f), NEW l, NEW g, g = [f EXCEPT !.pc = l]
    PROVE  FieldsKept(f, g, l)
BY DEF IsFrame, FieldsKept

\* A thread that goes on in the dispatch of its task is still in that call.
LEMMA GotoCall ==
    ASSUME NEW f, NEW g,
           NEW l \in {"submit", "authorize", "select", "provider", "syncRun",
                      "syncPublish", "finalize", "returnHosts", "release",
                      "deferReady", "put"},
           FieldsKept(f, g, l), CallSound(f),
           f.how # "none" \/ l = "returnHosts",
           l \in {"syncRun", "syncPublish"} => f.how = "own" /\ f.call = "sync",
           l = "release" => f.pc = "failReady",
           l = "deferReady" => f.pc = "release",
           l = "returnHosts" => f.pc = "finalize"
    PROVE  CallSound(g)
<1>1. l \in Pcs
  BY SMTT(30) DEF Pcs, WithTask, WithHosts
<1>2. l \in {"release", "deferReady"} => f.how = "ready"
  BY DEF CallSound
<1>3. l = "returnHosts" /\ f.how = "none" => f.call = "finish"
  BY DEF CallSound
<1>4. /\ g.call \in {"none", "async", "sync", "read", "cancel", "finish"}
      /\ g.how \in {"none", "own", "oor", "ready"}
      /\ g.circuit \in BOOLEAN
      /\ g.error \in {"none", "oor", "inactive", "error"}
      /\ g.call \in {"async", "sync", "finish"} => g.own \in Tasks
      /\ g.how = "own" => g.call \in {"async", "sync"} /\ g.task = g.own
  BY ZenonT(60) DEF CallSound, FieldsKept
<1>. QED BY <1>1, <1>2, <1>3, <1>4, SMTT(30) DEF CallSound, FieldsKept

----------------------------------------------------------------------------
\* What no operation of the controller takes back.
Forward ==
    /\ hosted \subseteq hosted'
    /\ \A t \in Tasks : sched[t] # "absent" => sched'[t] # "absent"

USE DEF taskVars, dispatchVars, usageVars, hostVars, reservationVars

\* No operation of a task takes hosts or a submission back.
LEMMA TaskOperationForward ==
    ASSUME TypeOK, NEW t \in Tasks, TaskOperation(t)
    PROVE  Forward /\ selected' \subseteq selected
<1>. USE DEF Forward, TypeOK
<1>1. CASE RegisterCircuit(t)
  BY <1>1 DEF RegisterCircuit
<1>2. ASSUME NEW d \in Decisions, AuthorizeCapacityHold(t, d)
      PROVE  Forward /\ selected' \subseteq selected
  BY <1>2 DEF AuthorizeCapacityHold
<1>3. CASE SubmitQtaskToScheduler(t)
  BY <1>3 DEF SubmitQtaskToScheduler
<1>4. ASSUME NEW o, FinishTask(t, o)
      PROVE  Forward /\ selected' \subseteq selected
  BY <1>4 DEF FinishTask, EndInScheduler
<1>5. CASE ReleaseDispatchClaim(t)
  BY <1>5 DEF ReleaseDispatchClaim
<1>6. CASE ConsumeForDispatch(t)
  BY <1>6 DEF ConsumeForDispatch
<1>7. CASE StartProviderSubmission(t)
  BY <1>7 DEF StartProviderSubmission
<1>8. CASE DeferLocalRetry(t)
  BY <1>8 DEF DeferLocalRetry
<1>9. CASE DeleteCircuit(t)
  BY <1>9 DEF DeleteCircuit, Cleanup
<1>10. CASE CancelTask(t)
  BY <1>10 DEF CancelTask, EndInScheduler
<1>11. CASE BindProviderHandle(t) \/ SetFail(t)
  BY <1>11 DEF BindProviderHandle, SetFail
<1>12. CASE PublishCompletion(t)
  BY <1>4, <1>12, ZenonT(60) DEF PublishCompletion
<1>13. CASE ReturnHosts(t)
  BY <1>13 DEF ReturnHosts, Cleanup
<1>. QED
  BY <1>1, <1>2, <1>3, <1>4, <1>5, <1>6, <1>7, <1>8, <1>9, <1>10, <1>11,
     <1>12, <1>13, ZenonT(60) DEF TaskOperation, ProviderOperation, SubmissionFails, FailScheduledTask,
      CompleteScheduledTask

\* Every operation of the controller goes forward.
LEMMA ControllerForward ==
    ASSUME TypeOK, \A t \in selected : sched[t] # "absent", [Next]_cvars
    PROVE  Forward /\ \A t \in selected' : sched'[t] # "absent"
<1>1. CASE UNCHANGED cvars
  BY <1>1 DEF cvars, Forward
<1>2. ASSUME NEW t \in Tasks, TaskOperation(t)
      PROVE  Forward /\ \A u \in selected' : sched'[u] # "absent"
  BY <1>2, TaskOperationForward DEF Forward, TypeOK
<1>3. ASSUME NEW p \in Threads, NEW c \in Selections(p), SelectQtask(p, c)
      PROVE  Forward /\ \A u \in selected' : sched'[u] # "absent"
  <2>1. /\ hosted' = hosted
        /\ \A t \in Tasks : sched'[t] = IF c.kind \in {"new", "unknown"} /\ t = c.task
                                       THEN "selected" ELSE sched[t]
        /\ selected' = Live \cup (IF c.kind \in {"again", "new"} THEN {c.task} ELSE {})
    BY <1>3 DEF SelectQtask
  <2>2. Live \subseteq selected /\ selected \subseteq Tasks
    BY DEF Live, TypeOK
  <2>3. c.kind # "none" => c.task \in Tasks
    BY <1>3, SelectionTyped
  <2>4. c.kind = "again" => c.task \in Live
    BY <1>3, SelectionTask
  <2>. QED BY <2>1, <2>2, <2>3, <2>4, ZenonT(60) DEF Forward
<1>4. ASSUME NEW a, RetryPendingCapacity(a)
      PROVE  Forward /\ \A u \in selected' : sched'[u] # "absent"
  BY <1>4 DEF RetryPendingCapacity, Forward
<1>5. CASE CloseReservation
  BY <1>5 DEF CloseReservation, Forward, EndInScheduler, TypeOK
<1>. QED BY <1>1, <1>2, <1>3, <1>4, <1>5, ZenonT(60) DEF Next

----------------------------------------------------------------------------
\* What Holding says of a thread's frame.
HoldsFor(f, t) ==
    /\ f.task = t
    /\ \/ f.pc \in {"attach", "start", "provider", "syncRun", "syncPublish",
                    "fail", "finalize", "returnHosts"}
       \/ f.pc = "release" /\ f.circuit /\ f.error = "inactive"

Holders(t) == {p \in Threads : HoldsFor(frame[p], t)}

HoldBit(f, t) == IF HoldsFor(f, t) THEN 1 ELSE 0

RunBit(t) == IF t \in running THEN 1 ELSE 0

\* Every thread that has hosts to give back, and every run the provider has,
\* is matched by hosts that were taken. The converse, that every host taken
\* has somebody to give it back, is SlotHasOwner, and fails.
DebtCovers ==
    \A t \in Tasks : debt[t] >= Cardinality(Holders(t)) + RunBit(t)

\* Hosts are returned only for a task that has been given some.
LEMMA HolderHasDebt ==
    ASSUME TypeOK, DebtCovers, NEW p \in Threads, NEW t \in Tasks,
           HoldsFor(frame[p], t)
    PROVE  debt[t] > 0
<1>1. IsFiniteSet(Holders(t))
  BY DispatchAssumption, FS_Subset DEF Holders
<1>2. p \in Holders(t)
  BY DEF Holders
<1>3. Cardinality(Holders(t)) \in Nat /\ Cardinality(Holders(t)) # 0
  BY <1>1, <1>2, FS_CardinalityType, FS_EmptySet, ZenonT(60)
<1>4. debt[t] \in Int
  BY DEF TypeOK
<1>. QED BY <1>3, <1>4, SMTT(30) DEF DebtCovers, RunBit

\* What one thread does is an operation of the controller, or none.
LEMMA StepOperates ==
    ASSUME ThreadsInv, DebtCovers, NEW p \in Threads,
           Call(p) \/ Step(p) \/ Finish(p) \/ SyncTimeout(p)
    PROVE  [Next]_cvars
<1>. DEFINE f == frame[p]
<1>0. /\ FrameSound(p, f)
      /\ TypeOK
      /\ running \subseteq hosted /\ hosted \subseteq Tasks
      /\ circuits \subseteq Tasks
  BY DEF ThreadsInv, FramesSound, TypeOK
<1>1. \A t \in Tasks : TaskOperation(t) => Next
  BY DEF Next
<1>2. \A t \in Tasks : t \in hosted /\ (\/ BindProviderHandle(t)
                                       \/ CompleteScheduledTask(t)
                                       \/ PublishCompletion(t)
                                       \/ SetFail(t)) => Next
  BY <1>1 DEF TaskOperation, ProviderOperation
<1>3. \A t \in Tasks, b \in BOOLEAN : FailScheduledTask(t, b) => Next
  BY <1>1 DEF TaskOperation
<1>4. f.pc \in WithTask => f.task \in Tasks
  BY <1>0 DEF FrameSound, TaskSound
<1>5. f.pc \in WithHosts => f.task \in Tasks /\ f.task \in hosted
  BY <1>0, <1>4 DEF FrameSound, TaskSound
<1>. HIDE DEF f
<1>6. CASE Call(p)
  BY <1>6 DEF Call, AsyncRun, SyncRun, ReadCq, Cancel, Submit
<1>7. CASE Finish(p)
  BY <1>0, <1>2, <1>7, ZenonT(60) DEF Finish
<1>8. CASE SyncTimeout(p)
  BY <1>8 DEF SyncTimeout, cvars
<1>9. CASE CreateCircuit(p)
  <2>1. f.own \in Tasks
    BY <1>0, <1>9, ZenonT(60) DEF CreateCircuit, At, FrameSound, CallSound, f
  <2>. QED BY <1>1, <1>9, <2>1, ZenonT(60) DEF CreateCircuit, TaskOperation, f
<1>10. CASE Authorize(p)
  BY <1>1, <1>4, <1>10, ZenonT(60) DEF Authorize, At, TaskOperation, WithTask, f
<1>11. CASE SubmitToScheduler(p)
  BY <1>1, <1>4, <1>11, ZenonT(60) DEF SubmitToScheduler, At, TaskOperation, WithTask, f
<1>12. CASE Select(p) \/ SelectReady(p)
  BY <1>12 DEF Select, SelectReady, Next
<1>13. CASE Consume(p)
  BY <1>1, <1>4, <1>13, ZenonT(60) DEF Consume, At, TaskOperation, WithTask, f
<1>14. CASE Unclaim(p)
  <2>1. f.pick \in Tasks
    BY <1>0, <1>14, ZenonT(60) DEF Unclaim, At, FrameSound, TaskSound, f
  <2>. QED BY <1>1, <1>14, <2>1, ZenonT(60) DEF Unclaim, TaskOperation, f
<1>15. CASE Start(p)
  <2>1. f.task \in Tasks /\ sched[f.task] # "absent"
    BY <1>0, <1>5, <1>15, ZenonT(60) DEF Start, At, FrameSound, TaskSound, WithHosts, f
  <2>. QED BY <1>1, <1>15, <2>1, ZenonT(60) DEF Start, TaskOperation, f
<1>16. CASE Bind(p) \/ SyncReturns(p) \/ SyncPublish(p)
  BY <1>2, <1>5, <1>16, ZenonT(60) DEF Bind, SyncReturns, SyncPublish, At, WithHosts, f
<1>17. CASE Publish(p)
  <2>1. f.own \in Tasks /\ f.own \in hosted
    BY <1>0, <1>17, ZenonT(60) DEF Publish, At, FrameSound, CallSound, TaskSound, f
  <2>. QED BY <1>2, <1>17, <2>1, ZenonT(60) DEF Publish, f
<1>18. CASE Fail(p) \/ Finalize(p)
  BY <1>2, <1>3, <1>5, <1>18, ZenonT(60) DEF Fail, Finalize, At, WithHosts, f
<1>19. CASE FailReady(p)
  BY <1>3, <1>4, <1>19, ZenonT(60) DEF FailReady, At, WithTask, f
<1>20. CASE ReturnHostsStep(p)
  <2>1. f.task \in Tasks /\ f.task \in hosted /\ HoldsFor(f, f.task)
    BY <1>5, <1>20, ZenonT(60) DEF ReturnHostsStep, At, WithHosts, HoldsFor, f
  <2>2. debt[f.task] > 0
    BY <1>0, <2>1, HolderHasDebt, ZenonT(60) DEF f
  <2>. QED
    BY <1>1, <1>20, <2>1, <2>2, ZenonT(60) DEF ReturnHostsStep, TaskOperation, ProviderOperation, f
<1>21. CASE ReleaseReady(p) \/ DeferReady(p) \/ Defer(p) \/ CancelLocked(p)
  BY <1>1, <1>4, <1>21, ZenonT(60) DEF ReleaseReady, DeferReady, Defer, CancelLocked, At, TaskOperation, WithTask, f
<1>22. CASE Retry(p)
  BY <1>22 DEF Retry, Next
<1>23. CASE \/ Prepare(p) \/ Attach(p) \/ SubmitToProvider(p) \/ Put(p)
            \/ RequestDrain(p) \/ AcquireDrain(p) \/ ClearRequest(p)
            \/ Scan(p) \/ NestedRequest(p) \/ RemoveOorCid(p)
            \/ ReleaseDrain(p) \/ CheckRequest(p) \/ SyncRetry(p)
  BY <1>23
  DEF Prepare, Attach, SubmitToProvider, Put, RequestDrain, AcquireDrain,
      ClearRequest, Scan, NestedRequest, RemoveOorCid, ReleaseDrain,
      CheckRequest, SyncRetry
<1>. QED
  BY <1>6, <1>7, <1>8, <1>9, <1>10, <1>11, <1>12, <1>13, <1>14, <1>15, <1>16,
     <1>17, <1>18, <1>19, <1>20, <1>21, <1>22, <1>23, ZenonT(60) DEF Step

\* So is every step of the threads together.
LEMMA DispatchOperates ==
    ASSUME ThreadsInv, DebtCovers, [DispatchNext]_vars
    PROVE  [Next]_cvars
<1>1. CASE UNCHANGED vars
  BY <1>1 DEF vars
<1>2. CASE Close
  BY <1>2 DEF Close, Next
<1>3. CASE Delete
  <2>1. circuits \subseteq Tasks
    BY DEF ThreadsInv, TypeOK
  <2>. QED BY <1>3, <2>1, ZenonT(60) DEF Delete, Next, TaskOperation
<1>. QED BY <1>1, <1>2, <1>3, StepOperates, ZenonT(60) DEF DispatchNext

----------------------------------------------------------------------------
\* Thread p goes on with frame g, and what it holds is still matched.
Balanced(f, g) ==
    \A t \in Tasks :
        debt[t] + RunBit(t)' + HoldBit(g, t)
            <= debt'[t] + RunBit(t) + HoldBit(f, t)

\* What was hosted or submitted stays so.
LEMMA TaskForward ==
    ASSUME NEW f, TaskSound(f), Forward
    PROVE  TaskSound(f)'
BY DEF TaskSound, Forward, WithTask, WithHosts

\* A step of one thread keeps the frames of the others.
LEMMA FramesUpdate ==
    ASSUME FramesSound, Forward, NEW p \in Threads, NEW g,
           frame' = [frame EXCEPT ![p] = g],
           \A q \in Threads \ {p} : (drainLock' = q) <=> (drainLock = q),
           IsFrame(g), CallSound(g), PassSound(g, drainLock' = p),
           TaskSound(g)'
    PROVE  FramesSound'
<1>1. DOMAIN frame' = Threads /\ frame'[p] = g
  BY DEF FramesSound
<1>2. ASSUME NEW q \in Threads, q # p
      PROVE  FrameSound(q, frame[q])'
  <2>1. FrameSound(q, frame[q])
    BY DEF FramesSound
  <2>2. frame'[q] = frame[q]
    BY <1>2 DEF FramesSound
  <2>3. PICK h : h = frame[q]
    OBVIOUS
  <2>4. TaskSound(h)'
    BY <2>1, <2>3, TaskForward, ZenonT(60) DEF FrameSound
  <2>5. PassSound(h, drainLock' = q)
    BY <1>2, <2>1, <2>3, ZenonT(60) DEF FrameSound, InDrain, PassSound
  <2>6. IsFrame(h) /\ CallSound(h)
    BY <2>1, <2>3, ZenonT(60) DEF FrameSound
  <2>. QED BY <2>2, <2>3, <2>4, <2>5, <2>6, ZenonT(60) DEF FrameSound, InDrain
<1>3. FrameSound(p, frame[p])'
  BY <1>1 DEF FrameSound, InDrain
<1>. QED BY <1>1, <1>2, <1>3, ZenonT(60) DEF FramesSound

\* What one thread does to the holders of a task.
LEMMA HoldersMove ==
    ASSUME DOMAIN frame = Threads, NEW p \in Threads, NEW g,
           frame' = [frame EXCEPT ![p] = g], NEW t \in Tasks
    PROVE  /\ Cardinality(Holders(t)) \in Nat
           /\ Cardinality(Holders(t)') \in Nat
           /\ Cardinality(Holders(t)') + HoldBit(frame[p], t)
                = Cardinality(Holders(t)) + HoldBit(g, t)
<1>. DEFINE rest == {q \in Threads \ {p} : HoldsFor(frame[q], t)}
<1>1. IsFiniteSet(rest) /\ p \notin rest
  BY DispatchAssumption, FS_Subset
<1>2. Holders(t) = IF HoldsFor(frame[p], t) THEN rest \cup {p} ELSE rest
  BY DEF Holders
<1>3. frame'[p] = g /\ \A q \in Threads \ {p} : frame'[q] = frame[q]
  OBVIOUS
<1>4. \A q : q \in Holders(t)' <=> q \in Threads /\ HoldsFor(frame'[q], t)
  BY DEF Holders, HoldsFor
<1>5. Holders(t)' = IF HoldsFor(g, t) THEN rest \cup {p} ELSE rest
  <2>1. \A q \in Threads \ {p} : q \in Holders(t)' <=> q \in rest
    BY <1>3, <1>4, ZenonT(60)
  <2>2. p \in Holders(t)' <=> HoldsFor(g, t)
    BY <1>3, <1>4, ZenonT(60)
  <2>3. \A q : q \in Holders(t)' => q \in Threads
    BY <1>4
  <2>. HIDE DEF rest
  <2>4. rest \subseteq Threads \ {p}
    BY DEF rest
  <2>. QED BY <2>1, <2>2, <2>3, <2>4, SMTT(30)
<1>6. Cardinality(rest) \in Nat /\ Cardinality(rest \cup {p}) = Cardinality(rest) + 1
  BY <1>1, FS_AddElement, FS_CardinalityType, ZenonT(60)
<1>. QED BY <1>2, <1>5, <1>6, SMTT(30) DEF HoldBit

\* A step in balance keeps every hold covered by hosts taken.
LEMMA BalanceKept ==
    ASSUME TypeOK, TypeOK', DOMAIN frame = Threads, DebtCovers,
           NEW p \in Threads, NEW g,
           frame' = [frame EXCEPT ![p] = g], Balanced(frame[p], g)
    PROVE  DebtCovers'
<1>. SUFFICES ASSUME NEW t \in Tasks
            PROVE  debt'[t] >= Cardinality(Holders(t)') + RunBit(t)'
  BY DEF DebtCovers
<1>1. debt[t] \in Int /\ debt'[t] \in Int
  BY DEF TypeOK
<1>3. /\ debt[t] >= Cardinality(Holders(t)) + RunBit(t)
      /\ debt[t] + RunBit(t)' + HoldBit(g, t)
            <= debt'[t] + RunBit(t) + HoldBit(frame[p], t)
  BY DEF DebtCovers, Balanced
<1>4. /\ Cardinality(Holders(t)) \in Nat
      /\ Cardinality(Holders(t)') \in Nat
      /\ Cardinality(Holders(t)') + HoldBit(frame[p], t)
            = Cardinality(Holders(t)) + HoldBit(g, t)
  BY HoldersMove
<1>5. /\ RunBit(t) \in Nat /\ RunBit(t)' \in Nat
      /\ HoldBit(g, t) \in Nat /\ HoldBit(frame[p], t) \in Nat
  BY DEF HoldBit, RunBit
<1>. QED BY <1>1, <1>3, <1>4, <1>5, SMTT(30)

----------------------------------------------------------------------------
\* Thread p goes on with frame g, which is sound where the step leaves the
\* controller.
Moves(p, g) ==
    /\ frame' = [frame EXCEPT ![p] = g]
    /\ IsFrame(g) /\ CallSound(g)
    /\ PassSound(g, drainLock' = p)
    /\ TaskSound(g)'
    /\ Balanced(frame[p], g)
    /\ running' \subseteq hosted'
    /\ drainLock' \in Threads \cup {None}
    /\ drainReq' \in BOOLEAN
    /\ \A q \in Threads \ {p} : (drainLock' = q) <=> (drainLock = q)

\* The steps of process_oor_queue itself.
DrainPcs == {"clear", "rerequest", "acquire", "check"}

\* The step is none of the drain's handshake.
Aside(p, g) ==
    /\ UNCHANGED <<drainLock, drainReq>>
    /\ frame[p].pc \notin DrainPcs \cup {"releaseLock"}
    /\ g.pc \notin DrainPcs
    /\ g.pc = "returnHosts" => frame[p].pc = "finalize"

\* A step that neither takes hosts nor gives any back.
LEMMA QuietStep ==
    ASSUME ThreadsInv, Forward, NEW p \in Threads, NEW g,
           frame' = [frame EXCEPT ![p] = g],
           UNCHANGED <<debt, running, drainLock, drainReq>>,
           IsFrame(g), CallSound(g), PassSound(g, InDrain(p)), TaskSound(g)',
           \A t \in Tasks : HoldsFor(g, t) => HoldsFor(frame[p], t)
    PROVE  Moves(p, g)
<1>2. Balanced(frame[p], g)
  <2>. SUFFICES ASSUME NEW t \in Tasks
              PROVE  debt[t] + RunBit(t)' + HoldBit(g, t)
                        <= debt'[t] + RunBit(t) + HoldBit(frame[p], t)
    BY DEF Balanced
  <2>1. debt[t] \in Int /\ debt'[t] = debt[t]
    BY DEF ThreadsInv, TypeOK
  <2>2. RunBit(t)' = RunBit(t) /\ RunBit(t) \in Int
    BY SMTT(30) DEF RunBit
  <2>3. HoldBit(g, t) <= HoldBit(frame[p], t) /\ HoldBit(g, t) \in Int
          /\ HoldBit(frame[p], t) \in Int
    BY SMTT(30) DEF HoldBit
  <2>. QED BY <2>1, <2>2, <2>3, SMTT(30)
<1>3. running' \subseteq hosted'
  BY DEF ThreadsInv, Forward
<1>4. PassSound(g, drainLock' = p)
  BY DEF InDrain, PassSound
<1>. QED BY <1>2, <1>3, <1>4, ZenonT(60) DEF Moves, ThreadsInv

\* A step of a thread that changes nothing but its frame.
LEMMA QuietMove ==
    ASSUME ThreadsInv, Forward, NEW p \in Threads, NEW g,
           frame' = [frame EXCEPT ![p] = g],
           UNCHANGED <<debt, running, drainLock, drainReq>>,
           IsFrame(g), CallSound(g), PassSound(g, InDrain(p)), TaskSound(g),
           \A t \in Tasks : HoldsFor(g, t) => HoldsFor(frame[p], t)
    PROVE  Moves(p, g)
<1>1. TaskSound(g)'
  BY TaskForward
<1>. QED BY <1>1, QuietStep, ZenonT(60)

\* So is a raised exception: what it leads to holds what the thread held.
LEMMA RaiseMove ==
    ASSUME ThreadsInv, Forward, NEW p \in Threads,
           NEW e \in {"oor", "inactive", "error"}, NEW c \in BOOLEAN,
           Raise(p, e, c),
           UNCHANGED <<debt, running, drainLock, drainReq>>,
           frame[p].how # "none",
           frame[p].task \in Tasks \/ (frame[p].how = "oor" /\ e # "oor" /\ ~c),
           c => /\ frame[p].task \in hosted
                /\ HoldsFor(frame[p], frame[p].task),
           frame[p].pc \notin DrainPcs \cup {"releaseLock"}
    PROVE  \E g : Moves(p, g) /\ Aside(p, g)
<1>1. PICK f : f = frame[p]
  OBVIOUS
<1>2. PICK g : g = Handle(f, e, c)
  OBVIOUS
<1>3. frame' = [frame EXCEPT ![p] = g]
  BY <1>1, <1>2, ZenonT(60) DEF Raise, Set
<1>4. IsFrame(f) /\ CallSound(f) /\ PassSound(f, InDrain(p)) /\ TaskSound(f)
  BY <1>1 DEF ThreadsInv, FramesSound, FrameSound
<1>5. /\ IsFrame(g)
      /\ CallSound(g)
      /\ PassSound(g, InDrain(p))
      /\ SameCall(g, f) /\ SameTask(g, f)
      /\ g.pc \in WithHosts => g.pc = "fail" /\ c
      /\ g.pc = "release" /\ g.circuit /\ g.error = "inactive" => c
      /\ g.pc \in {"idle", "selectReady", "fail", "request", "syncWait",
                   "defer", "nested", "release", "failReady"}
  BY <1>1, <1>2, <1>4, HandleFrame, SMTT(30)
<1>6. Idle.pc = "idle" /\ Idle.call = "none"
  BY DEF Idle
<1>7. g.pc \in WithTask => g.task \in Tasks
  <2>1. CASE f.task \in Tasks
    BY <1>5, <1>6, <2>1 DEF SameTask, WithTask, WithHosts
  <2>2. CASE f.how = "oor" /\ e # "oor" /\ ~c
    BY <1>2, <1>4, <2>2, ZenonT(60) DEF Handle, IsFrame, WithTask, WithHosts
  <2>. QED BY <1>1, <2>1, <2>2
<1>8. TaskSound(g)
  <2>1. g.call = "finish" => g.own \in hosted
    BY <1>4, <1>5, <1>6, ZenonT(60) DEF SameCall, TaskSound
  <2>2. c /\ g.pc # "idle" => g.task \in hosted
    BY <1>1, <1>5, <1>6, ZenonT(60) DEF SameTask
  <2>. QED BY <1>5, <1>7, <2>1, <2>2, ZenonT(60) DEF TaskSound, WithHosts
<1>9. \A t \in Tasks : HoldsFor(g, t) => HoldsFor(frame[p], t)
  BY <1>1, <1>5, <1>6, ZenonT(60) DEF SameTask, HoldsFor, WithHosts
<1>10. Moves(p, g)
  BY <1>3, <1>5, <1>8, <1>9, QuietMove, ZenonT(60)
<1>11. Aside(p, g)
  BY <1>5, ZenonT(60) DEF Aside, DrainPcs
<1>. QED BY <1>10, <1>11, ZenonT(60)

\* A thread goes on in the dispatch of its task.
LEMMA GotoMove ==
    ASSUME ThreadsInv, Forward, NEW p \in Threads,
           NEW l \in {"submit", "authorize", "select", "provider", "syncRun",
                      "syncPublish", "finalize", "returnHosts", "release",
                      "deferReady", "put"},
           Goto(p, l),
           UNCHANGED <<debt, running, drainLock, drainReq>>,
           \/ frame[p].how # "none"
           \/ l = "returnHosts",
           frame[p].task \in Tasks,
           l \in WithHosts => /\ frame[p].task \in hosted
                             /\ HoldsFor(frame[p], frame[p].task),
           l \in {"syncRun", "syncPublish"} =>
               frame[p].how = "own" /\ frame[p].call = "sync",
           l = "release" => frame[p].pc = "failReady",
           l = "deferReady" => frame[p].pc = "release",
           l = "returnHosts" => frame[p].pc = "finalize",
           frame[p].pc \notin DrainPcs \cup {"releaseLock"}
    PROVE  \E g : Moves(p, g) /\ Aside(p, g)
<1>1. PICK f : f = frame[p]
  OBVIOUS
<1>2. PICK g : g = [f EXCEPT !.pc = l]
  OBVIOUS
<1>3. frame' = [frame EXCEPT ![p] = g]
  BY <1>1, <1>2, ZenonT(60) DEF Goto, Set
<1>4. IsFrame(f) /\ CallSound(f) /\ PassSound(f, InDrain(p)) /\ TaskSound(f)
  BY <1>1 DEF ThreadsInv, FramesSound, FrameSound
<1>5. /\ IsFrame(g) /\ g.pc = l /\ g.call = f.call /\ g.own = f.own
      /\ g.how = f.how /\ g.task = f.task /\ g.pick = f.pick
      /\ g.circuit = f.circuit /\ g.error = f.error
  <2>1. FieldsKept(f, g, l)
    BY <1>2, <1>4, GotoFields, ZenonT(60)
  <2>. QED BY <2>1, ZenonT(60) DEF FieldsKept
<1>6. CallSound(g)
  <2>1. FieldsKept(f, g, l)
    BY <1>5, ZenonT(60) DEF FieldsKept
  <2>. QED BY <1>1, <1>4, <2>1, GotoCall, ZenonT(60)
<1>7. PassSound(g, InDrain(p))
  BY <1>1, <1>4, <1>5, ZenonT(60) DEF PassSound, CallSound, PassOnly, OutsideOnly
<1>8. \A t \in Tasks : HoldsFor(g, t) => HoldsFor(frame[p], t)
  BY <1>1, <1>4, <1>5, ZenonT(60) DEF HoldsFor, CallSound, WithHosts
<1>9. TaskSound(g)
  <2>1. l = "release" => f.error = "error"
    BY <1>1, <1>4, ZenonT(60) DEF CallSound
  <2>. QED BY <1>1, <1>4, <1>5, <2>1, ZenonT(60) DEF TaskSound, WithHosts
<1>10. Moves(p, g)
  BY <1>3, <1>5, <1>6, <1>7, <1>8, <1>9, QuietMove, ZenonT(60)
<1>11. Aside(p, g)
  BY <1>5 DEF Aside, DrainPcs
<1>. QED BY <1>10, <1>11, ZenonT(60)

\* A client's call starts with a frame of its own.
LEMMA CallMove ==
    ASSUME ThreadsInv, Forward, NEW p \in Threads, Call(p)
    PROVE  \E g : Moves(p, g) /\ Aside(p, g)
<1>1. PICK f : f = frame[p]
  OBVIOUS
<1>2. /\ f.pc = "idle"
      /\ UNCHANGED <<debt, running, drainLock, drainReq>>
  BY <1>1 DEF Call, AsyncRun, SyncRun, ReadCq, Cancel, Submit, At, cvars,
       QueueUnchanged
<1>3. PassSound(f, InDrain(p))
  BY <1>1 DEF ThreadsInv, FramesSound, FrameSound
<1>4. ~InDrain(p)
  BY <1>2, <1>3, ZenonT(60) DEF PassSound, OutsideOnly
<1>5. PICK g :
        /\ frame' = [frame EXCEPT ![p] = g]
        /\ IsFrame(g) /\ g.how = "none" /\ g.circuit = FALSE
        /\ g.error = "none"
        /\ \/ g.pc = "create" /\ g.call \in {"async", "sync"} /\ g.own \in Tasks
           \/ g.pc = "request" /\ g.call = "read"
           \/ /\ g.pc = "cancel" /\ g.call = "cancel" /\ g.task \in Tasks
              /\ "cancel" \in Ops
  <2>1. ASSUME NEW t \in Tasks, NEW k \in {"async", "sync"}, Submit(p, t, k)
        PROVE  \E g :
                 /\ frame' = [frame EXCEPT ![p] = g]
                 /\ IsFrame(g) /\ g.how = "none" /\ g.circuit = FALSE
                 /\ g.error = "none"
                 /\ g.pc = "create" /\ g.call \in {"async", "sync"}
                 /\ g.own \in Tasks
    <3>1. PICK g : g = [Idle EXCEPT !.pc = "create", !.call = k, !.own = t]
      OBVIOUS
    <3>2. frame' = [frame EXCEPT ![p] = g]
      BY <2>1, <3>1, ZenonT(60) DEF Submit, Set
    <3>3. IsFrame(g) /\ g.how = "none" /\ g.circuit = FALSE /\ g.error = "none"
          /\ g.pc = "create" /\ g.call = k /\ g.own = t
      BY <3>1 DEF Idle, IsFrame
    <3>. QED BY <2>1, <3>2, <3>3, ZenonT(60)
  <2>2. CASE ReadCq(p)
    <3>1. PICK g : g = [Idle EXCEPT !.pc = "request", !.call = "read"]
      OBVIOUS
    <3>2. frame' = [frame EXCEPT ![p] = g]
      BY <2>2, <3>1, ZenonT(60) DEF ReadCq, Set
    <3>3. IsFrame(g) /\ g.how = "none" /\ g.circuit = FALSE /\ g.error = "none"
          /\ g.pc = "request" /\ g.call = "read"
      BY <3>1 DEF Idle, IsFrame
    <3>. QED BY <3>2, <3>3, ZenonT(60)
  <2>3. CASE Cancel(p)
    <3>1. known \subseteq Tasks
      BY DEF ThreadsInv, TypeOK
    <3>2. PICK t \in Tasks :
            Set(p, [Idle EXCEPT !.pc = "cancel", !.call = "cancel", !.task = t])
      BY <2>3, <3>1, ZenonT(60) DEF Cancel
    <3>3. PICK g : g = [Idle EXCEPT !.pc = "cancel", !.call = "cancel", !.task = t]
      OBVIOUS
    <3>4. frame' = [frame EXCEPT ![p] = g]
      BY <3>2, <3>3, ZenonT(60) DEF Set
    <3>5. IsFrame(g) /\ g.how = "none" /\ g.circuit = FALSE /\ g.error = "none"
          /\ g.pc = "cancel" /\ g.call = "cancel" /\ g.task = t
      BY <3>3 DEF Idle, IsFrame
    <3>6. "cancel" \in Ops
      BY <2>3, ZenonT(60) DEF Cancel
    <3>. QED BY <3>4, <3>5, <3>6, ZenonT(60)
  <2>. QED BY <2>1, <2>2, <2>3, ZenonT(60) DEF Call, AsyncRun, SyncRun
<1>6. CallSound(g) /\ PassSound(g, InDrain(p)) /\ TaskSound(g)
  BY <1>4, <1>5, ZenonT(60)
  DEF CallSound, PassSound, TaskSound, Pcs, PassOnly, OutsideOnly, WithTask,
      WithHosts
<1>7. \A t \in Tasks : HoldsFor(g, t) => HoldsFor(frame[p], t)
  BY <1>5 DEF HoldsFor
<1>8. Moves(p, g)
  BY <1>2, <1>5, <1>6, <1>7, QuietMove
<1>9. Aside(p, g)
  BY <1>1, <1>2, <1>5 DEF Aside, DrainPcs
<1>. QED BY <1>8, <1>9, ZenonT(60)

\* The steps of a dispatch up to the claim.
LEMMA PrepareMove ==
    ASSUME ThreadsInv, Forward, NEW p \in Threads,
           Prepare(p) \/ Authorize(p) \/ SubmitToScheduler(p)
    PROVE  \E g : Moves(p, g) /\ Aside(p, g)
<1>1. IsFrame(frame[p]) /\ CallSound(frame[p]) /\ TaskSound(frame[p])
  BY DEF ThreadsInv, FramesSound, FrameSound
<1>2. CASE Prepare(p)
  <2>1. /\ frame[p].pc = "prepare"
        /\ UNCHANGED <<debt, running, drainLock, drainReq>>
    BY <1>2 DEF Prepare, At, QueueUnchanged, cvars
  <2>2. frame[p].how # "none"
    BY <1>1, <2>1 DEF CallSound
  <2>3. frame[p].pc \notin DrainPcs \cup {"releaseLock"}
    BY <2>1, ZenonT(60) DEF DrainPcs
  <2>4. CASE Raise(p, "inactive", FALSE)
    <3>1. frame[p].task \in Tasks \/ frame[p].how = "oor"
      BY <1>1, <2>1, ZenonT(60) DEF TaskSound
    <3>. QED BY <2>1, <2>2, <2>3, <2>4, <3>1, RaiseMove, ZenonT(60)
  <2>5. ASSUME frame[p].task \in circuits, NEW l \in {"submit", "authorize"},
               Goto(p, l)
        PROVE  \E g : Moves(p, g) /\ Aside(p, g)
    <3>1. frame[p].task \in Tasks
      BY <2>5 DEF ThreadsInv, TypeOK
    <3>2. l \notin WithHosts
      BY DEF WithHosts
    <3>. QED BY <2>1, <2>2, <2>3, <2>5, <3>1, <3>2, GotoMove, ZenonT(60)
  <2>. QED BY <1>2, <2>4, <2>5 DEF Prepare
<1>3. CASE Authorize(p)
  <2>1. frame[p].pc = "authorize" /\ UNCHANGED <<running, drainLock, drainReq>>
    BY <1>3 DEF Authorize, At, QueueUnchanged
  <2>2. debt' = debt
    BY <1>3 DEF Authorize, AuthorizeCapacityHold, cvars
  <2>3. frame[p].how # "none"
    BY <1>1, <2>1, ZenonT(60) DEF CallSound, WithTask
  <2>4. frame[p].pc \notin DrainPcs \cup {"releaseLock"}
    BY <2>1 DEF DrainPcs
  <2>5. frame[p].task \in Tasks
    BY <1>1, <2>1, ZenonT(60) DEF TaskSound, WithTask
  <2>6. ASSUME NEW e \in {"oor", "inactive", "error"}, Raise(p, e, FALSE)
        PROVE  \E g : Moves(p, g) /\ Aside(p, g)
    BY <2>1, <2>2, <2>3, <2>4, <2>5, <2>6, RaiseMove, ZenonT(60)
  <2>7. CASE Goto(p, "submit")
    <3>1. "submit" \notin WithHosts
      BY DEF WithHosts
    <3>. QED BY <2>1, <2>2, <2>3, <2>4, <2>5, <2>7, <3>1, GotoMove, ZenonT(60)
  <2>. QED BY <1>3, <2>6, <2>7, ZenonT(60) DEF Authorize, Decisions
<1>4. CASE SubmitToScheduler(p)
  <2>1. frame[p].pc = "submit" /\ UNCHANGED <<running, drainLock, drainReq>>
    BY <1>4, ZenonT(60) DEF SubmitToScheduler, At, QueueUnchanged
  <2>2. debt' = debt
    BY <1>4, ZenonT(60) DEF SubmitToScheduler, SubmitQtaskToScheduler, SubmissionFails,
         FailScheduledTask, FinishTask, cvars
  <2>3. frame[p].how # "none"
    BY <1>1, <2>1, ZenonT(60) DEF CallSound, WithTask
  <2>4. frame[p].pc \notin DrainPcs \cup {"releaseLock"}
    BY <2>1, ZenonT(60) DEF DrainPcs
  <2>5. frame[p].task \in Tasks
    BY <1>1, <2>1, ZenonT(60) DEF TaskSound, WithTask
  <2>6. ASSUME NEW e \in {"oor", "inactive", "error"}, Raise(p, e, FALSE)
        PROVE  \E g : Moves(p, g) /\ Aside(p, g)
    BY <2>1, <2>2, <2>3, <2>4, <2>5, <2>6, RaiseMove, ZenonT(60)
  <2>7. CASE Goto(p, "select")
    <3>1. "select" \notin WithHosts
      BY DEF WithHosts
    <3>. QED BY <2>1, <2>2, <2>3, <2>4, <2>5, <2>7, <3>1, GotoMove, ZenonT(60)
  <2>. QED BY <1>4, <2>6, <2>7, ZenonT(60) DEF SubmitToScheduler
<1>. QED BY <1>2, <1>3, <1>4

\* The scheduler's answer is a task it has.
LEMMA SelectedTask ==
    ASSUME ThreadsInv, NEW p \in Threads, NEW c \in Selections(p),
           SelectQtask(p, c), c.kind \notin {"none", "unknown"}
    PROVE  c.task \in Tasks /\ sched'[c.task] # "absent"
<1>1. TypeOK /\ \A t \in selected : sched[t] # "absent"
  BY DEF ThreadsInv
<1>2. c.task \in Tasks
  BY <1>1, SelectionTyped, ZenonT(60)
<1>3. sched'[c.task] = IF c.kind = "new" THEN "selected" ELSE sched[c.task]
  BY <1>2, ZenonT(60) DEF SelectQtask
<1>4. c.kind = "new" \/ c.task \in selected
  BY <1>1, SelectionTask, ZenonT(60) DEF Live
<1>. QED BY <1>1, <1>2, <1>3, <1>4, ZenonT(60)

\* Selection of a task.
LEMMA SelectMove ==
    ASSUME ThreadsInv, Forward, NEW p \in Threads, Select(p)
    PROVE  \E g : Moves(p, g) /\ Aside(p, g)
<1>1. IsFrame(frame[p]) /\ CallSound(frame[p]) /\ PassSound(frame[p], InDrain(p))
        /\ TaskSound(frame[p])
  BY DEF ThreadsInv, FramesSound, FrameSound
<1>2. frame[p].pc = "select" /\ UNCHANGED <<running, drainLock, drainReq>>
  BY DEF Select, At, QueueUnchanged
<1>3. debt' = debt
  BY ZenonT(60) DEF Select, SelectQtask
<1>4. frame[p].how # "none" /\ frame[p].task \in Tasks
  BY <1>1, <1>2, ZenonT(60) DEF CallSound, TaskSound, WithTask
<1>5. frame[p].pc \notin DrainPcs \cup {"releaseLock"}
  BY <1>2, ZenonT(60) DEF DrainPcs
<1>6. ASSUME NEW e \in {"oor", "inactive", "error"}, Raise(p, e, FALSE)
      PROVE  \E g : Moves(p, g) /\ Aside(p, g)
  BY <1>2, <1>3, <1>4, <1>5, <1>6, RaiseMove, ZenonT(60)
<1>7. ASSUME NEW t \in Tasks, sched'[t] # "absent",
             Set(p, [frame[p] EXCEPT !.pc = "consume", !.pick = t])
      PROVE  \E g : Moves(p, g) /\ Aside(p, g)
  <2>1. PICK g : g = [frame[p] EXCEPT !.pc = "consume", !.pick = t]
    OBVIOUS
  <2>2. frame' = [frame EXCEPT ![p] = g]
    BY <1>7, <2>1, ZenonT(60) DEF Set
  <2>3. /\ IsFrame(g) /\ g.pc = "consume" /\ g.call = frame[p].call
        /\ g.own = frame[p].own /\ g.how = frame[p].how
        /\ g.task = frame[p].task /\ g.pick = t
        /\ g.circuit = frame[p].circuit /\ g.error = frame[p].error
    BY <1>1, <2>1, ZenonT(60) DEF IsFrame
  <2>4. CallSound(g) /\ PassSound(g, InDrain(p))
    BY <1>1, <1>4, <2>3, ZenonT(60) DEF CallSound, PassSound, Pcs, PassOnly, OutsideOnly, WithTask, WithHosts
  <2>5. TaskSound(g)'
    BY <1>1, <1>4, <1>7, <2>3, ZenonT(60) DEF TaskSound, Forward, WithTask, WithHosts
  <2>6. \A x \in Tasks : HoldsFor(g, x) => HoldsFor(frame[p], x)
    BY <2>3, ZenonT(60) DEF HoldsFor
  <2>7. Moves(p, g)
    BY <1>2, <1>3, <2>2, <2>3, <2>4, <2>5, <2>6, QuietStep, ZenonT(60)
  <2>8. Aside(p, g)
    BY <1>2, <1>5, <2>3, ZenonT(60) DEF Aside, DrainPcs
  <2>. QED BY <2>7, <2>8, ZenonT(60)
<1>. QED BY <1>6, <1>7, SelectedTask, ZenonT(60) DEF Select

\* Hosts are taken, or the claim is on its way back.
LEMMA ConsumeMove ==
    ASSUME ThreadsInv, Forward, NEW p \in Threads, Consume(p)
    PROVE  \E g : Moves(p, g) /\ Aside(p, g)
<1>1. IsFrame(frame[p]) /\ CallSound(frame[p]) /\ PassSound(frame[p], InDrain(p))
        /\ TaskSound(frame[p])
  BY DEF ThreadsInv, FramesSound, FrameSound
<1>2. frame[p].pc = "consume" /\ UNCHANGED <<running, drainLock, drainReq>>
  BY DEF Consume, At, QueueUnchanged
<1>3. /\ frame[p].how # "none" /\ frame[p].task \in Tasks
      /\ frame[p].pick \in Tasks /\ sched[frame[p].pick] # "absent"
  BY <1>1, <1>2, ZenonT(60) DEF CallSound, TaskSound, WithTask
<1>4. frame[p].pc \notin DrainPcs \cup {"releaseLock"}
  BY <1>2, ZenonT(60) DEF DrainPcs
<1>5. ASSUME NEW e \in {"oor", "inactive"}, UNCHANGED cvars,
             Set(p, [frame[p] EXCEPT !.pc = "unclaim", !.error = e])
      PROVE  \E g : Moves(p, g) /\ Aside(p, g)
  <2>1. PICK g : g = [frame[p] EXCEPT !.pc = "unclaim", !.error = e]
    OBVIOUS
  <2>2. frame' = [frame EXCEPT ![p] = g] /\ debt' = debt
    BY <1>5, <2>1, ZenonT(60) DEF Set, cvars
  <2>3. /\ IsFrame(g) /\ g.pc = "unclaim" /\ g.call = frame[p].call
        /\ g.own = frame[p].own /\ g.how = frame[p].how
        /\ g.task = frame[p].task /\ g.pick = frame[p].pick
        /\ g.circuit = frame[p].circuit /\ g.error = e
    BY <1>1, <2>1, ZenonT(60) DEF IsFrame
  <2>4. CallSound(g) /\ PassSound(g, InDrain(p))
    BY <1>1, <1>3, <2>3, ZenonT(60) DEF CallSound, PassSound, Pcs, PassOnly, OutsideOnly, WithTask, WithHosts
  <2>5. TaskSound(g)
    BY <1>1, <1>3, <2>3, ZenonT(60) DEF TaskSound, WithHosts
  <2>6. \A x \in Tasks : HoldsFor(g, x) => HoldsFor(frame[p], x)
    BY <2>3 DEF HoldsFor
  <2>7. Moves(p, g)
    BY <1>2, <2>2, <2>3, <2>4, <2>5, <2>6, QuietMove, ZenonT(60)
  <2>8. Aside(p, g)
    BY <1>2, <1>4, <2>3, ZenonT(60) DEF Aside, DrainPcs
  <2>. QED BY <2>7, <2>8, ZenonT(60)
<1>6. ASSUME frame[p].pick = frame[p].task, ConsumeForDispatch(frame[p].task),
             Goto(p, "attach")
      PROVE  \E g : Moves(p, g) /\ Aside(p, g)
  <2>1. PICK g : g = [frame[p] EXCEPT !.pc = "attach"]
    OBVIOUS
  <2>2. frame' = [frame EXCEPT ![p] = g]
    BY <1>6, <2>1, ZenonT(60) DEF Goto, Set
  <2>3. /\ IsFrame(g) /\ g.pc = "attach" /\ g.call = frame[p].call
        /\ g.own = frame[p].own /\ g.how = frame[p].how
        /\ g.task = frame[p].task /\ g.pick = frame[p].pick
        /\ g.circuit = frame[p].circuit /\ g.error = frame[p].error
    <3>1. FieldsKept(frame[p], g, "attach")
      BY <1>1, <2>1, GotoFields, ZenonT(60)
    <3>. QED BY <3>1, ZenonT(60) DEF FieldsKept
  <2>4. CallSound(g) /\ PassSound(g, InDrain(p))
    BY <1>1, <1>3, <2>3, ZenonT(60) DEF CallSound, PassSound, Pcs, PassOnly, OutsideOnly, WithTask, WithHosts
  <2>5. PICK t : t = frame[p].task
    OBVIOUS
  <2>6. /\ t \in hosted' /\ sched'[t] # "absent"
        /\ debt' = [debt EXCEPT ![t] = @ + 1]
    BY <1>3, <1>6, <2>5, ZenonT(60) DEF ConsumeForDispatch
  <2>7. TaskSound(g)'
    BY <1>1, <1>3, <2>3, <2>5, <2>6, ZenonT(60) DEF TaskSound, Forward, WithHosts, WithTask
  <2>8. Balanced(frame[p], g)
    <3>. SUFFICES ASSUME NEW x \in Tasks
                PROVE  debt[x] + RunBit(x)' + HoldBit(g, x)
                          <= debt'[x] + RunBit(x) + HoldBit(frame[p], x)
      BY DEF Balanced
    <3>1. debt[x] \in Int /\ debt'[x] = IF x = t THEN debt[x] + 1 ELSE debt[x]
      BY <2>6, ZenonT(60) DEF ThreadsInv, TypeOK
    <3>2. RunBit(x)' = RunBit(x) /\ RunBit(x) \in Int
      BY <1>2, SMTT(30) DEF RunBit
    <3>3. HoldBit(frame[p], x) = 0 /\ HoldBit(g, x) = IF x = t THEN 1 ELSE 0
      BY <1>2, <2>3, <2>5, ZenonT(60) DEF HoldBit, HoldsFor
    <3>. QED BY <3>1, <3>2, <3>3, SMTT(30)
  <2>9. PassSound(g, drainLock' = p)
    BY <1>2, <2>4, ZenonT(60) DEF PassSound, InDrain
  <2>10. Moves(p, g)
    BY <1>2, <2>2, <2>3, <2>4, <2>7, <2>8, <2>9, ZenonT(60) DEF Moves, ThreadsInv, Forward
  <2>11. Aside(p, g)
    BY <1>2, <1>4, <2>3, ZenonT(60) DEF Aside, DrainPcs
  <2>. QED BY <2>10, <2>11, ZenonT(60)
<1>. QED BY <1>5, <1>6, ZenonT(60) DEF Consume

\* The claim is given back, and the exception goes on.
LEMMA UnclaimMove ==
    ASSUME ThreadsInv, Forward, NEW p \in Threads, Unclaim(p)
    PROVE  \E g : Moves(p, g) /\ Aside(p, g)
<1>1. IsFrame(frame[p]) /\ CallSound(frame[p]) /\ TaskSound(frame[p])
  BY DEF ThreadsInv, FramesSound, FrameSound
<1>2. /\ frame[p].pc = "unclaim"
      /\ UNCHANGED <<debt, running, drainLock, drainReq>>
      /\ Raise(p, frame[p].error, FALSE)
  BY DEF Unclaim, At, QueueUnchanged, ReleaseDispatchClaim
<1>3. frame[p].how # "none" /\ frame[p].task \in Tasks
  BY <1>1, <1>2 DEF CallSound, TaskSound, WithTask
<1>4. frame[p].pc \notin DrainPcs \cup {"releaseLock"}
  BY <1>2 DEF DrainPcs
<1>5. PICK e \in {"oor", "inactive", "error"} : e = frame[p].error
  BY <1>1, <1>2 DEF CallSound
<1>. QED BY <1>2, <1>3, <1>4, <1>5, RaiseMove, ZenonT(60)

\* A frame that has returned from a dispatch holds nothing.
LEMMA ReturnedMove ==
    ASSUME ThreadsInv, Forward, NEW p \in Threads, NEW g,
           frame' = [frame EXCEPT ![p] = g],
           UNCHANGED <<debt, running, drainLock, drainReq>>,
           IsFrame(g), CallSound(g), PassSound(g, InDrain(p)),
           SameCall(g, frame[p]),
           g.pc \in {"idle", "releaseLock", "remove", "defer"},
           g.pc = "defer" => g.task \in Tasks,
           frame[p].pc \notin DrainPcs \cup {"releaseLock"}
    PROVE  \E h : Moves(p, h) /\ Aside(p, h)
<1>1. TaskSound(frame[p])
  BY DEF ThreadsInv, FramesSound, FrameSound
<1>2. Idle.call = "none"
  BY DEF Idle
<1>3. TaskSound(g)
  BY <1>1, <1>2, ZenonT(60) DEF TaskSound, SameCall, WithTask, WithHosts
<1>4. \A x \in Tasks : HoldsFor(g, x) => HoldsFor(frame[p], x)
  BY DEF HoldsFor
<1>5. Moves(p, g)
  BY <1>3, <1>4, QuietMove, ZenonT(60)
<1>6. Aside(p, g)
  BY DEF Aside, DrainPcs
<1>. QED BY <1>5, <1>6, ZenonT(60)

\* The end of the dispatch of a ready task.
LEMMA ReadyMove ==
    ASSUME ThreadsInv, Forward, NEW p \in Threads,
           \/ Set(p, ReadyRaised(p, frame[p]))
           \/ Set(p, ReadyReturned(p, frame[p])),
           UNCHANGED <<debt, running, drainLock, drainReq>>,
           frame[p].how = "ready",
           frame[p].pc \notin DrainPcs \cup {"releaseLock"}
    PROVE  \E g : Moves(p, g) /\ Aside(p, g)
<1>1. IsFrame(frame[p]) /\ CallSound(frame[p]) /\ PassSound(frame[p], InDrain(p))
  BY DEF ThreadsInv, FramesSound, FrameSound
<1>2. PICK g \in {ReadyRaised(p, frame[p]), ReadyReturned(p, frame[p])} :
        frame' = [frame EXCEPT ![p] = g]
  BY DEF Set
<1>3. PICK f : f = frame[p]
  OBVIOUS
<1>4. /\ IsFrame(g) /\ CallSound(g) /\ PassSound(g, InDrain(p))
      /\ SameCall(g, f)
      /\ g.pc \in {"releaseLock", "remove", "defer"}
      /\ g.pc = "defer" => g.task = f.own /\ f.own \in Tasks
  <2>1. ReturnsTo(p, f, g, {"releaseLock", "remove", "defer"})
    BY <1>1, <1>2, <1>3, ReadyReturns, ZenonT(60)
  <2>. QED BY <2>1, ZenonT(60) DEF ReturnsTo
<1>5. SameCall(g, frame[p])
  BY <1>3, <1>4
<1>. QED BY <1>2, <1>3, <1>4, <1>5, ReturnedMove, ZenonT(60)

\* The end of a submission.
LEMMA SubmittedMove ==
    ASSUME ThreadsInv, Forward, NEW p \in Threads, Submitted(p),
           UNCHANGED <<debt, running, drainLock, drainReq>>,
           frame[p].how # "none",
           frame[p].pc \notin DrainPcs \cup {"releaseLock"}
    PROVE  \E g : Moves(p, g) /\ Aside(p, g)
<1>1. IsFrame(frame[p]) /\ CallSound(frame[p]) /\ PassSound(frame[p], InDrain(p))
  BY DEF ThreadsInv, FramesSound, FrameSound
<1>2. PICK g : g = SubmittedFrame(p, frame[p])
  OBVIOUS
<1>3. frame' = [frame EXCEPT ![p] = g]
  BY <1>2 DEF Submitted, Set, SubmittedFrame
<1>4. PICK f : f = frame[p]
  OBVIOUS
<1>5. /\ IsFrame(g) /\ CallSound(g) /\ PassSound(g, InDrain(p))
      /\ SameCall(g, f)
      /\ g.pc \in {"idle", "releaseLock", "remove", "defer"}
      /\ g.pc = "defer" => g.task = f.own /\ f.own \in Tasks
  <2>1. ReturnsTo(p, f, g, {"idle", "releaseLock", "remove", "defer"})
    BY <1>1, <1>2, <1>4, SubmittedReturns, ZenonT(60)
  <2>. QED BY <2>1, ZenonT(60) DEF ReturnsTo
<1>. QED BY <1>3, <1>4, <1>5, ReturnedMove, ZenonT(60)

\* The credential is attached, or the failure is about to be recorded.
LEMMA AttachMove ==
    ASSUME ThreadsInv, Forward, NEW p \in Threads, Attach(p)
    PROVE  \E g : Moves(p, g) /\ Aside(p, g)
<1>1. IsFrame(frame[p]) /\ CallSound(frame[p]) /\ PassSound(frame[p], InDrain(p))
        /\ TaskSound(frame[p])
  BY DEF ThreadsInv, FramesSound, FrameSound
<1>2. /\ frame[p].pc = "attach"
      /\ UNCHANGED <<debt, running, drainLock, drainReq>>
  BY DEF Attach, At, QueueUnchanged, cvars
<1>3. /\ frame[p].how # "none" /\ frame[p].task \in Tasks
      /\ frame[p].task \in hosted /\ sched[frame[p].task] # "absent"
  BY <1>1, <1>2, ZenonT(60) DEF CallSound, TaskSound, WithTask, WithHosts
<1>4. PICK g :
        /\ frame' = [frame EXCEPT ![p] = g]
        /\ \/ g = [[frame[p] EXCEPT !.pick = None]
                     EXCEPT !.pc = "start", !.circuit = TRUE]
           \/ g = [[frame[p] EXCEPT !.pick = None]
                     EXCEPT !.pc = "fail", !.error = "error"]
  BY DEF Attach, Set
<1>5. /\ IsFrame(g) /\ g.call = frame[p].call
      /\ g.own = frame[p].own /\ g.how = frame[p].how
      /\ g.task = frame[p].task /\ g.circuit \in BOOLEAN
      /\ g.pc \in {"start", "fail"}
      /\ g.error \in {frame[p].error, "error"}
  BY <1>1, <1>4, ZenonT(60) DEF IsFrame, CallSound
<1>6. CallSound(g) /\ PassSound(g, InDrain(p))
  BY <1>1, <1>3, <1>5, ZenonT(60) DEF CallSound, PassSound, Pcs, PassOnly, OutsideOnly, WithTask, WithHosts
<1>7. TaskSound(g)
  BY <1>1, <1>3, <1>5, ZenonT(60) DEF TaskSound, WithHosts, WithTask
<1>8. \A x \in Tasks : HoldsFor(g, x) => HoldsFor(frame[p], x)
  BY <1>2, <1>5, ZenonT(60) DEF HoldsFor
<1>9. Moves(p, g)
  BY <1>2, <1>4, <1>5, <1>6, <1>7, <1>8, QuietMove, ZenonT(60)
<1>10. Aside(p, g)
  BY <1>2, <1>5, ZenonT(60) DEF Aside, DrainPcs
<1>. QED BY <1>9, <1>10

\* The start of a provider submission, and its outcomes.
LEMMA StartMove ==
    ASSUME ThreadsInv, Forward, NEW p \in Threads, Start(p)
    PROVE  \E g : Moves(p, g) /\ Aside(p, g)
<1>1. IsFrame(frame[p]) /\ CallSound(frame[p]) /\ TaskSound(frame[p])
  BY DEF ThreadsInv, FramesSound, FrameSound
<1>2. /\ frame[p].pc = "start"
      /\ UNCHANGED <<running, drainLock, drainReq>>
  BY DEF Start, At, QueueUnchanged
<1>3. debt' = debt
  BY DEF Start, StartProviderSubmission, cvars
<1>4. /\ frame[p].how # "none" /\ frame[p].task \in Tasks
      /\ frame[p].task \in hosted
  BY <1>1, <1>2, ZenonT(60) DEF CallSound, TaskSound, WithTask, WithHosts
<1>5. HoldsFor(frame[p], frame[p].task)
  BY <1>2 DEF HoldsFor
<1>6. frame[p].pc \notin DrainPcs \cup {"releaseLock"}
  BY <1>2 DEF DrainPcs
<1>7. ASSUME NEW e \in {"oor", "inactive", "error"}, Raise(p, e, TRUE)
      PROVE  \E g : Moves(p, g) /\ Aside(p, g)
  BY <1>2, <1>3, <1>4, <1>5, <1>6, <1>7, RaiseMove, ZenonT(60)
<1>8. CASE Submitted(p)
  BY <1>2, <1>3, <1>4, <1>6, <1>8, SubmittedMove, ZenonT(60)
<1>9. CASE Goto(p, IF frame[p].call = "sync" /\ frame[p].how = "own"
                   THEN "syncRun" ELSE "provider")
  <2>1. PICK l \in {"syncRun", "provider"} :
          l = IF frame[p].call = "sync" /\ frame[p].how = "own"
              THEN "syncRun" ELSE "provider"
    OBVIOUS
  <2>2. Goto(p, l)
    BY <1>9, <2>1, ZenonT(60)
  <2>. QED BY <1>2, <1>3, <1>4, <1>5, <1>6, <2>1, <2>2, GotoMove, ZenonT(60)
<1>. QED BY <1>7, <1>8, <1>9, ZenonT(60) DEF Start, StartOutcome

\* The provider has the run, and with it the hosts.
LEMMA ProviderMove ==
    ASSUME ThreadsInv, Forward, NEW p \in Threads, SubmitToProvider(p)
    PROVE  \E g : Moves(p, g) /\ Aside(p, g)
<1>1. IsFrame(frame[p]) /\ CallSound(frame[p]) /\ PassSound(frame[p], InDrain(p))
        /\ TaskSound(frame[p])
  BY DEF ThreadsInv, FramesSound, FrameSound
<1>2. frame[p].pc = "provider" /\ UNCHANGED <<debt, drainLock, drainReq>>
  BY DEF SubmitToProvider, At, cvars
<1>3. /\ frame[p].how # "none" /\ frame[p].task \in Tasks
      /\ frame[p].task \in hosted
  BY <1>1, <1>2, ZenonT(60) DEF CallSound, TaskSound, WithTask, WithHosts
<1>4. HoldsFor(frame[p], frame[p].task)
  BY <1>2, ZenonT(60) DEF HoldsFor
<1>5. frame[p].pc \notin DrainPcs \cup {"releaseLock"}
  BY <1>2, ZenonT(60) DEF DrainPcs
<1>6. ASSUME NEW e \in {"oor", "error"}, Raise(p, e, TRUE), UNCHANGED running
      PROVE  \E g : Moves(p, g) /\ Aside(p, g)
  BY <1>2, <1>3, <1>4, <1>5, <1>6, RaiseMove, ZenonT(60)
<1>7. ASSUME running' = running \cup {frame[p].task}, Goto(p, "bind")
      PROVE  \E g : Moves(p, g) /\ Aside(p, g)
  <2>1. PICK g : g = [frame[p] EXCEPT !.pc = "bind"]
    OBVIOUS
  <2>2. frame' = [frame EXCEPT ![p] = g]
    BY <1>7, <2>1, ZenonT(60) DEF Goto, Set
  <2>3. /\ IsFrame(g) /\ g.pc = "bind" /\ g.call = frame[p].call
        /\ g.own = frame[p].own /\ g.how = frame[p].how
        /\ g.task = frame[p].task /\ g.pick = frame[p].pick
        /\ g.circuit = frame[p].circuit /\ g.error = frame[p].error
    <3>1. FieldsKept(frame[p], g, "bind")
      BY <1>1, <2>1, GotoFields, ZenonT(60)
    <3>. QED BY <3>1, ZenonT(60) DEF FieldsKept
  <2>4. CallSound(g) /\ PassSound(g, InDrain(p))
    BY <1>1, <1>3, <2>3
    DEF CallSound, PassSound, Pcs, PassOnly, OutsideOnly, WithTask, WithHosts
  <2>5. TaskSound(g)
    BY <1>1, <1>3, <2>3, ZenonT(60) DEF TaskSound, WithHosts, WithTask
  <2>6. TaskSound(g)'
    BY <2>5, TaskForward, ZenonT(60)
  <2>7. Balanced(frame[p], g)
    <3>. SUFFICES ASSUME NEW x \in Tasks
                PROVE  debt[x] + RunBit(x)' + HoldBit(g, x)
                          <= debt'[x] + RunBit(x) + HoldBit(frame[p], x)
      BY DEF Balanced
    <3>1. debt[x] \in Int /\ debt'[x] = debt[x]
      BY <1>2, ZenonT(60) DEF ThreadsInv, TypeOK
    <3>2. HoldBit(g, x) = 0
      BY <2>3, ZenonT(60) DEF HoldBit, HoldsFor
    <3>3. CASE x = frame[p].task
      <4>1. HoldBit(frame[p], x) = 1
        BY <1>4, <3>3, ZenonT(60) DEF HoldBit
      <4>2. RunBit(x)' = 1 /\ RunBit(x) \in {0, 1}
        BY <1>7, <3>3, ZenonT(60) DEF RunBit
      <4>. QED BY <3>1, <3>2, <4>1, <4>2, Sums, ZenonT(60)
    <3>4. CASE x # frame[p].task
      <4>1. HoldBit(frame[p], x) = 0
        BY <3>4, ZenonT(60) DEF HoldBit, HoldsFor
      <4>2. RunBit(x)' = RunBit(x) /\ RunBit(x) \in {0, 1}
        BY <1>7, <3>4, ZenonT(60) DEF RunBit
      <4>. QED BY <3>1, <3>2, <4>1, <4>2, Sums, ZenonT(60)
    <3>. QED BY <3>3, <3>4, ZenonT(60)
  <2>8. PassSound(g, drainLock' = p)
    BY <1>2, <2>4, ZenonT(60) DEF PassSound, InDrain
  <2>9. running' \subseteq hosted'
    BY <1>3, <1>7, ZenonT(60) DEF ThreadsInv, Forward
  <2>10. Moves(p, g)
    BY <1>2, <2>2, <2>3, <2>4, <2>6, <2>7, <2>8, <2>9, ZenonT(60) DEF Moves, ThreadsInv
  <2>11. Aside(p, g)
    BY <1>2, <1>5, <2>3, ZenonT(60) DEF Aside, DrainPcs
  <2>. QED BY <2>10, <2>11, ZenonT(60)
<1>. QED BY <1>6, <1>7, ZenonT(60) DEF SubmitToProvider

\* The provider's thread takes a run over, and its hosts.
LEMMA FinishMove ==
    ASSUME ThreadsInv, Forward, NEW p \in Threads, Finish(p)
    PROVE  \E g : Moves(p, g) /\ Aside(p, g)
<1>1. IsFrame(frame[p]) /\ CallSound(frame[p]) /\ PassSound(frame[p], InDrain(p))
        /\ TaskSound(frame[p])
  BY DEF ThreadsInv, FramesSound, FrameSound
<1>2. PICK t \in running :
        /\ frame[p].pc = "idle"
        /\ running' = running \ {t}
        /\ Set(p, [Idle EXCEPT !.pc = "finalize", !.call = "finish",
                              !.own = t, !.task = t])
        /\ UNCHANGED <<debt, hosted, drainLock, drainReq>>
  BY DEF Finish, At, SetFail, cvars
<1>3. t \in Tasks /\ t \in hosted
  BY DEF ThreadsInv, TypeOK
<1>4. ~InDrain(p)
  BY <1>1, <1>2, ZenonT(60) DEF PassSound, OutsideOnly
<1>5. PICK g : g = [Idle EXCEPT !.pc = "finalize", !.call = "finish",
                              !.own = t, !.task = t]
  OBVIOUS
<1>6. frame' = [frame EXCEPT ![p] = g]
  BY <1>2, <1>5, ZenonT(60) DEF Set
<1>7. /\ IsFrame(g) /\ g.pc = "finalize" /\ g.call = "finish" /\ g.own = t
      /\ g.how = "none" /\ g.task = t /\ g.circuit = FALSE
      /\ g.error = "none"
  BY <1>5, ZenonT(60) DEF Idle, IsFrame
<1>8. CallSound(g) /\ PassSound(g, InDrain(p))
  BY <1>3, <1>4, <1>7, ZenonT(60) DEF CallSound, PassSound, Pcs, PassOnly, OutsideOnly, WithTask, WithHosts
<1>9. TaskSound(g)
  BY <1>3, <1>7, ZenonT(60) DEF TaskSound, WithHosts
<1>10. TaskSound(g)'
  BY <1>9, TaskForward, ZenonT(60)
<1>11. Balanced(frame[p], g)
  <2>. SUFFICES ASSUME NEW x \in Tasks
              PROVE  debt[x] + RunBit(x)' + HoldBit(g, x)
                        <= debt'[x] + RunBit(x) + HoldBit(frame[p], x)
    BY DEF Balanced
  <2>1. debt[x] \in Int /\ debt'[x] = debt[x]
    BY <1>2, ZenonT(60) DEF ThreadsInv, TypeOK
  <2>2. HoldBit(frame[p], x) = 0
    BY <1>2, ZenonT(60) DEF HoldBit, HoldsFor
  <2>3. HoldBit(g, x) = IF x = t THEN 1 ELSE 0
    BY <1>7, ZenonT(60) DEF HoldBit, HoldsFor
  <2>4. RunBit(x)' = IF x = t THEN 0 ELSE RunBit(x)
    BY <1>2, ZenonT(60) DEF RunBit
  <2>5. RunBit(x) \in {0, 1} /\ (x = t => RunBit(x) = 1)
    BY DEF RunBit
  <2>6. CASE x = t
    BY <2>1, <2>2, <2>3, <2>4, <2>5, <2>6, Sums, ZenonT(60)
  <2>7. CASE x # t
    BY <2>1, <2>2, <2>3, <2>4, <2>5, <2>7, Sums, ZenonT(60)
  <2>. QED BY <2>6, <2>7, ZenonT(60)
<1>12. PassSound(g, drainLock' = p)
  BY <1>2, <1>8, ZenonT(60) DEF PassSound, InDrain
<1>13. Moves(p, g)
  BY <1>2, <1>6, <1>7, <1>8, <1>10, <1>11, <1>12, ZenonT(60) DEF Moves, ThreadsInv
<1>14. Aside(p, g)
  BY <1>2, <1>7, ZenonT(60) DEF Aside, DrainPcs
<1>. QED BY <1>13, <1>14, ZenonT(60)

\* The thread gives back what it held.
LEMMA ReturnMove ==
    ASSUME ThreadsInv, Forward, NEW p \in Threads, ReturnHostsStep(p)
    PROVE  \E g : Moves(p, g) /\ Aside(p, g)
<1>1. IsFrame(frame[p]) /\ CallSound(frame[p]) /\ PassSound(frame[p], InDrain(p))
        /\ TaskSound(frame[p])
  BY DEF ThreadsInv, FramesSound, FrameSound
<1>2. /\ frame[p].pc = "returnHosts"
      /\ UNCHANGED <<hosted, running, drainLock, drainReq>>
  BY DEF ReturnHostsStep, ReturnHosts, At, QueueUnchanged
<1>3. PICK f, g : f = frame[p] /\ g = AfterReturn(p, f)
  OBVIOUS
<1>4. frame' = [frame EXCEPT ![p] = g]
  BY <1>3 DEF ReturnHostsStep, Set
<1>5. /\ IsFrame(g) /\ CallSound(g) /\ PassSound(g, InDrain(p))
      /\ SameCall(g, f)
      /\ g.pc \in {"idle", "releaseLock", "remove", "defer", "request",
                   "nested", "failReady"}
      /\ g.pc = "defer" => g.task = f.own /\ f.own \in Tasks
      /\ g.pc = "failReady" => g.task = f.task
  <2>1. ReturnsTo(p, f, g, {"idle", "releaseLock", "remove", "defer", "request",
                           "nested", "failReady"})
    BY <1>1, <1>2, <1>3, AfterReturns, ZenonT(60)
  <2>2. g.pc = "failReady" => g.task = f.task
    BY <1>1, <1>2, <1>3, AfterFails, ZenonT(60)
  <2>. QED BY <2>1, <2>2, ZenonT(60) DEF ReturnsTo
<1>6. f.task \in Tasks
  BY <1>1, <1>2, <1>3 DEF TaskSound, WithTask, WithHosts
<1>7. Idle.call = "none"
  BY DEF Idle
<1>8. TaskSound(g)
  BY <1>1, <1>3, <1>5, <1>6, <1>7, ZenonT(60) DEF TaskSound, SameCall, WithTask, WithHosts
<1>9. TaskSound(g)'
  BY <1>8, TaskForward, ZenonT(60)
<1>10. Balanced(frame[p], g)
  <2>. SUFFICES ASSUME NEW x \in Tasks
              PROVE  debt[x] + RunBit(x)' + HoldBit(g, x)
                        <= debt'[x] + RunBit(x) + HoldBit(frame[p], x)
    BY DEF Balanced
  <2>1. debt' = [debt EXCEPT ![f.task] = @ - 1]
    BY <1>3, ZenonT(60) DEF ReturnHostsStep, ReturnHosts
  <2>2. debt[x] \in Int /\ debt'[x] = IF x = f.task THEN debt[x] - 1 ELSE debt[x]
    BY <2>1, ZenonT(60) DEF ThreadsInv, TypeOK
  <2>3. HoldBit(g, x) = 0
    BY <1>5, ZenonT(60) DEF HoldBit, HoldsFor
  <2>4. HoldBit(frame[p], x) = IF x = f.task THEN 1 ELSE 0
    BY <1>2, <1>3, ZenonT(60) DEF HoldBit, HoldsFor
  <2>5. RunBit(x)' = RunBit(x) /\ RunBit(x) \in {0, 1}
    BY <1>2, ZenonT(60) DEF RunBit
  <2>6. CASE x = f.task
    BY <2>2, <2>3, <2>4, <2>5, <2>6, Sums, ZenonT(60)
  <2>7. CASE x # f.task
    BY <2>2, <2>3, <2>4, <2>5, <2>7, Sums, ZenonT(60)
  <2>. QED BY <2>6, <2>7, ZenonT(60)
<1>11. PassSound(g, drainLock' = p)
  BY <1>2, <1>5, ZenonT(60) DEF PassSound, InDrain
<1>12. Moves(p, g)
  BY <1>2, <1>4, <1>5, <1>9, <1>10, <1>11, ZenonT(60) DEF Moves, ThreadsInv
<1>13. Aside(p, g)
  BY <1>2, <1>5, ZenonT(60) DEF Aside, DrainPcs
<1>. QED BY <1>12, <1>13, ZenonT(60)

\* The except clauses and free_resources.
LEMMA EndingMove ==
    ASSUME ThreadsInv, Forward, NEW p \in Threads,
           Bind(p) \/ Fail(p) \/ Finalize(p) \/ FailReady(p) \/ ReleaseReady(p)
             \/ DeferReady(p) \/ Defer(p)
    PROVE  \E g : Moves(p, g) /\ Aside(p, g)
<1>1. IsFrame(frame[p]) /\ CallSound(frame[p]) /\ TaskSound(frame[p])
  BY DEF ThreadsInv, FramesSound, FrameSound
<1>2. /\ frame[p].pc \in {"bind", "fail", "finalize", "failReady", "release",
                          "deferReady", "defer"}
      /\ UNCHANGED <<running, drainLock, drainReq>>
  BY DEF Bind, Fail, Finalize, FailReady, ReleaseReady, DeferReady, Defer, At,
       QueueUnchanged
<1>3. debt' = debt
  BY DEF Bind, Fail, Finalize, FailReady, ReleaseReady, DeferReady, Defer,
       BindProviderHandle, FailScheduledTask, CompleteScheduledTask,
       FinishTask, ReleaseDispatchClaim, DeferLocalRetry, cvars
<1>4. frame[p].task \in Tasks
  BY <1>1, <1>2, ZenonT(60) DEF TaskSound, WithTask, WithHosts
<1>5. frame[p].pc \notin DrainPcs \cup {"releaseLock"}
  BY <1>2 DEF DrainPcs
<1>6. frame[p].pc # "finalize" => frame[p].how # "none"
  BY <1>1, <1>2, ZenonT(60) DEF CallSound, WithTask, WithHosts
<1>7. CASE Bind(p)
  <2>1. Submitted(p) /\ frame[p].pc = "bind"
    BY <1>7, ZenonT(60) DEF Bind, At
  <2>. QED BY <1>2, <1>3, <1>5, <1>6, <2>1, SubmittedMove, ZenonT(60)
<1>8. CASE Fail(p)
  <2>1. Goto(p, "finalize") /\ frame[p].pc = "fail"
    BY <1>8 DEF Fail, At
  <2>2. frame[p].task \in hosted /\ HoldsFor(frame[p], frame[p].task)
    BY <1>1, <2>1, ZenonT(60) DEF TaskSound, HoldsFor, WithHosts
  <2>. QED BY <1>2, <1>3, <1>4, <1>5, <1>6, <2>1, <2>2, GotoMove, ZenonT(60)
<1>9. CASE Finalize(p)
  <2>1. Goto(p, "returnHosts") /\ frame[p].pc = "finalize"
    BY <1>9 DEF Finalize, At
  <2>2. frame[p].task \in hosted /\ HoldsFor(frame[p], frame[p].task)
    BY <1>1, <2>1, ZenonT(60) DEF TaskSound, HoldsFor, WithHosts
  <2>. QED BY <1>2, <1>3, <1>4, <1>5, <2>1, <2>2, GotoMove, ZenonT(60)
<1>10. CASE FailReady(p)
  <2>1. Goto(p, "release") /\ frame[p].pc = "failReady"
    BY <1>10, ZenonT(60) DEF FailReady, At
  <2>2. "release" \notin WithHosts
    BY DEF WithHosts
  <2>. QED BY <1>2, <1>3, <1>4, <1>5, <1>6, <2>1, <2>2, GotoMove, ZenonT(60)
<1>11. CASE Defer(p)
  <2>1. Goto(p, "put") /\ frame[p].pc = "defer"
    BY <1>11, ZenonT(60) DEF Defer, At
  <2>2. "put" \notin WithHosts
    BY DEF WithHosts
  <2>. QED BY <1>2, <1>3, <1>4, <1>5, <1>6, <2>1, <2>2, GotoMove, ZenonT(60)
<1>12. CASE DeferReady(p)
  <2>1. Set(p, ReadyRaised(p, frame[p])) /\ frame[p].pc = "deferReady"
    BY <1>12, ZenonT(60) DEF DeferReady, At
  <2>2. frame[p].how = "ready"
    BY <1>1, <2>1, ZenonT(60) DEF CallSound
  <2>. QED BY <1>2, <1>3, <1>5, <2>1, <2>2, ReadyMove, ZenonT(60)
<1>13. CASE ReleaseReady(p)
  <2>1. frame[p].pc = "release"
    BY <1>13, ZenonT(60) DEF ReleaseReady, At
  <2>2. frame[p].how = "ready"
    BY <1>1, <2>1, ZenonT(60) DEF CallSound
  <2>3. CASE Goto(p, "deferReady")
    <3>1. "deferReady" \notin WithHosts
      BY DEF WithHosts
    <3>. QED BY <1>2, <1>3, <1>4, <1>5, <1>6, <2>1, <2>3, <3>1, GotoMove, ZenonT(60)
  <2>4. CASE frame[p].error = "inactive" /\ frame[p].circuit /\ Goto(p, "finalize")
    <3>1. frame[p].task \in hosted /\ HoldsFor(frame[p], frame[p].task)
      BY <1>1, <2>1, <2>4, ZenonT(60) DEF TaskSound, HoldsFor
    <3>. QED BY <1>2, <1>3, <1>4, <1>5, <1>6, <2>1, <2>4, <3>1, GotoMove, ZenonT(60)
  <2>5. CASE \/ Set(p, ReadyRaised(p, frame[p]))
             \/ Set(p, ReadyReturned(p, frame[p]))
    BY <1>2, <1>3, <1>5, <2>2, <2>5, ReadyMove, ZenonT(60)
  <2>6. frame[p].circuit \in BOOLEAN
    BY <1>1, ZenonT(60) DEF CallSound
  <2>7. \/ Goto(p, "deferReady")
        \/ frame[p].error = "inactive" /\ frame[p].circuit /\ Goto(p, "finalize")
        \/ Set(p, ReadyRaised(p, frame[p]))
        \/ Set(p, ReadyReturned(p, frame[p]))
    <3>1. CASE frame[p].error = "oor" /\ frame[p].circuit
      BY <1>13, <3>1, ZenonT(60) DEF ReleaseReady, Goto, Set
    <3>2. CASE frame[p].error = "inactive" /\ frame[p].circuit
      BY <1>13, <3>2, ZenonT(60) DEF ReleaseReady, Goto, Set
    <3>3. CASE frame[p].error = "inactive" /\ ~frame[p].circuit
      BY <1>13, <3>3, ZenonT(60) DEF ReleaseReady, Set
    <3>4. CASE /\ ~(frame[p].error = "oor" /\ frame[p].circuit)
               /\ frame[p].error # "inactive"
      BY <1>13, <3>4, ZenonT(60) DEF ReleaseReady, Set
    <3>. QED BY <2>6, <3>1, <3>2, <3>3, <3>4, ZenonT(60)
  <2>. QED BY <2>3, <2>4, <2>5, <2>7, ZenonT(60)
<1>. QED BY <1>7, <1>8, <1>9, <1>10, <1>11, <1>12, <1>13, ZenonT(60)

\* dispatch_ready_qtask takes what the scheduler gives.
LEMMA SelectReadyMove ==
    ASSUME ThreadsInv, Forward, NEW p \in Threads, SelectReady(p)
    PROVE  \E g : Moves(p, g) /\ Aside(p, g)
<1>1. IsFrame(frame[p]) /\ CallSound(frame[p]) /\ PassSound(frame[p], InDrain(p))
        /\ TaskSound(frame[p])
  BY DEF ThreadsInv, FramesSound, FrameSound
<1>2. frame[p].pc = "selectReady" /\ UNCHANGED <<running, drainLock, drainReq>>
  BY DEF SelectReady, At, QueueUnchanged
<1>3. debt' = debt
  BY DEF SelectReady, SelectQtask
<1>4. frame[p].how = "ready"
  BY <1>1, <1>2, ZenonT(60) DEF CallSound
<1>5. frame[p].pc \notin DrainPcs \cup {"releaseLock"}
  BY <1>2, ZenonT(60) DEF DrainPcs
<1>6. CASE Set(p, ReadyRaised(p, frame[p]))
  BY <1>2, <1>3, <1>4, <1>5, <1>6, ReadyMove, ZenonT(60)
<1>7. ASSUME NEW t \in Tasks,
             Set(p, [frame[p] EXCEPT !.pc = "prepare", !.task = t])
      PROVE  \E g : Moves(p, g) /\ Aside(p, g)
  <2>1. PICK g : g = [frame[p] EXCEPT !.pc = "prepare", !.task = t]
    OBVIOUS
  <2>2. frame' = [frame EXCEPT ![p] = g]
    BY <1>7, <2>1, ZenonT(60) DEF Set
  <2>3. /\ IsFrame(g) /\ g.pc = "prepare" /\ g.call = frame[p].call
        /\ g.own = frame[p].own /\ g.how = frame[p].how /\ g.task = t
        /\ g.circuit = frame[p].circuit /\ g.error = frame[p].error
    BY <1>1, <2>1, ZenonT(60) DEF IsFrame
  <2>4. CallSound(g) /\ PassSound(g, InDrain(p))
    BY <1>1, <1>4, <2>3, ZenonT(60) DEF CallSound, PassSound, Pcs, PassOnly, OutsideOnly, WithTask, WithHosts
  <2>5. TaskSound(g)
    BY <1>1, <1>4, <2>3, ZenonT(60) DEF TaskSound, WithHosts
  <2>6. \A x \in Tasks : HoldsFor(g, x) => HoldsFor(frame[p], x)
    BY <2>3, ZenonT(60) DEF HoldsFor
  <2>7. Moves(p, g)
    BY <1>2, <1>3, <2>2, <2>3, <2>4, <2>5, <2>6, QuietMove, ZenonT(60)
  <2>8. Aside(p, g)
    BY <1>2, <1>5, <2>3, ZenonT(60) DEF Aside, DrainPcs
  <2>. QED BY <2>7, <2>8, ZenonT(60)
<1>. QED BY <1>6, <1>7, SelectedTask, ZenonT(60) DEF SelectReady

\* A frame that only says where the thread goes on.
LEMMA PlainMove ==
    ASSUME ThreadsInv, Forward, NEW p \in Threads, NEW g,
           frame' = [frame EXCEPT ![p] = g],
           UNCHANGED <<debt, running, drainLock, drainReq>>,
           IsFrame(g), CallSound(g), PassSound(g, InDrain(p)),
           g.call = "finish" => frame[p].call = "finish" /\ g.own = frame[p].own,
           g.pc \in {"idle", "scan", "prepare", "selectReady", "releaseLock",
                    "request", "cancel"},
           g.pc = "cancel" \/ (g.pc = "prepare" /\ g.how # "oor") =>
               g.task \in Tasks,
           frame[p].pc \notin DrainPcs \cup {"releaseLock"}
    PROVE  \E h : Moves(p, h) /\ Aside(p, h)
<1>1. TaskSound(frame[p])
  BY ZenonT(60) DEF ThreadsInv, FramesSound, FrameSound
<1>2. TaskSound(g)
  BY <1>1, ZenonT(60) DEF TaskSound, WithTask, WithHosts
<1>3. \A x \in Tasks : HoldsFor(g, x) => HoldsFor(frame[p], x)
  BY DEF HoldsFor
<1>4. Moves(p, g)
  BY <1>2, <1>3, QuietMove, ZenonT(60)
<1>5. Aside(p, g)
  BY DEF Aside, DrainPcs
<1>. QED BY <1>4, <1>5, ZenonT(60)

\* A call that is over.
LEMMA IdleMove ==
    ASSUME ThreadsInv, Forward, NEW p \in Threads, Return(p),
           UNCHANGED <<debt, running, drainLock, drainReq>>, ~InDrain(p),
           frame[p].pc \notin DrainPcs \cup {"releaseLock"}
    PROVE  \E g : Moves(p, g) /\ Aside(p, g)
<1>1. PICK g : g = Idle
  OBVIOUS
<1>2. frame' = [frame EXCEPT ![p] = g]
  BY <1>1, ZenonT(60) DEF Return, Set
<1>3. IsFrame(g) /\ CallSound(g) /\ PassSound(g, InDrain(p)) /\ g.pc = "idle"
  BY <1>1, IdleSound, ZenonT(60)
<1>4. g.call = "none"
  BY <1>1, ZenonT(60) DEF Idle
<1>. QED BY <1>2, <1>3, <1>4, PlainMove, ZenonT(60)

\* The calls of clients, where they do not dispatch.
LEMMA ClientMove ==
    ASSUME ThreadsInv, Forward, NEW p \in Threads,
           CreateCircuit(p) \/ CancelLocked(p) \/ Publish(p) \/ SyncRetry(p)
             \/ SyncTimeout(p)
    PROVE  \E g : Moves(p, g) /\ Aside(p, g)
<1>1. IsFrame(frame[p]) /\ CallSound(frame[p]) /\ PassSound(frame[p], InDrain(p))
        /\ TaskSound(frame[p])
  BY DEF ThreadsInv, FramesSound, FrameSound
<1>2. /\ frame[p].pc \in {"create", "cancel", "publish", "syncWait"}
      /\ UNCHANGED <<running, drainLock, drainReq>>
  BY DEF CreateCircuit, CancelLocked, Publish, SyncRetry, SyncTimeout, At,
       QueueUnchanged
<1>3. debt' = debt
  BY DEF CreateCircuit, CancelLocked, Publish, SyncRetry, SyncTimeout,
       RegisterCircuit, CancelTask, PublishCompletion, FinishTask, cvars
<1>4. ~InDrain(p)
  BY <1>1, <1>2, ZenonT(60) DEF PassSound, OutsideOnly
<1>5. frame[p].pc \notin DrainPcs \cup {"releaseLock"}
  BY <1>2 DEF DrainPcs
<1>6. CASE Return(p)
  BY <1>2, <1>3, <1>4, <1>5, <1>6, IdleMove, ZenonT(60)
<1>7. CASE CreateCircuit(p)
  <2>1. PICK g : g = [frame[p] EXCEPT !.pc = "prepare", !.how = "own",
                                    !.task = frame[p].own]
    OBVIOUS
  <2>2. frame' = [frame EXCEPT ![p] = g] /\ frame[p].pc = "create"
    BY <1>7, <2>1, ZenonT(60) DEF CreateCircuit, Set, At
  <2>3. /\ IsFrame(g) /\ g.pc = "prepare" /\ g.call = frame[p].call
        /\ g.own = frame[p].own /\ g.how = "own" /\ g.task = g.own
        /\ g.circuit = frame[p].circuit /\ g.error = frame[p].error
    BY <1>1, <2>1, ZenonT(60) DEF IsFrame
  <2>4. CallSound(g) /\ PassSound(g, InDrain(p)) /\ g.task \in Tasks
    BY <1>1, <1>4, <2>2, <2>3, ZenonT(60) DEF CallSound, PassSound, Pcs, PassOnly, OutsideOnly, WithTask, WithHosts
  <2>. QED BY <1>2, <1>3, <1>5, <2>2, <2>3, <2>4, PlainMove, ZenonT(60)
<1>8. CASE CancelLocked(p) /\ Goto(p, "request")
  <2>1. PICK g : g = [frame[p] EXCEPT !.pc = "request"]
    OBVIOUS
  <2>2. frame' = [frame EXCEPT ![p] = g]
    BY <1>8, <2>1, ZenonT(60) DEF Goto, Set
  <2>3. /\ IsFrame(g) /\ g.pc = "request" /\ g.call = frame[p].call
        /\ g.own = frame[p].own /\ g.how = frame[p].how
        /\ g.task = frame[p].task /\ g.pick = frame[p].pick
        /\ g.circuit = frame[p].circuit /\ g.error = frame[p].error
    <3>1. FieldsKept(frame[p], g, "request")
      BY <1>1, <2>1, GotoFields, ZenonT(60)
    <3>. QED BY <3>1, ZenonT(60) DEF FieldsKept
  <2>4. CallSound(g) /\ PassSound(g, InDrain(p))
    BY <1>1, <1>4, <2>3, ZenonT(60) DEF CallSound, PassSound, Pcs, PassOnly, OutsideOnly, WithTask, WithHosts
  <2>. QED BY <1>2, <1>3, <1>5, <2>2, <2>3, <2>4, PlainMove, ZenonT(60)
<1>9. CASE SyncRetry(p)
  <2>1. PICK g : g = [frame[p] EXCEPT !.pc = "prepare", !.error = "none",
                                    !.circuit = FALSE]
    OBVIOUS
  <2>2. frame' = [frame EXCEPT ![p] = g] /\ frame[p].pc = "syncWait"
    BY <1>9, <2>1, ZenonT(60) DEF SyncRetry, Set, At
  <2>3. /\ IsFrame(g) /\ g.pc = "prepare" /\ g.call = frame[p].call
        /\ g.own = frame[p].own /\ g.how = frame[p].how
        /\ g.task = frame[p].task /\ g.circuit = FALSE /\ g.error = "none"
    BY <1>1, <2>1, ZenonT(60) DEF IsFrame
  <2>4. CallSound(g) /\ PassSound(g, InDrain(p)) /\ g.task \in Tasks
    BY <1>1, <1>4, <2>2, <2>3, ZenonT(60) DEF CallSound, PassSound, TaskSound, Pcs, PassOnly, OutsideOnly, WithTask,
        WithHosts
  <2>. QED BY <1>2, <1>3, <1>5, <2>2, <2>3, <2>4, PlainMove, ZenonT(60)
<1>10. ASSUME NEW t \in known, "timeout" \in Ops,
              Set(p, [Idle EXCEPT !.pc = "cancel", !.call = "cancel", !.task = t])
       PROVE  \E g : Moves(p, g) /\ Aside(p, g)
  <2>1. PICK g : g = [Idle EXCEPT !.pc = "cancel", !.call = "cancel", !.task = t]
    OBVIOUS
  <2>2. frame' = [frame EXCEPT ![p] = g]
    BY <1>10, <2>1, ZenonT(60) DEF Set
  <2>3. /\ IsFrame(g) /\ g.pc = "cancel" /\ g.call = "cancel" /\ g.task = t
        /\ g.how = "none" /\ g.circuit = FALSE /\ g.error = "none"
    BY <2>1, ZenonT(60) DEF Idle, IsFrame
  <2>4. CallSound(g) /\ PassSound(g, InDrain(p))
    BY <1>4, <1>10, <2>3, ZenonT(60) DEF CallSound, PassSound, Pcs, PassOnly, OutsideOnly, WithTask, WithHosts
  <2>5. t \in Tasks
    BY <1>10, ZenonT(60) DEF ThreadsInv, TypeOK
  <2>. QED BY <1>2, <1>3, <1>5, <2>2, <2>3, <2>4, <2>5, PlainMove, ZenonT(60)
<1>11. CASE SyncTimeout(p)
  BY <1>6, <1>10, <1>11, ZenonT(60) DEF SyncTimeout
<1>12. CASE Publish(p)
  BY <1>6, <1>12, ZenonT(60) DEF Publish
<1>13. CASE CancelLocked(p)
  BY <1>6, <1>8, <1>13, ZenonT(60) DEF CancelLocked
<1>. QED BY <1>7, <1>9, <1>11, <1>12, <1>13, ZenonT(60)

\* A synchronous run.
LEMMA SyncMove ==
    ASSUME ThreadsInv, Forward, NEW p \in Threads,
           SyncReturns(p) \/ SyncPublish(p)
    PROVE  \E g : Moves(p, g) /\ Aside(p, g)
<1>1. IsFrame(frame[p]) /\ CallSound(frame[p]) /\ TaskSound(frame[p])
  BY DEF ThreadsInv, FramesSound, FrameSound
<1>2. /\ frame[p].pc \in {"syncRun", "syncPublish"}
      /\ UNCHANGED <<running, drainLock, drainReq>>
  BY DEF SyncReturns, SyncPublish, At, QueueUnchanged
<1>3. debt' = debt
  BY DEF SyncReturns, SyncPublish, CompleteScheduledTask, SetFail,
       PublishCompletion, FinishTask
<1>4. frame[p].pc \notin DrainPcs \cup {"releaseLock"}
  BY <1>2, ZenonT(60) DEF DrainPcs
<1>5. /\ frame[p].how = "own" /\ frame[p].call = "sync"
      /\ frame[p].task \in Tasks /\ frame[p].task \in hosted
      /\ HoldsFor(frame[p], frame[p].task)
  BY <1>1, <1>2, ZenonT(60) DEF CallSound, TaskSound, WithTask, WithHosts, HoldsFor
<1>6. CASE Raise(p, "error", TRUE)
  BY <1>2, <1>3, <1>4, <1>5, <1>6, RaiseMove, ZenonT(60)
<1>7. ASSUME NEW l \in {"syncPublish", "finalize"}, Goto(p, l)
      PROVE  \E g : Moves(p, g) /\ Aside(p, g)
  BY <1>2, <1>3, <1>4, <1>5, <1>7, GotoMove, ZenonT(60)
<1>. QED BY <1>6, <1>7, ZenonT(60) DEF SyncReturns, SyncPublish

\* What a pass does to the queue.
LEMMA QueueMove ==
    ASSUME ThreadsInv, Forward, NEW p \in Threads,
           Put(p) \/ Retry(p) \/ Scan(p) \/ RemoveOorCid(p)
    PROVE  \E g : Moves(p, g) /\ Aside(p, g)
<1>1. IsFrame(frame[p]) /\ CallSound(frame[p]) /\ PassSound(frame[p], InDrain(p))
        /\ TaskSound(frame[p])
  BY DEF ThreadsInv, FramesSound, FrameSound
<1>2. /\ frame[p].pc \in {"put", "retry", "scan", "remove"}
      /\ UNCHANGED <<running, drainLock, drainReq>>
  BY DEF Put, Retry, Scan, RemoveOorCid, At, QueueUnchanged
<1>3. debt' = debt
  BY DEF Put, Retry, Scan, RemoveOorCid, RetryPendingCapacity, cvars
<1>4. frame[p].pc \notin DrainPcs \cup {"releaseLock"}
  BY <1>2, ZenonT(60) DEF DrainPcs
<1>5. frame[p].pc # "put" => InDrain(p)
  BY <1>1, <1>2, ZenonT(60) DEF PassSound, PassOnly
<1>6. ASSUME NEW g, frame' = [frame EXCEPT ![p] = g], InDrain(p),
             IsFrame(g), g.call = frame[p].call, g.own = frame[p].own,
             g.circuit = frame[p].circuit \/ g.circuit = FALSE,
             g.error = frame[p].error \/ g.error = "none",
             \/ /\ g.pc \in {"scan", "releaseLock"}
                /\ g.how = "none" \/ (g.how = frame[p].how /\ frame[p].how # "own")
             \/ g.pc = "prepare" /\ g.how = "oor"
             \/ g.pc = "selectReady" /\ g.how = "ready"
      PROVE  \E h : Moves(p, h) /\ Aside(p, h)
  <2>1. CallSound(g)
    BY <1>1, <1>6, ZenonT(60) DEF CallSound, Pcs, PassOnly, OutsideOnly, WithTask, WithHosts
  <2>2. PassSound(g, InDrain(p))
    BY <1>6 DEF PassSound, OutsideOnly
  <2>. QED BY <1>2, <1>3, <1>4, <1>6, <2>1, <2>2, PlainMove, ZenonT(60)
<1>7. CASE Put(p)
  <2>1. CASE InDrain(p)
    <3>1. PICK g : g = [frame[p] EXCEPT !.pc = "releaseLock"]
      OBVIOUS
    <3>2. frame' = [frame EXCEPT ![p] = g]
      BY <1>7, <2>1, <3>1, ZenonT(60) DEF Put, Goto, Set
    <3>3. /\ IsFrame(g) /\ g.pc = "releaseLock" /\ g.call = frame[p].call
          /\ g.own = frame[p].own /\ g.how = frame[p].how
          /\ g.task = frame[p].task /\ g.pick = frame[p].pick
          /\ g.circuit = frame[p].circuit /\ g.error = frame[p].error
      <4>1. FieldsKept(frame[p], g, "releaseLock")
        BY <1>1, <3>1, GotoFields, ZenonT(60)
      <4>. QED BY <4>1, ZenonT(60) DEF FieldsKept
    <3>4. frame[p].how # "own"
      BY <1>1, <2>1 DEF PassSound
    <3>. QED BY <1>6, <2>1, <3>2, <3>3, <3>4, ZenonT(60)
  <2>2. CASE ~InDrain(p)
    BY <1>2, <1>3, <1>4, <1>7, <2>2, IdleMove, ZenonT(60) DEF Put
  <2>. QED BY <2>1, <2>2
<1>8. CASE Retry(p)
  <2>1. PICK g : g = [frame[p] EXCEPT !.pc = "scan"]
    OBVIOUS
  <2>2. frame' = [frame EXCEPT ![p] = g] /\ InDrain(p)
    BY <1>5, <1>8, <2>1, ZenonT(60) DEF Retry, Goto, Set, At
  <2>3. /\ IsFrame(g) /\ g.pc = "scan" /\ g.call = frame[p].call
        /\ g.own = frame[p].own /\ g.how = frame[p].how
        /\ g.task = frame[p].task /\ g.pick = frame[p].pick
        /\ g.circuit = frame[p].circuit /\ g.error = frame[p].error
    <3>1. FieldsKept(frame[p], g, "scan")
      BY <1>1, <2>1, GotoFields, ZenonT(60)
    <3>. QED BY <3>1, ZenonT(60) DEF FieldsKept
  <2>4. frame[p].how # "own"
    BY <1>1, <2>2, ZenonT(60) DEF PassSound
  <2>. QED BY <1>6, <2>2, <2>3, <2>4, ZenonT(60)
<1>9. CASE Scan(p)
  <2>1. PICK i : i = InPass(frame[p])
    OBVIOUS
  <2>2. /\ IsFrame(i) /\ i.call = frame[p].call /\ i.own = frame[p].own
        /\ i.how = "none" /\ i.circuit = FALSE /\ i.error = "none"
    BY <1>1, <2>1, ZenonT(60) DEF InPass, IsFrame
  <2>3. PICK g :
          /\ frame' = [frame EXCEPT ![p] = g]
          /\ \/ g = [i EXCEPT !.pc = "releaseLock"]
             \/ \E t : g = [i EXCEPT !.pc = "prepare", !.how = "oor", !.task = t]
             \/ g = [i EXCEPT !.pc = "selectReady", !.how = "ready"]
    BY <1>9, <2>1, ZenonT(60) DEF Scan, Set
  <2>4. /\ IsFrame(g) /\ g.call = frame[p].call /\ g.own = frame[p].own
        /\ g.circuit = FALSE /\ g.error = "none"
        /\ \/ g.pc = "releaseLock" /\ g.how = "none"
           \/ g.pc = "prepare" /\ g.how = "oor"
           \/ g.pc = "selectReady" /\ g.how = "ready"
    BY <2>2, <2>3, ZenonT(60) DEF IsFrame
  <2>5. InDrain(p)
    BY <1>5, <1>9, ZenonT(60) DEF Scan, At
  <2>. QED BY <1>6, <2>3, <2>4, <2>5, ZenonT(60)
<1>10. CASE RemoveOorCid(p)
  <2>1. PICK l \in {"releaseLock", "scan"} :
          frame' = [frame EXCEPT ![p] = [InPass(frame[p]) EXCEPT !.pc = l]]
    BY <1>10, ZenonT(60) DEF RemoveOorCid, Set
  <2>2. PICK g : g = [InPass(frame[p]) EXCEPT !.pc = l]
    OBVIOUS
  <2>3. /\ IsFrame(g) /\ g.call = frame[p].call /\ g.own = frame[p].own
        /\ g.how = "none" /\ g.circuit = FALSE /\ g.error = "none"
        /\ g.pc = l
    BY <1>1, <2>2, ZenonT(60) DEF InPass, IsFrame
  <2>4. InDrain(p)
    BY <1>5, <1>10, ZenonT(60) DEF RemoveOorCid, At
  <2>. QED BY <1>6, <2>1, <2>2, <2>3, <2>4, ZenonT(60)
<1>. QED BY <1>7, <1>8, <1>9, <1>10, ZenonT(60)

----------------------------------------------------------------------------
\* Where a thread is in OorDrain.
DrainPc(f, drains) ==
    IF drains /\ f.pc \notin {"clear", "releaseLock"}
    THEN "drain" ELSE DrainStep(f.pc)

\* The step of OorDrain that takes thread p to frame g, if it is one.
Handshake(p, g) ==
    LET d == DrainPc(frame[p], InDrain(p))
        e == DrainPc(g, drainLock' = p)
    IN
    \/ d = e /\ UNCHANGED <<drainLock, drainReq>>
    \/ d = "drain" /\ e = "release" /\ UNCHANGED <<drainLock, drainReq>>
    \/ d \in {"out", "begin"} /\ e = "acquire" /\ drainReq' = TRUE
         /\ UNCHANGED drainLock
    \/ d = "acquire" /\ UNCHANGED drainReq
         /\ IF drainLock = None THEN drainLock' = p /\ e = "clear"
                                ELSE UNCHANGED drainLock /\ e = "out"
    \/ d = "clear" /\ e = "drain" /\ drainReq' = FALSE /\ UNCHANGED drainLock
    \/ d = "drain" /\ e = "drain" /\ drainReq' = TRUE /\ UNCHANGED drainLock
    \/ d = "release" /\ e = "check" /\ drainLock' = None /\ UNCHANGED drainReq
    \/ d = "check" /\ e = (IF drainReq THEN "begin" ELSE "out")
         /\ UNCHANGED <<drainLock, drainReq>>

\* A step aside is none of OorDrain's, but may end a pass.
LEMMA AsideHandshake ==
    ASSUME ThreadsInv, NEW p \in Threads, NEW g, Moves(p, g), Aside(p, g)
    PROVE  Handshake(p, g)
<1>1. PassSound(frame[p], InDrain(p)) /\ CallSound(frame[p])
  BY DEF ThreadsInv, FramesSound, FrameSound
<1>2. PassSound(g, drainLock' = p)
  BY DEF Moves
<1>3. UNCHANGED <<drainLock, drainReq>>
  BY DEF Aside
<1>4. CASE InDrain(p)
  <2>1. drainLock' = p
    BY <1>3, <1>4, ZenonT(60) DEF InDrain
  <2>2. DrainPc(frame[p], InDrain(p)) = "drain"
    BY <1>4 DEF DrainPc, Aside, DrainPcs
  <2>3. DrainPc(g, drainLock' = p) \in {"drain", "release"}
    BY <2>1, ZenonT(60) DEF DrainPc, DrainStep, Aside, DrainPcs
  <2>. QED BY <1>3, <2>2, <2>3, ZenonT(60) DEF Handshake
<1>5. CASE ~InDrain(p)
  <2>1. drainLock' # p
    BY <1>3, <1>5, ZenonT(60) DEF InDrain
  <2>2. DrainPc(frame[p], InDrain(p)) = "out"
    BY <1>1, <1>5, ZenonT(60) DEF DrainPc, DrainStep, Aside, DrainPcs
  <2>3. g.pc \notin PassOnly
    BY <1>2, <2>1, ZenonT(60) DEF PassSound
  <2>4. DrainPc(g, drainLock' = p) = "out"
    BY <2>1, <2>3, ZenonT(60) DEF DrainPc, DrainStep, Aside, DrainPcs, PassOnly
  <2>. QED BY <1>3, <2>2, <2>4, ZenonT(60) DEF Handshake
<1>. QED BY <1>4, <1>5, ZenonT(60)

\* A step of the handshake: the lock and the flag go with the frame.
LEMMA DrainMove ==
    ASSUME ThreadsInv, Forward, NEW p \in Threads, NEW g,
           frame' = [frame EXCEPT ![p] = g], UNCHANGED <<debt, running>>,
           IsFrame(g), CallSound(g), PassSound(g, drainLock' = p),
           g.call = "finish" => frame[p].call = "finish" /\ g.own = frame[p].own,
           g.pc \in {"idle", "acquire", "clear", "retry", "remove", "check",
                    "rerequest", "publish"},
           drainReq' \in BOOLEAN,
           \/ UNCHANGED drainLock
           \/ drainLock = None /\ drainLock' = p
           \/ drainLock = p /\ drainLock' = None
    PROVE  Moves(p, g)
<1>1. TaskSound(frame[p])
  BY DEF ThreadsInv, FramesSound, FrameSound
<1>2. TaskSound(g)
  BY <1>1, ZenonT(60) DEF TaskSound, WithTask, WithHosts
<1>3. TaskSound(g)'
  BY <1>2, TaskForward, ZenonT(60)
<1>4. Balanced(frame[p], g)
  <2>. SUFFICES ASSUME NEW t \in Tasks
              PROVE  debt[t] + RunBit(t)' + HoldBit(g, t)
                        <= debt'[t] + RunBit(t) + HoldBit(frame[p], t)
    BY DEF Balanced
  <2>1. debt[t] \in Int /\ debt'[t] = debt[t]
    BY DEF ThreadsInv, TypeOK
  <2>2. RunBit(t)' = RunBit(t) /\ RunBit(t) \in {0, 1}
    BY ZenonT(60) DEF RunBit
  <2>3. HoldBit(g, t) = 0 /\ HoldBit(frame[p], t) \in {0, 1}
    BY DEF HoldBit, HoldsFor
  <2>. QED BY <2>1, <2>2, <2>3, Sums, ZenonT(60)
<1>5. running' \subseteq hosted'
  BY DEF ThreadsInv, Forward
<1>6. /\ drainLock' \in Threads \cup {None}
      /\ \A q \in Threads \ {p} : (drainLock' = q) <=> (drainLock = q)
  BY ControllerAssumption, SMTT(30) DEF ThreadsInv
<1>. QED BY <1>3, <1>4, <1>5, <1>6, ZenonT(60) DEF Moves

\* A drain that is over goes back to its caller.
LEMMA DoneFrame ==
    ASSUME ThreadsInv, NEW p \in Threads, DrainDone(p), ~InDrain(p),
           frame[p].how \notin {"oor", "ready"}
    PROVE  \E g :
             /\ frame' = [frame EXCEPT ![p] = g]
             /\ IsFrame(g) /\ CallSound(g) /\ PassSound(g, FALSE)
             /\ g.call = "finish" =>
                   frame[p].call = "finish" /\ g.own = frame[p].own
             /\ g.pc \in {"idle", "publish"}
<1>1. IsFrame(frame[p]) /\ CallSound(frame[p])
  BY DEF ThreadsInv, FramesSound, FrameSound
<1>2. CASE frame[p].call = "finish"
  <2>1. PICK g : g = [frame[p] EXCEPT !.pc = "publish"]
    OBVIOUS
  <2>2. frame' = [frame EXCEPT ![p] = g]
    BY <1>2, <2>1, ZenonT(60) DEF DrainDone, Goto, Set
  <2>3. /\ IsFrame(g) /\ g.pc = "publish" /\ g.call = frame[p].call
        /\ g.own = frame[p].own /\ g.how = frame[p].how
        /\ g.task = frame[p].task /\ g.pick = frame[p].pick
        /\ g.circuit = frame[p].circuit /\ g.error = frame[p].error
    <3>1. FieldsKept(frame[p], g, "publish")
      BY <1>1, <2>1, GotoFields, ZenonT(60)
    <3>. QED BY <3>1, ZenonT(60) DEF FieldsKept
  <2>4. CallSound(g)
    BY <1>1, <1>2, <2>3
    DEF CallSound, Pcs, PassOnly, OutsideOnly, WithTask, WithHosts
  <2>5. PassSound(g, FALSE)
    BY <2>3, ZenonT(60) DEF PassSound, PassOnly
  <2>. QED BY <1>2, <2>2, <2>3, <2>4, <2>5
<1>3. CASE frame[p].call # "finish"
  <2>1. PICK g : g = Idle
    OBVIOUS
  <2>2. frame' = [frame EXCEPT ![p] = g]
    BY <1>3, <2>1, ZenonT(60) DEF DrainDone, Return, Set
  <2>3. IsFrame(g) /\ CallSound(g) /\ PassSound(g, FALSE) /\ g.pc = "idle"
    BY <2>1, IdleSound, ZenonT(60)
  <2>4. g.call = "none"
    BY <2>1, ZenonT(60) DEF Idle
  <2>. QED BY <2>2, <2>3, <2>4, ZenonT(60)
<1>. QED BY <1>2, <1>3

\* The steps of the drain handshake.
LEMMA HandshakeMove ==
    ASSUME ThreadsInv, Forward, NEW p \in Threads,
           \/ RequestDrain(p) \/ AcquireDrain(p) \/ ClearRequest(p)
           \/ NestedRequest(p) \/ ReleaseDrain(p) \/ CheckRequest(p)
    PROVE  \E g : Moves(p, g) /\ Handshake(p, g)
<1>1. IsFrame(frame[p]) /\ CallSound(frame[p]) /\ PassSound(frame[p], InDrain(p))
  BY DEF ThreadsInv, FramesSound, FrameSound
<1>2. UNCHANGED <<debt, running>> /\ drainReq \in BOOLEAN
  BY DEF RequestDrain, AcquireDrain, ClearRequest, NestedRequest, ReleaseDrain,
       CheckRequest, QueueUnchanged, cvars, ThreadsInv
<1>3. p # None
  BY ControllerAssumption, ZenonT(60)
<1>4. CASE RequestDrain(p)
  <2>1. /\ frame[p].pc \in {"request", "rerequest"}
        /\ drainReq' = TRUE /\ drainLock' = drainLock
    BY <1>4, ZenonT(60) DEF RequestDrain
  <2>2. PICK g : g = [InPass(frame[p]) EXCEPT !.pc = "acquire"]
    OBVIOUS
  <2>3. frame' = [frame EXCEPT ![p] = g]
    BY <1>4, <2>2, ZenonT(60) DEF RequestDrain, Set
  <2>4. /\ IsFrame(g) /\ g.call = frame[p].call /\ g.own = frame[p].own
        /\ g.how = "none" /\ g.circuit = FALSE /\ g.error = "none"
        /\ g.pc = "acquire"
    BY <1>1, <2>2, ZenonT(60) DEF InPass, IsFrame
  <2>5. drainLock # p /\ drainLock' # p
    BY <1>1, <2>1, ZenonT(60) DEF PassSound, OutsideOnly, InDrain
  <2>6. CallSound(g)
    BY <1>1, <2>4, ZenonT(60) DEF CallSound, Pcs, PassOnly, OutsideOnly, WithTask, WithHosts
  <2>7. PassSound(g, drainLock' = p)
    BY <2>4, <2>5, ZenonT(60) DEF PassSound, PassOnly
  <2>8. Moves(p, g)
    BY <1>2, <2>1, <2>3, <2>4, <2>6, <2>7, DrainMove, ZenonT(60)
  <2>9. /\ DrainPc(frame[p], InDrain(p)) \in {"out", "begin"}
        /\ DrainPc(g, drainLock' = p) = "acquire"
    BY <2>1, <2>4, <2>5, ZenonT(60) DEF DrainPc, DrainStep, InDrain
  <2>10. Handshake(p, g)
    BY <2>1, <2>9, ZenonT(60) DEF Handshake
  <2>. QED BY <2>8, <2>10, ZenonT(60)
<1>5. CASE AcquireDrain(p)
  <2>1. frame[p].pc = "acquire" /\ drainReq' = drainReq
    BY <1>5, ZenonT(60) DEF AcquireDrain, At
  <2>2. frame[p].how = "none"
    BY <1>1, <2>1, ZenonT(60) DEF CallSound
  <2>3. drainLock # p
    BY <1>1, <2>1, ZenonT(60) DEF PassSound, OutsideOnly, InDrain
  <2>4. DrainPc(frame[p], InDrain(p)) = "acquire"
    BY <2>1, <2>3, ZenonT(60) DEF DrainPc, DrainStep, InDrain
  <2>5. CASE drainLock = None
    <3>1. PICK g : g = [frame[p] EXCEPT !.pc = "clear"]
      OBVIOUS
    <3>2. frame' = [frame EXCEPT ![p] = g] /\ drainLock' = p
      BY <1>5, <2>5, <3>1, ZenonT(60) DEF AcquireDrain, Goto, Set
    <3>3. /\ IsFrame(g) /\ g.pc = "clear" /\ g.call = frame[p].call
          /\ g.own = frame[p].own /\ g.how = frame[p].how
          /\ g.task = frame[p].task /\ g.pick = frame[p].pick
          /\ g.circuit = frame[p].circuit /\ g.error = frame[p].error
      <4>1. FieldsKept(frame[p], g, "clear")
        BY <1>1, <3>1, GotoFields, ZenonT(60)
      <4>. QED BY <4>1, ZenonT(60) DEF FieldsKept
    <3>4. CallSound(g)
      BY <1>1, <2>2, <3>3
      DEF CallSound, Pcs, PassOnly, OutsideOnly, WithTask, WithHosts
    <3>5. PassSound(g, drainLock' = p)
      BY <2>2, <3>2, <3>3, ZenonT(60) DEF PassSound, OutsideOnly
    <3>6. Moves(p, g)
      BY <1>2, <2>1, <2>5, <3>2, <3>3, <3>4, <3>5, DrainMove, ZenonT(60)
    <3>7. DrainPc(g, drainLock' = p) = "clear"
      BY <3>3, ZenonT(60) DEF DrainPc, DrainStep
    <3>8. Handshake(p, g)
      BY <2>1, <2>4, <2>5, <3>2, <3>7, ZenonT(60) DEF Handshake
    <3>. QED BY <3>6, <3>8, ZenonT(60)
  <2>6. CASE drainLock # None
    <3>1. DrainDone(p) /\ drainLock' = drainLock
      BY <1>5, <2>6, ZenonT(60) DEF AcquireDrain
    <3>2. PICK g :
            /\ frame' = [frame EXCEPT ![p] = g]
            /\ IsFrame(g) /\ CallSound(g) /\ PassSound(g, FALSE)
            /\ g.call = "finish" =>
                  frame[p].call = "finish" /\ g.own = frame[p].own
            /\ g.pc \in {"idle", "publish"}
      BY <2>2, <2>3, <3>1, DoneFrame, ZenonT(60) DEF InDrain
    <3>3. PassSound(g, drainLock' = p)
      BY <2>3, <3>1, <3>2, ZenonT(60) DEF PassSound
    <3>4. Moves(p, g)
      BY <1>2, <2>1, <3>1, <3>2, <3>3, DrainMove, ZenonT(60)
    <3>5. DrainPc(g, drainLock' = p) = "out"
      BY <2>3, <3>1, <3>2, ZenonT(60) DEF DrainPc, DrainStep
    <3>6. Handshake(p, g)
      BY <2>1, <2>4, <2>6, <3>1, <3>5, ZenonT(60) DEF Handshake
    <3>. QED BY <3>4, <3>6, ZenonT(60)
  <2>. QED BY <2>5, <2>6, ZenonT(60)
<1>6. CASE ClearRequest(p)
  <2>1. /\ frame[p].pc = "clear" /\ drainReq' = FALSE
        /\ drainLock' = drainLock
    BY <1>6 DEF ClearRequest, At
  <2>2. PICK g : g = [frame[p] EXCEPT !.pc = "retry"]
    OBVIOUS
  <2>3. frame' = [frame EXCEPT ![p] = g]
    BY <1>6, <2>2, ZenonT(60) DEF ClearRequest, Goto, Set
  <2>4. /\ IsFrame(g) /\ g.pc = "retry" /\ g.call = frame[p].call
        /\ g.own = frame[p].own /\ g.how = frame[p].how
        /\ g.task = frame[p].task /\ g.pick = frame[p].pick
        /\ g.circuit = frame[p].circuit /\ g.error = frame[p].error
    <3>1. FieldsKept(frame[p], g, "retry")
      BY <1>1, <2>2, GotoFields, ZenonT(60)
    <3>. QED BY <3>1, ZenonT(60) DEF FieldsKept
  <2>5. drainLock = p /\ drainLock' = p
    BY <1>1, <2>1 DEF PassSound, PassOnly, InDrain
  <2>6. CallSound(g)
    BY <1>1, <2>4, ZenonT(60) DEF CallSound, Pcs, PassOnly, OutsideOnly, WithTask, WithHosts
  <2>7. PassSound(g, drainLock' = p)
    BY <1>1, <2>4, <2>5, ZenonT(60) DEF PassSound, OutsideOnly, InDrain
  <2>8. Moves(p, g)
    BY <1>2, <2>1, <2>3, <2>4, <2>6, <2>7, DrainMove, ZenonT(60)
  <2>9. /\ DrainPc(frame[p], InDrain(p)) = "clear"
        /\ DrainPc(g, drainLock' = p) = "drain"
    BY <2>1, <2>4, <2>5, ZenonT(60) DEF DrainPc, DrainStep, InDrain
  <2>10. Handshake(p, g)
    BY <2>1, <2>9, ZenonT(60) DEF Handshake
  <2>. QED BY <2>8, <2>10, ZenonT(60)
<1>7. CASE NestedRequest(p)
  <2>1. /\ frame[p].pc = "nested" /\ drainReq' = TRUE
        /\ drainLock' = drainLock
    BY <1>7, ZenonT(60) DEF NestedRequest, At
  <2>2. PICK g : g = [frame[p] EXCEPT !.pc = "remove"]
    OBVIOUS
  <2>3. frame' = [frame EXCEPT ![p] = g]
    BY <1>7, <2>2, ZenonT(60) DEF NestedRequest, Goto, Set
  <2>4. /\ IsFrame(g) /\ g.pc = "remove" /\ g.call = frame[p].call
        /\ g.own = frame[p].own /\ g.how = frame[p].how
        /\ g.task = frame[p].task /\ g.pick = frame[p].pick
        /\ g.circuit = frame[p].circuit /\ g.error = frame[p].error
    <3>1. FieldsKept(frame[p], g, "remove")
      BY <1>1, <2>2, GotoFields, ZenonT(60)
    <3>. QED BY <3>1, ZenonT(60) DEF FieldsKept
  <2>5. drainLock = p /\ drainLock' = p
    BY <1>1, <2>1 DEF PassSound, PassOnly, InDrain
  <2>6. CallSound(g)
    BY <1>1, <2>4
    DEF CallSound, Pcs, PassOnly, OutsideOnly, WithTask, WithHosts
  <2>7. PassSound(g, drainLock' = p)
    BY <1>1, <2>1, <2>4, <2>5, ZenonT(60) DEF PassSound, OutsideOnly, InDrain
  <2>8. Moves(p, g)
    BY <1>2, <2>1, <2>3, <2>4, <2>6, <2>7, DrainMove, ZenonT(60)
  <2>9. /\ DrainPc(frame[p], InDrain(p)) = "drain"
        /\ DrainPc(g, drainLock' = p) = "drain"
    BY <2>1, <2>4, <2>5, ZenonT(60) DEF DrainPc, InDrain
  <2>10. Handshake(p, g)
    BY <2>1, <2>9 DEF Handshake
  <2>. QED BY <2>8, <2>10, ZenonT(60)
<1>8. CASE ReleaseDrain(p)
  <2>1. /\ frame[p].pc = "releaseLock" /\ drainReq' = drainReq
        /\ drainLock' = None
    BY <1>8 DEF ReleaseDrain, At
  <2>2. PICK g : g = [InPass(frame[p]) EXCEPT !.pc = "check"]
    OBVIOUS
  <2>3. frame' = [frame EXCEPT ![p] = g]
    BY <1>8, <2>2 DEF ReleaseDrain, Set
  <2>4. /\ IsFrame(g) /\ g.call = frame[p].call /\ g.own = frame[p].own
        /\ g.how = "none" /\ g.circuit = FALSE /\ g.error = "none"
        /\ g.pc = "check"
    BY <1>1, <2>2 DEF InPass, IsFrame
  <2>5. drainLock = p
    BY <1>1, <2>1 DEF PassSound, PassOnly, InDrain
  <2>6. CallSound(g)
    BY <1>1, <2>4
    DEF CallSound, Pcs, PassOnly, OutsideOnly, WithTask, WithHosts
  <2>7. PassSound(g, drainLock' = p)
    BY <1>3, <2>1, <2>4, ZenonT(60) DEF PassSound, PassOnly
  <2>8. Moves(p, g)
    BY <1>2, <2>1, <2>3, <2>4, <2>5, <2>6, <2>7, DrainMove, ZenonT(60)
  <2>9. /\ DrainPc(frame[p], InDrain(p)) = "release"
        /\ DrainPc(g, drainLock' = p) = "check"
    BY <1>3, <2>1, <2>4, ZenonT(60) DEF DrainPc, DrainStep
  <2>10. Handshake(p, g)
    BY <2>1, <2>9 DEF Handshake
  <2>. QED BY <2>8, <2>10, ZenonT(60)
<1>9. CASE CheckRequest(p)
  <2>1. frame[p].pc = "check" /\ UNCHANGED <<drainLock, drainReq>>
    BY <1>9 DEF CheckRequest, At, QueueUnchanged
  <2>2. drainLock # p
    BY <1>1, <2>1, ZenonT(60) DEF PassSound, OutsideOnly, InDrain
  <2>3. DrainPc(frame[p], InDrain(p)) = "check"
    BY <2>1, <2>2, ZenonT(60) DEF DrainPc, DrainStep, InDrain
  <2>4. frame[p].how \notin {"oor", "ready"}
    BY <1>1, <2>1 DEF CallSound
  <2>5. CASE drainReq
    <3>1. PICK g : g = [frame[p] EXCEPT !.pc = "rerequest"]
      OBVIOUS
    <3>2. frame' = [frame EXCEPT ![p] = g]
      BY <1>9, <2>5, <3>1, ZenonT(60) DEF CheckRequest, Goto, Set
    <3>3. /\ IsFrame(g) /\ g.pc = "rerequest" /\ g.call = frame[p].call
          /\ g.own = frame[p].own /\ g.how = frame[p].how
          /\ g.task = frame[p].task /\ g.pick = frame[p].pick
          /\ g.circuit = frame[p].circuit /\ g.error = frame[p].error
      <4>1. FieldsKept(frame[p], g, "rerequest")
        BY <1>1, <3>1, GotoFields, ZenonT(60)
      <4>. QED BY <4>1, ZenonT(60) DEF FieldsKept
    <3>4. CallSound(g)
      BY <1>1, <3>3
      DEF CallSound, Pcs, PassOnly, OutsideOnly, WithTask, WithHosts
    <3>5. PassSound(g, drainLock' = p)
      BY <2>1, <2>2, <2>4, <3>3 DEF PassSound, PassOnly
    <3>6. Moves(p, g)
      BY <1>2, <2>1, <3>2, <3>3, <3>4, <3>5, DrainMove
    <3>7. DrainPc(g, drainLock' = p) = "begin"
      BY <2>1, <2>2, <3>3, ZenonT(60) DEF DrainPc, DrainStep
    <3>8. Handshake(p, g)
      BY <2>1, <2>3, <2>5, <3>7, ZenonT(60) DEF Handshake
    <3>. QED BY <3>6, <3>8, ZenonT(60)
  <2>6. CASE ~drainReq
    <3>1. PICK g :
            /\ frame' = [frame EXCEPT ![p] = g]
            /\ IsFrame(g) /\ CallSound(g) /\ PassSound(g, FALSE)
            /\ g.call = "finish" =>
                  frame[p].call = "finish" /\ g.own = frame[p].own
            /\ g.pc \in {"idle", "publish"}
      <4>1. DrainDone(p) /\ ~InDrain(p)
        BY <1>9, <2>2, <2>6, ZenonT(60) DEF CheckRequest, InDrain
      <4>. QED BY <2>4, <4>1, DoneFrame, ZenonT(60)
    <3>2. PassSound(g, drainLock' = p)
      BY <2>1, <2>2, <3>1, ZenonT(60) DEF PassSound
    <3>3. Moves(p, g)
      BY <1>2, <2>1, <3>1, <3>2, DrainMove, ZenonT(60)
    <3>4. DrainPc(g, drainLock' = p) = "out"
      BY <2>1, <2>2, <3>1, ZenonT(60) DEF DrainPc, DrainStep
    <3>5. Handshake(p, g)
      BY <2>1, <2>3, <2>6, <3>4, ZenonT(60) DEF Handshake
    <3>. QED BY <3>3, <3>5
  <2>. QED BY <2>5, <2>6
<1>. QED BY <1>4, <1>5, <1>6, <1>7, <1>8, <1>9, ZenonT(60)
----------------------------------------------------------------------------
\* Whatever a thread does, it goes on with a sound frame and keeps to the
\* handshake.
LEMMA StepMoves ==
    ASSUME ThreadsInv, Forward, NEW p \in Threads,
           Call(p) \/ Step(p) \/ Finish(p) \/ SyncTimeout(p)
    PROVE  \E g : Moves(p, g) /\ Handshake(p, g)
<1>1. CASE \E g : Moves(p, g) /\ Aside(p, g)
  <2>1. PICK g : Moves(p, g) /\ Aside(p, g)
    BY <1>1
  <2>2. Handshake(p, g)
    BY <2>1, AsideHandshake
  <2>. QED BY <2>1, <2>2
<1>2. CASE \/ RequestDrain(p) \/ AcquireDrain(p) \/ ClearRequest(p)
           \/ NestedRequest(p) \/ ReleaseDrain(p) \/ CheckRequest(p)
  BY <1>2, HandshakeMove
<1>3. CASE \/ Call(p) \/ Finish(p)
           \/ CreateCircuit(p) \/ CancelLocked(p) \/ Publish(p) \/ SyncRetry(p)
           \/ SyncTimeout(p) \/ SyncReturns(p) \/ SyncPublish(p)
  BY <1>1, <1>3, CallMove, FinishMove, ClientMove, SyncMove, ZenonT(60)
<1>4. CASE \/ Prepare(p) \/ Authorize(p) \/ SubmitToScheduler(p)
           \/ Select(p) \/ Consume(p) \/ Unclaim(p) \/ Attach(p)
           \/ Start(p) \/ SubmitToProvider(p)
  BY <1>1, <1>4, PrepareMove, SelectMove, ConsumeMove, UnclaimMove, AttachMove,
     StartMove, ProviderMove, ZenonT(60)
<1>5. CASE \/ Bind(p) \/ Fail(p) \/ Finalize(p) \/ FailReady(p)
           \/ ReleaseReady(p) \/ DeferReady(p) \/ Defer(p)
           \/ ReturnHostsStep(p) \/ SelectReady(p)
           \/ Put(p) \/ Retry(p) \/ Scan(p) \/ RemoveOorCid(p)
  BY <1>1, <1>5, EndingMove, ReturnMove, SelectReadyMove, QueueMove, ZenonT(60)
<1>. QED BY <1>2, <1>3, <1>4, <1>5, ZenonT(60) DEF Step

\* The invariant of the threads, with what the controller owes them.
LEMMA ThreadsInitially ==
    ASSUME DispatchInit
    PROVE  ThreadsInv /\ DebtCovers
<1>1. TypeOK
  BY InitIInv, ZenonT(60) DEF DispatchInit, IInv
<1>2. FramesSound
  <2>1. DOMAIN frame = Threads /\ \A p \in Threads : frame[p] = Idle
    BY DEF DispatchInit
  <2>2. ASSUME NEW p \in Threads
        PROVE  FrameSound(p, frame[p])
    <3>1. ~InDrain(p)
      BY ControllerAssumption DEF DispatchInit, InDrain
    <3>2. IsFrame(Idle) /\ CallSound(Idle) /\ PassSound(Idle, InDrain(p))
      BY <3>1, IdleSound, ZenonT(60)
    <3>3. TaskSound(Idle)
      BY DEF TaskSound, Idle, WithTask, WithHosts
    <3>. QED BY <2>1, <3>2, <3>3, ZenonT(60) DEF FrameSound
  <2>. QED BY <2>1, <2>2, ZenonT(60) DEF FramesSound
<1>3. ThreadsInv
  BY <1>1, <1>2, ZenonT(60) DEF ThreadsInv, DispatchInit, Init
<1>4. ASSUME NEW t \in Tasks
      PROVE  debt[t] >= Cardinality(Holders(t)) + RunBit(t)
  <2>1. \A p \in Threads : ~HoldsFor(frame[p], t)
    BY DEF DispatchInit, Idle, HoldsFor
  <2>2. Holders(t) = {}
    BY <2>1, ZenonT(60) DEF Holders
  <2>3. debt[t] = 0 /\ RunBit(t) = 0
    BY DEF DispatchInit, Init, RunBit
  <2>. QED BY <2>2, <2>3, FS_EmptySet, Sums, ZenonT(60)
<1>. QED BY <1>3, <1>4, ZenonT(60) DEF DebtCovers

\* Every step of every thread keeps the invariant.
LEMMA ThreadsStep ==
    ASSUME ThreadsInv, DebtCovers, [DispatchNext]_vars
    PROVE  ThreadsInv' /\ DebtCovers'
<1>1. [Next]_cvars
  BY DispatchOperates, ZenonT(60)
<1>2. TypeOK /\ TypeOK'
  BY <1>1, NextTyped, ZenonT(60) DEF ThreadsInv
<1>3. Forward /\ \A t \in selected' : sched'[t] # "absent"
  BY <1>1, ControllerForward, ZenonT(60) DEF ThreadsInv
<1>4. FramesSound /\ DOMAIN frame = Threads
  BY DEF ThreadsInv, FramesSound
<1>5. ASSUME NEW p \in Threads,
             Call(p) \/ Step(p) \/ Finish(p) \/ SyncTimeout(p)
      PROVE  ThreadsInv' /\ DebtCovers'
  <2>1. PICK g : Moves(p, g)
    BY <1>3, <1>5, StepMoves, ZenonT(60)
  <2>2. /\ frame' = [frame EXCEPT ![p] = g]
        /\ IsFrame(g) /\ CallSound(g)
        /\ PassSound(g, drainLock' = p)
        /\ TaskSound(g)'
        /\ \A q \in Threads \ {p} : (drainLock' = q) <=> (drainLock = q)
    BY <2>1, ZenonT(60) DEF Moves
  <2>3. FramesSound'
    BY <1>3, <1>4, <2>2, FramesUpdate, ZenonT(60)
  <2>4. Balanced(frame[p], g)
    BY <2>1 DEF Moves
  <2>5. DebtCovers'
    BY <1>2, <1>4, <2>2, <2>4, BalanceKept, ZenonT(60)
  <2>6. /\ running' \subseteq hosted'
        /\ drainLock' \in Threads \cup {None}
        /\ drainReq' \in BOOLEAN
    BY <2>1, ZenonT(60) DEF Moves
  <2>. QED BY <1>2, <1>3, <2>3, <2>5, <2>6, ZenonT(60) DEF ThreadsInv
<1>6. ASSUME UNCHANGED dvars, UNCHANGED debt
      PROVE  ThreadsInv' /\ DebtCovers'
  <2>1. /\ frame' = frame /\ drainLock' = drainLock /\ drainReq' = drainReq
        /\ running' = running /\ debt' = debt
    BY <1>6 DEF dvars
  <2>2. ASSUME NEW p \in Threads
        PROVE  FrameSound(p, frame[p])'
    <3>1. PICK h : h = frame[p]
      OBVIOUS
    <3>2. IsFrame(h) /\ CallSound(h) /\ PassSound(h, InDrain(p)) /\ TaskSound(h)
      BY <1>4, <3>1, ZenonT(60) DEF FramesSound, FrameSound
    <3>3. TaskSound(h)'
      BY <1>3, <3>2, TaskForward, ZenonT(60)
    <3>4. InDrain(p)' = InDrain(p) /\ frame'[p] = h
      BY <2>1, <3>1, ZenonT(60) DEF InDrain
    <3>. QED BY <3>2, <3>3, <3>4, ZenonT(60) DEF FrameSound
  <2>3. FramesSound'
    BY <1>4, <2>1, <2>2, ZenonT(60) DEF FramesSound
  <2>4. \A t \in Tasks : Holders(t)' = Holders(t) /\ RunBit(t)' = RunBit(t)
    BY <2>1, ZenonT(60) DEF Holders, RunBit
  <2>5. DebtCovers'
    BY <2>1, <2>4, ZenonT(60) DEF DebtCovers
  <2>6. running' \subseteq hosted'
    BY <1>3, <2>1, ZenonT(60) DEF ThreadsInv, Forward
  <2>. QED BY <1>2, <1>3, <2>1, <2>3, <2>5, <2>6, ZenonT(60) DEF ThreadsInv
<1>7. CASE Close
  BY <1>6, <1>7, ZenonT(60) DEF Close, CloseReservation
<1>8. CASE Delete
  BY <1>6, <1>8, ZenonT(60) DEF Delete, DeleteCircuit
<1>9. CASE UNCHANGED vars
  BY <1>6, <1>9, ZenonT(60) DEF vars, cvars
<1>. QED BY <1>5, <1>7, <1>8, <1>9, ZenonT(60) DEF DispatchNext

\* So it holds throughout.
LEMMA ThreadsInvariant == DispatchSpec => [](ThreadsInv /\ DebtCovers)
<1>1. DispatchInit => ThreadsInv /\ DebtCovers
  BY ThreadsInitially
<1>2. ThreadsInv /\ DebtCovers /\ [DispatchNext]_vars
        => (ThreadsInv /\ DebtCovers)'
  BY ThreadsStep
<1>. QED BY <1>1, <1>2, PTL DEF DispatchSpec

\* The threads of the QPM use the controller as its callers must: a task is
\* started only after it was submitted, a provider reports only what was
\* given hosts, and hosts are returned no more often than they were taken.
THEOREM ThreadsUseController == DispatchSpec => ControllerRefined
<1>1. DispatchInit => Init
  BY DEF DispatchInit
<1>2. ThreadsInv /\ DebtCovers /\ [DispatchNext]_vars => [Next]_cvars
  BY DispatchOperates
<1>. QED
  BY <1>1, <1>2, ThreadsInvariant, PTL
  DEF DispatchSpec, ControllerRefined, ControllerSpec

\* So what the controller promises whoever calls it, it promises the threads:
\* one task selected at a time, and no more runs than the dispatch limit.
THEOREM ThreadsAreBounded == DispatchSpec => []DispatchBounded
BY ThreadsUseController, DispatchIsBounded, PTL DEF ControllerRefined

\* Slots that a thread gives back always fit: _return_hosts does not raise
\* for hosts that the threads took, however many threads return at once.
THEOREM ReturnsAlwaysFit == DispatchSpec => []ReturnsFit
<1>1. ASSUME ThreadsInv, DebtCovers, SlotsAdd
      PROVE  ReturnsFit
  <2>. SUFFICES ASSUME NEW p \in Threads, At(p, "returnHosts")
              PROVE  ReturnFits /\ frame[p].task \in hosted
    BY DEF ReturnsFit
  <2>1. TaskSound(frame[p]) /\ frame[p].pc = "returnHosts"
    BY <1>1, ZenonT(60) DEF ThreadsInv, FramesSound, FrameSound, At
  <2>2. frame[p].task \in hosted /\ frame[p].task \in Tasks
    BY <2>1 DEF TaskSound, WithTask, WithHosts
  <2>3. HoldsFor(frame[p], frame[p].task)
    BY <2>1, ZenonT(60) DEF HoldsFor
  <2>4. debt[frame[p].task] > 0
    BY <1>1, <2>2, <2>3, HolderHasDebt, ZenonT(60) DEF ThreadsInv
  <2>. QED BY <1>1, <2>2, <2>4, DebtFits, ZenonT(60)
<1>2. ThreadsInv /\ DebtCovers /\ SlotsAdd => ReturnsFit
  BY <1>1, ZenonT(60)
<1>. QED
  BY <1>2, ThreadsInvariant, ThreadsUseController, SlotsAreConserved, PTL
  DEF ControllerRefined

----------------------------------------------------------------------------
\* Where all threads are in OorDrain.
DrainPlaces == [q \in Threads |-> DrainPc(frame[q], InDrain(q))]

\* A thread's step changes only its own place in the handshake.
LEMMA PlacesMove ==
    ASSUME FramesSound, NEW p \in Threads, NEW g, Moves(p, g)
    PROVE  /\ DrainPlaces[p] = DrainPc(frame[p], InDrain(p))
           /\ DrainPlaces' = [DrainPlaces EXCEPT ![p] = DrainPc(g, drainLock' = p)]
<1>1. frame'[p] = g /\ \A q \in Threads \ {p} : frame'[q] = frame[q]
  BY DEF Moves, FramesSound
<1>2. \A q \in Threads \ {p} : (drainLock' = q) <=> (drainLock = q)
  BY DEF Moves
<1>3. \A q \in Threads : DrainPlaces'[q] = DrainPc(frame'[q], drainLock' = q)
  BY DEF DrainPlaces, InDrain, DrainPc
<1>4. \A q \in Threads : DrainPlaces[q] = DrainPc(frame[q], drainLock = q)
  BY DEF DrainPlaces, InDrain
<1>5. \A q \in Threads \ {p} : DrainPlaces'[q] = DrainPlaces[q]
  BY <1>1, <1>2, <1>3, <1>4, ZenonT(60) DEF DrainPc
<1>6. DrainPlaces'[p] = DrainPc(g, drainLock' = p)
  BY <1>1, <1>3, ZenonT(60)
<1>7. DrainPlaces = [q \in Threads |-> DrainPlaces[q]]
      /\ DrainPlaces' = [q \in Threads |-> DrainPlaces'[q]]
  BY DEF DrainPlaces
<1>8. DrainPlaces[p] = DrainPc(frame[p], InDrain(p))
  BY DEF DrainPlaces
<1>. HIDE DEF DrainPlaces
<1>. QED BY <1>5, <1>6, <1>7, <1>8, ZenonT(60)

\* A function is not changed by the value it has.
LEMMA SameValue ==
    ASSUME NEW S, NEW f, f = [q \in S |-> f[q]], NEW p \in S,
           NEW h, h = [f EXCEPT ![p] = f[p]]
    PROVE  h = f
OBVIOUS

\* A step of the handshake is a step of OorDrain.
LEMMA HandshakeDrains ==
    ASSUME ThreadsInv, NEW p \in Threads, NEW g, Moves(p, g), Handshake(p, g)
    PROVE  [Drain!DrainNext]_(Drain!ovars)
<1>1. PICK d : d = DrainPc(frame[p], InDrain(p))
  OBVIOUS
<1>2. PICK e : e = DrainPc(g, drainLock' = p)
  OBVIOUS
<1>3. /\ DrainPlaces[p] = d
      /\ DrainPlaces' = [DrainPlaces EXCEPT ![p] = e]
      /\ DrainPlaces = [q \in Threads |-> DrainPlaces[q]]
  BY <1>1, <1>2, PlacesMove, ZenonT(60) DEF ThreadsInv, DrainPlaces
<1>4. ASSUME d = e
      PROVE  DrainPlaces' = DrainPlaces
  BY <1>3, <1>4, SameValue, ZenonT(60)
<1>5. CASE d = e /\ UNCHANGED <<drainLock, drainReq>>
  <2>1. DrainPlaces' = DrainPlaces
    BY <1>4, <1>5, ZenonT(60)
  <2>. QED
    BY <1>5, <2>1, ZenonT(60) DEF Drain!ovars, DrainPlaces, DrainPc
<1>6. CASE d = "drain" /\ e = "release" /\ UNCHANGED <<drainLock, drainReq>>
  <2>1. Drain!EndPass(p)
    BY <1>3, <1>6, ZenonT(60) DEF Drain!EndPass, Drain!DrainGoto, DrainPlaces, DrainPc
  <2>. QED BY <2>1, ZenonT(60) DEF Drain!DrainNext
<1>7. CASE d \in {"out", "begin"} /\ e = "acquire" /\ drainReq' = TRUE
             /\ UNCHANGED drainLock
  <2>1. Drain!Request(p)
    BY <1>3, <1>7, ZenonT(60) DEF Drain!Request, Drain!DrainGoto, DrainPlaces, DrainPc
  <2>. QED BY <2>1, ZenonT(60) DEF Drain!DrainNext
<1>8. CASE d = "acquire" /\ UNCHANGED drainReq /\ drainLock = None
             /\ drainLock' = p /\ e = "clear"
  <2>1. Drain!Acquire(p)
    BY <1>3, <1>8, ZenonT(60) DEF Drain!Acquire, Drain!DrainGoto, DrainPlaces, DrainPc
  <2>. QED BY <2>1, ZenonT(60) DEF Drain!DrainNext
<1>9. CASE d = "acquire" /\ UNCHANGED drainReq /\ drainLock # None
             /\ UNCHANGED drainLock /\ e = "out"
  <2>1. Drain!Acquire(p)
    BY <1>3, <1>9, ZenonT(60) DEF Drain!Acquire, Drain!DrainGoto, DrainPlaces, DrainPc
  <2>. QED BY <2>1, ZenonT(60) DEF Drain!DrainNext
<1>10. CASE d = "clear" /\ e = "drain" /\ drainReq' = FALSE /\ UNCHANGED drainLock
  <2>1. Drain!ClearRequest(p)
    BY <1>3, <1>10, ZenonT(60) DEF Drain!ClearRequest, Drain!DrainGoto, DrainPlaces, DrainPc
  <2>. QED BY <2>1, ZenonT(60) DEF Drain!DrainNext
<1>11. CASE d = "drain" /\ e = "drain" /\ drainReq' = TRUE /\ UNCHANGED drainLock
  <2>1. DrainPlaces' = DrainPlaces
    BY <1>4, <1>11, ZenonT(60)
  <2>2. Drain!Nested(p)
    BY <1>3, <1>11, <2>1, ZenonT(60) DEF Drain!Nested, DrainPlaces, DrainPc
  <2>. QED BY <2>2, ZenonT(60) DEF Drain!DrainNext
<1>12. CASE d = "release" /\ e = "check" /\ drainLock' = None
              /\ UNCHANGED drainReq
  <2>1. Drain!Release(p)
    BY <1>3, <1>12, ZenonT(60) DEF Drain!Release, Drain!DrainGoto, DrainPlaces, DrainPc
  <2>. QED BY <2>1, ZenonT(60) DEF Drain!DrainNext
<1>13. CASE d = "check" /\ e = (IF drainReq THEN "begin" ELSE "out")
              /\ UNCHANGED <<drainLock, drainReq>>
  <2>1. Drain!Check(p)
    BY <1>3, <1>13, ZenonT(60) DEF Drain!Check, Drain!DrainGoto, DrainPlaces, DrainPc
  <2>. QED BY <2>1, ZenonT(60) DEF Drain!DrainNext
<1>14. \/ d = e /\ UNCHANGED <<drainLock, drainReq>>
       \/ d = "drain" /\ e = "release" /\ UNCHANGED <<drainLock, drainReq>>
       \/ d \in {"out", "begin"} /\ e = "acquire" /\ drainReq' = TRUE
            /\ UNCHANGED drainLock
       \/ d = "acquire" /\ UNCHANGED drainReq /\ drainLock = None
            /\ drainLock' = p /\ e = "clear"
       \/ d = "acquire" /\ UNCHANGED drainReq /\ drainLock # None
            /\ UNCHANGED drainLock /\ e = "out"
       \/ d = "clear" /\ e = "drain" /\ drainReq' = FALSE /\ UNCHANGED drainLock
       \/ d = "drain" /\ e = "drain" /\ drainReq' = TRUE /\ UNCHANGED drainLock
       \/ d = "release" /\ e = "check" /\ drainLock' = None
            /\ UNCHANGED drainReq
       \/ d = "check" /\ e = (IF drainReq THEN "begin" ELSE "out")
            /\ UNCHANGED <<drainLock, drainReq>>
  BY <1>1, <1>2, ZenonT(60) DEF Handshake
<1>. QED
  BY <1>5, <1>6, <1>7, <1>8, <1>9, <1>10, <1>11, <1>12, <1>13, <1>14, ZenonT(60)

\* Every step of the threads is one of the handshake, or none.
LEMMA DispatchDrains ==
    ASSUME ThreadsInv, DebtCovers, [DispatchNext]_vars
    PROVE  [Drain!DrainNext]_(Drain!ovars)
<1>1. Forward
  BY DispatchOperates, ControllerForward, ZenonT(60) DEF ThreadsInv
<1>2. CASE Close \/ Delete \/ UNCHANGED vars
  BY <1>2, ZenonT(60) DEF Close, Delete, vars, dvars, Drain!ovars, InDrain
<1>3. ASSUME NEW p \in Threads,
             Call(p) \/ Step(p) \/ Finish(p) \/ SyncTimeout(p)
      PROVE  [Drain!DrainNext]_(Drain!ovars)
  <2>1. PICK g : Moves(p, g) /\ Handshake(p, g)
    BY <1>1, <1>3, StepMoves, ZenonT(60)
  <2>. QED BY <2>1, HandshakeDrains, ZenonT(60)
<1>. QED BY <1>2, <1>3, ZenonT(60) DEF DispatchNext

\* The threads drain the queue as OorDrain says, whatever they dispatch on
\* the way.
THEOREM ThreadsDrainInTurn == DispatchSpec => DrainRefined
<1>1. DispatchInit => Drain!DrainInit
  <2>. SUFFICES ASSUME DispatchInit PROVE Drain!DrainInit
    OBVIOUS
  <2>1. \A p \in Threads : ~InDrain(p) /\ frame[p].pc = "idle"
    BY ControllerAssumption, ZenonT(60) DEF DispatchInit, InDrain, Idle
  <2>2. \A p \in Threads : DrainStep(frame[p].pc) = "out"
    BY <2>1, ZenonT(60) DEF DrainStep
  <2>3. [p \in Threads |->
              IF InDrain(p) /\ frame[p].pc \notin {"clear", "releaseLock"}
              THEN "drain" ELSE DrainStep(frame[p].pc)]
           = [p \in Threads |-> "out"]
    BY <2>1, <2>2, ZenonT(60)
  <2>. QED BY <2>3, ZenonT(60) DEF Drain!DrainInit, DispatchInit
<1>2. ThreadsInv /\ DebtCovers /\ [DispatchNext]_vars
        => [Drain!DrainNext]_(Drain!ovars)
  BY DispatchDrains
<1>. QED
  BY <1>1, <1>2, ThreadsInvariant, PTL DEF DispatchSpec, DrainRefined, Drain!Spec
=============================================================================
