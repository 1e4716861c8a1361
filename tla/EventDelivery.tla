--------------------------- MODULE EventDelivery ---------------------------
(***************************************************************************)
(* From a provider's thread to the clients that asked to be told: the QRC  *)
(* of the IQM services (services/svc_iqm_qpm/svc_qrc.py, its fake in       *)
(* services/svc_fake_iqm_qpm/svc_qrc.py), and the event registrations of   *)
(* the controller (services/util/qpm/controller.py, util_qpm.py).          *)
(*                                                                         *)
(* A finished thread frees the task's resources, makes an event of the type*)
(* that the QRC was last told, and hands it to the controller.  The        *)
(* controller records the completion and chooses the matching              *)
(* registrations under its lock, and calls their endpoints outside it.  A  *)
(* result that the controller does not take stays with the QRC.            *)
(***************************************************************************)
EXTENDS Naturals, FiniteSets

CONSTANTS
    EvTasks,       \* the circuits
    TaskReservation, \* task |-> reservation, or NoReservation
    Registrations, \* what clients ask for: [id, client, evtype, reservation, only]
    NoReservation

VARIABLES
    provider,  \* "fake" or "native"
    thread,    \* task |-> where its thread, or the canceller's, is
    stop,      \* tasks whose cancel_event is set
    qrcTasks,  \* the fake's _tasks
    kept,      \* results with the QRC: _results, circuit_results
    outcome,   \* task |-> "none", "done" or "failed"
    etype,     \* task |-> the type of its event
    uncalled,  \* task |-> matches still to be called
    stale,     \* task |-> registrations whose put failed
    endpoints, \* event_endpoints
    regpc,     \* registration |-> how far its call got
    qrcType,   \* push_info["evtype"] in the QRC
    ctlType,   \* push_info["evtype"] in the controller
    alive,     \* clients whose endpoint answers
    recorded,  \* tasks whose completion the controller recorded
    delivered, \* <<task, registration>> whose put returned
    owed       \* task |-> registrations that had returned when its event was made

threadvars == <<thread, stop, qrcTasks, kept, outcome, etype, recorded>>
sendvars == <<uncalled, stale, delivered, owed>>
regvars == <<endpoints, regpc, qrcType, ctlType>>
evvars == <<provider, threadvars, sendvars, regvars, alive>>

EventsInit ==
    /\ provider \in {"fake", "native"}
    /\ thread = [t \in EvTasks |-> "new"]
    /\ stop = {} /\ qrcTasks = {} /\ kept = {} /\ recorded = {}
    /\ outcome = [t \in EvTasks |-> "none"]
    /\ etype = [t \in EvTasks |-> "completion"]
    /\ uncalled = [t \in EvTasks |-> {}] /\ stale = [t \in EvTasks |-> {}]
    /\ owed = [t \in EvTasks |-> {}] /\ delivered = {}
    /\ endpoints = {} /\ regpc = [r \in Registrations |-> "new"]
    \* _ensure_qrc_event_dispatcher("completion") of the constructor
    /\ qrcType = "completion" /\ ctlType = "completion"
    /\ alive = {r.client : r \in Registrations}

ThreadAt(t, from, to) ==
    thread[t] = from /\ thread' = [thread EXCEPT ![t] = to]

----------------------------------------------------------------------------
\* The provider's threads.

StartThread(t) ==
    /\ ThreadAt(t, "new", "running")
    /\ qrcTasks' = IF provider = "fake" THEN qrcTasks \cup {t} ELSE qrcTasks
    /\ UNCHANGED <<provider, stop, kept, outcome, etype, recorded, sendvars, regvars, alive>>

\* The fake sleeps until its time is up or the event is set; the native run
\* ends with a result or with the error it caught.
EndsWith(t) ==
    IF provider = "native" THEN {"done", "failed"}
    ELSE IF t \in stop THEN {"failed"} ELSE {"done"}

Execute(t) ==
    /\ ThreadAt(t, "running", IF provider = "fake" THEN "storing" ELSE "freeing")
    /\ \E o \in EndsWith(t) : outcome' = [outcome EXCEPT ![t] = o]
    /\ UNCHANGED <<provider, stop, qrcTasks, kept, etype, recorded, sendvars, regvars, alive>>

StoreResult(t) ==
    /\ ThreadAt(t, "storing", "freeing")
    /\ kept' = kept \cup {t}
    /\ UNCHANGED <<provider, stop, qrcTasks, outcome, etype, recorded, sendvars, regvars, alive>>

FreeResources(t) ==
    /\ ThreadAt(t, "freeing", "pushing")
    /\ UNCHANGED <<provider, stop, qrcTasks, kept, outcome, etype, recorded, sendvars, regvars, alive>>

\* free_resources raises: the fake's finally forgets the task and its result
\* stays stored, the native thread ends before it pushes.
FreeRaises(t) ==
    /\ ThreadAt(t, "freeing", "dead")
    /\ qrcTasks' = qrcTasks \ {t}
    /\ UNCHANGED <<provider, stop, kept, outcome, etype, recorded, sendvars, regvars, alive>>

Wants(r, t) ==
    /\ r.reservation \in {NoReservation, TaskReservation[t]}
    /\ t \in r.only

MakeEvent(t) ==
    /\ ThreadAt(t, "pushing", "calling")
    /\ etype' = [etype EXCEPT ![t] = qrcType]
    /\ owed' = [owed EXCEPT ![t] = {r \in endpoints : regpc[r] = "done" /\ Wants(r, t)}]
    /\ UNCHANGED <<provider, stop, qrcTasks, kept, outcome, recorded, uncalled, stale, delivered, regvars, alive>>

----------------------------------------------------------------------------
\* The controller.

MatchesOf(t, type) == {r \in endpoints : r.evtype = type /\ Wants(r, t)}

\* A delivery that ended inside the pushing thread goes back to the QRC, which
\* drops what it stored; the one of a cancellation returns to its caller.
AfterDispatch(t) ==
    IF outcome[t] = "none" \/ provider = "native" THEN "over" ELSE "popping"

NextSend(t, ms) == IF ms # {} THEN "sending" ELSE AfterDispatch(t)

\* publish_completion answers False for a task without a reservation.
PublishRefused(t) ==
    /\ TaskReservation[t] = NoReservation
    /\ ThreadAt(t, "calling", IF provider = "fake" THEN "popping" ELSE "over")
    /\ kept' = kept \cup {t}
    /\ UNCHANGED <<provider, stop, qrcTasks, outcome, etype, recorded, sendvars, regvars, alive>>

PublishEvent(t) ==
    /\ TaskReservation[t] # NoReservation
    /\ ThreadAt(t, "calling", NextSend(t, MatchesOf(t, etype[t])))
    /\ recorded' = recorded \cup {t}
    /\ uncalled' = [uncalled EXCEPT ![t] = MatchesOf(t, etype[t])]
    /\ UNCHANGED <<provider, stop, qrcTasks, kept, outcome, etype, stale, delivered, owed, regvars, alive>>

\* A task that never started is ended by the controller itself: the delivery
\* takes the controller's own event type.
EndQueued(t) ==
    /\ TaskReservation[t] # NoReservation
    /\ ThreadAt(t, "new", NextSend(t, MatchesOf(t, ctlType)))
    /\ recorded' = recorded \cup {t}
    /\ uncalled' = [uncalled EXCEPT ![t] = MatchesOf(t, ctlType)]
    /\ UNCHANGED <<provider, stop, qrcTasks, kept, outcome, etype, stale, delivered, owed, regvars, alive>>

\* _dispatch_completion_deliveries: one put after the other, in any order, a
\* failing endpoint remembered; the remembered ones are pruned at the end.
AfterPutStopping(t, rest, failed) ==
    IF failed # {} THEN "pruning" ELSE IF rest # {} THEN "sending" ELSE AfterDispatch(t)

AfterPut(t, rest, failed) ==
    IF rest # {} THEN "sending" ELSE IF failed # {} THEN "pruning" ELSE AfterDispatch(t)

Answers(r) == r.client \in alive

SendOne(t) ==
    \E r \in uncalled[t] :
        LET failed == IF Answers(r) THEN stale[t] ELSE stale[t] \cup {r}
        IN /\ ThreadAt(t, "sending", AfterPut(t, uncalled[t] \ {r}, failed))
           /\ uncalled' = [uncalled EXCEPT ![t] = @ \ {r}]
           /\ stale' = [stale EXCEPT ![t] = failed]
           /\ delivered' = IF Answers(r) THEN delivered \cup {<<t, r>>} ELSE delivered
           /\ UNCHANGED <<provider, stop, qrcTasks, kept, outcome, etype, recorded,
                          owed, regvars, alive>>

\* By registration_id, never by client: a client may hold several.
PruneStale(t) ==
    /\ ThreadAt(t, "pruning", AfterDispatch(t))
    /\ endpoints' = endpoints \ stale[t]
    /\ UNCHANGED <<provider, stop, qrcTasks, kept, outcome, etype, recorded, sendvars,
                   regpc, qrcType, ctlType, alive>>

\* Back in the QRC: the fake drops the stored result, by cid, unless it was
\* refused, and forgets the task.
KeptStale(t) == kept

KeptAfterPush(t) == IF t \in recorded THEN kept \ {t} ELSE kept

PopTask(t) ==
    /\ ThreadAt(t, "popping", "over")
    /\ kept' = KeptAfterPush(t)
    /\ qrcTasks' = qrcTasks \ {t}
    /\ UNCHANGED <<provider, stop, outcome, etype, recorded, sendvars, regvars, alive>>

\* QRC.cancel of the fake; QRC.shutdown sets every event.
CancelRunning(ts) ==
    /\ provider = "fake" /\ ts # {} /\ ts \subseteq qrcTasks
    /\ Cardinality(ts) = 1 \/ ts = qrcTasks
    /\ stop' = stop \cup ts
    /\ UNCHANGED <<provider, thread, qrcTasks, kept, outcome, etype, recorded, sendvars,
                   regvars, alive>>

----------------------------------------------------------------------------
\* The clients.  register_event_notification takes the controller's lock
\* twice, and tells the QRC after it let go of it.

Register(r) ==
    /\ regpc[r] = "new"
    /\ endpoints' = endpoints \cup {r}
    /\ regpc' = [regpc EXCEPT ![r] = "listed"]
    /\ UNCHANGED <<provider, threadvars, sendvars, qrcType, ctlType, alive>>

SetType(r) ==
    /\ regpc[r] = "listed"
    /\ ctlType' = r.evtype
    /\ regpc' = [regpc EXCEPT ![r] = "typed"]
    /\ UNCHANGED <<provider, threadvars, sendvars, endpoints, qrcType, alive>>

TellQrc(r) ==
    /\ regpc[r] = "typed"
    /\ qrcType' = r.evtype
    /\ regpc' = [regpc EXCEPT ![r] = "done"]
    /\ UNCHANGED <<provider, threadvars, sendvars, endpoints, ctlType, alive>>

Unregister(r) ==
    /\ regpc[r] = "done" /\ r \in endpoints
    /\ endpoints' = endpoints \ {r}
    /\ regpc' = [regpc EXCEPT ![r] = "gone"]
    /\ UNCHANGED <<provider, threadvars, sendvars, qrcType, ctlType, alive>>

EndpointFails(c) ==
    /\ c \in alive
    /\ alive' = alive \ {c}
    /\ UNCHANGED <<provider, threadvars, sendvars, regvars>>

EventsNext ==
    \/ \E t \in EvTasks :
          \/ StartThread(t) \/ Execute(t) \/ StoreResult(t) \/ FreeResources(t)
          \/ FreeRaises(t) \/ MakeEvent(t) \/ PublishRefused(t) \/ PublishEvent(t)
          \/ EndQueued(t) \/ SendOne(t) \/ PruneStale(t) \/ PopTask(t)
    \/ \E ts \in SUBSET EvTasks : CancelRunning(ts)
    \/ \E r \in Registrations : Register(r) \/ SetType(r) \/ TellQrc(r) \/ Unregister(r)
    \/ \E c \in alive : EndpointFails(c)

EventsSpec == EventsInit /\ [][EventsNext]_evvars

----------------------------------------------------------------------------
\* A client whose registration had returned when the result was pushed, that
\* did not leave and whose endpoint answers, is told of the result once the
\* thread is over: neither another client's dead endpoint nor its pruning, nor
\* another registration under way, keeps the event from it.
\* (_dispatch_completion_deliveries goes on after a failing put.)
RegisteredIsTold ==
    \A t \in recorded : thread[t] = "over" =>
        \A r \in owed[t] : Answers(r) /\ r \in endpoints => <<t, r>> \in delivered

\* A thread that got past free_resources leaves its result in exactly one
\* place: recorded by the controller, or kept by the QRC.  The fake stores
\* first and removes later, the native QRC stores only what was refused.
ResultInOnePlace ==
    \A t \in EvTasks : thread[t] = "over" => (t \in recorded) # (t \in kept)

\* A result is kept once, and reaches those who wait for it.
ResultsReachOnce ==
    RegisteredIsTold /\ ResultInOnePlace
============================================================================
