--------------------------- MODULE QPMReservations ---------------------------
(***************************************************************************)
(* The life of the reservations of one QPM target, of the provider         *)
(* credentials bound to them and of the service as a whole:                *)
(* services/util/qpm/controller.py, with the callers of UTIL_QPM           *)
(* (services/util/qpm/util_qpm.py).                                        *)
(*                                                                         *)
(* QPMController follows the tasks of one reservation in detail. Here are  *)
(* several reservations that expire, are renewed, released and cancelled,  *)
(* and a task keeps only what a close looks at: its hold, its pending      *)
(* entry, and whether it is at its provider. An operation under one hold   *)
(* of the controller's lock is one action. The cleanup of credentials runs *)
(* after the lock is dropped, so it has steps of its own, by the caller    *)
(* that owes it.                                                           *)
(***************************************************************************)
EXTENDS Naturals, FiniteSets

CONSTANTS
    Reservations,   \* the ids the sequence hands out, 1..n
    QTasks,         \* the qtasks of all reservations
    Callers,        \* threads that serve RPCs
    Finalizer       \* the thread of _complete_service_shutdown

\* What the reservation sequence hands out is counted up from 1.
ASSUME ReservationIds == Reservations \subseteq Nat

VARIABLES
    ledger,       \* each reservation's state in the admission library
    lapsed,       \* reservations whose expires_at_ns has passed
    granted,      \* history: reservations a client was told it has
    bound,        \* history: the material bound to each reservation
    metadata,     \* reservation_metadata_by_id: its secret_material
    credential,   \* reservation_credentials_by_id: the record's kind
    cq,           \* completion_queues: none, open, terminal
    closing,      \* keys of reservation_close_state
    awaiting,     \* provider_cancel_pending of each close state
    cleanup,      \* credential_cleanup_queue
    taking,       \* what each thread swapped out of the queue
    owes,         \* threads that have yet to swap the queue
    released,     \* history: calls of provider.release for each reservation
    state,        \* runtime.state of each task, coarsely
    of,           \* reservation of each task, 0 before it names one
    holds,        \* capacity_holds
    pending,      \* pending_capacity
    inflight,     \* provider_inflight
    handle,       \* tasks with a provider_handle
    known,        \* runtime_by_qtask_id
    circuits,     \* self.circuits
    carried,      \* the credential each circuit carries
    service,      \* service_state
    paused,       \* scheduler_control paused or draining
    mode,         \* what is left of the shutdown request
    todo          \* snapshot of _cancel_active_runtime_tasks

ledgerVars == <<ledger, lapsed, granted, bound>>
bindVars == <<metadata, credential, cq>>
closeVars == <<closing, awaiting>>
cleanupVars == <<cleanup, taking, owes, released>>
workVars == <<state, of, holds, pending, inflight, handle, known, circuits,
              carried>>
serviceVars == <<service, paused, mode, todo>>

rvars == <<ledgerVars, bindVars, closeVars, cleanupVars, workVars,
           serviceVars>>

Ended == {"COMPLETED", "FAILED", "CANCELLED"}

Drainers == Callers \cup {Finalizer}

\* What a bound credential record holds. A fallback has no provider.
Materials == {"secret", "nosecret"}

ReservationInit ==
    /\ ledger = [r \in Reservations |-> "none"]
    /\ lapsed = {}
    /\ granted = {}
    /\ bound = [r \in Reservations |-> "none"]
    /\ metadata = [r \in Reservations |-> "none"]
    /\ credential = [r \in Reservations |-> "none"]
    /\ cq = [r \in Reservations |-> "none"]
    /\ closing = {}
    /\ awaiting = [r \in Reservations |-> {}]
    /\ cleanup = {}
    /\ taking = [c \in Drainers |-> {}]
    /\ owes = {}
    /\ released = [r \in Reservations |-> 0]
    /\ state = [t \in QTasks |-> "none"]
    /\ of = [t \in QTasks |-> 0]
    /\ holds = {}
    /\ pending = {}
    /\ inflight = {}
    /\ handle = {}
    /\ known = {}
    /\ circuits = {}
    /\ carried = [t \in QTasks |-> "none"]
    /\ service = "running"
    /\ paused = FALSE
    /\ mode = "none"
    /\ todo = {}

Set(f, S, v) == [x \in DOMAIN f |-> IF x \in S THEN v ELSE f[x]]

Free(c) == c \notin owes /\ taking[c] = {}

----------------------------------------------------------------------------
\* Time passes the expiry of an active reservation. The controller has no
\* timer of its own for it. A reservation without a limit is one that this
\* never happens to.
Lapse(r) ==
    /\ ledger[r] = "active"
    /\ r \notin lapsed
    /\ lapsed' = lapsed \cup {r}
    /\ UNCHANGED <<ledger, granted, bound, bindVars, closeVars, cleanupVars,
                   workVars, serviceVars>>

Lapsed(r) == ledger[r] = "active" /\ r \in lapsed

NextId == CHOOSE r \in Reservations :
    ledger[r] = "none" /\ \A q \in Reservations : q < r => ledger[q] # "none"

\* Seeded fault: reservations are granted while the service stops.
ReserveAlways == TRUE

\* reserve_admission's first check
AcceptsReservations == service = "running"

\* reserve_admission: the library accepts, the credential is bound.
ReserveAdmission(material) ==
    /\ AcceptsReservations
    /\ \E r \in Reservations : ledger[r] = "none"
    /\ LET r == NextId IN
       /\ ledger' = [ledger EXCEPT ![r] = "active"]
       /\ granted' = granted \cup {r}
       /\ bound' = [bound EXCEPT ![r] = material]
       /\ metadata' = [metadata EXCEPT ![r] = material]
       /\ credential' = [credential EXCEPT ![r] = material]
       /\ cq' = [cq EXCEPT ![r] = "open"]
    /\ UNCHANGED <<lapsed, closeVars, cleanupVars, workVars, serviceVars>>

\* _reject_credential_binding_reservation_locked: the provider refused the
\* binding of an accepted reservation. It is released in the library, or
\* cancelled; when both calls raise it stays active and nobody is told.
RejectBinding(outcome) ==
    /\ AcceptsReservations
    /\ \E r \in Reservations : ledger[r] = "none"
    /\ LET r == NextId IN
       /\ ledger' = [ledger EXCEPT ![r] = outcome]
       /\ bound' = [bound EXCEPT ![r] = "refused"]
    /\ UNCHANGED <<lapsed, granted, bindVars, closeVars, cleanupVars, workVars,
                   serviceVars>>

\* renew_admission asks the library alone, which moves the expiry of an
\* active reservation past the present.
RenewAdmission(r) ==
    /\ Lapsed(r)
    /\ lapsed' = lapsed \ {r}
    /\ UNCHANGED <<ledger, granted, bound, bindVars, closeVars, cleanupVars,
                   workVars, serviceVars>>

----------------------------------------------------------------------------
AtProvider(t) == t \in handle \cup inflight

\* Tasks a close of the reservations in R looks at.
Touched(R) == {t \in (pending \cup holds) \cap known : of[t] \in R}

\* Seeded fault: a task is over only once it is forgotten.
ResolvedWhenForgotten(t) == t \notin known

\* _provider_cancel_pending_resolved
Resolved(t) == t \notin holds' \cup inflight' /\ state'[t] \in Ended

\* The local half of a close: _remove_pending_for_reservation,
\* _reconcile_holds_for_reservation and _refresh_provider_cancel_pending for
\* every reservation of R. stopped are the tasks whose provider answers the
\* cancel with a terminal status, which it does for a run that is over. A
\* task with neither a hold nor a pending entry is not looked at.
CloseWork(R, stopped) ==
    LET kept == {t \in Touched(R) : AtProvider(t) /\ t \notin stopped}
        gone == Touched(R) \ kept
    IN
    /\ stopped \subseteq Touched(R) \cap handle
    /\ (Touched(R) \cap handle) \ inflight \subseteq stopped
    /\ closing' = closing \cup R
    /\ pending' = {t \in pending : of[t] \notin R}
    /\ holds' = holds \ gone
    /\ inflight' = inflight \ gone
    /\ circuits' = circuits \ {t \in gone : ~AtProvider(t)}
    /\ state' = Set(state, gone, "CANCELLED")
    /\ awaiting' = [r \in Reservations |->
           IF r \in R
           THEN {t \in awaiting[r] \cup {u \in kept : of[u] = r} :
                    ~Resolved(t)}
           ELSE awaiting[r]]
    /\ UNCHANGED <<of, handle, known, carried>>

Settled(R) == \A r \in R : awaiting'[r] = {}

\* _remove_provider_credential_locked, with an evictor installed
RemoveCredentials(R) ==
    /\ credential' = Set(credential, R, "none")
    /\ cleanup' = cleanup \cup {[rsv |-> r, rec |-> credential[r]] : r \in R}

\* The library moves the reservations of R to their end, and their metadata,
\* credential and completion queue follow.
EndLedger(R) ==
    /\ ledger' = Set(ledger, R, "over")
    /\ metadata' = Set(metadata, R, "none")
    /\ cq' = Set(cq, R, "terminal")
    /\ RemoveCredentials(R)

\* Seeded fault: the library is told before the work is accounted for.
CloseReservationEarly(r, stopped) ==
    /\ CloseWork({r}, stopped)
    /\ IF ledger[r] = "active"
       THEN EndLedger({r})
       ELSE UNCHANGED <<ledger, bindVars, cleanup>>

\* _close_reservation with the caller's part of release_admission and
\* cancel_admission: the close is marked whatever the library knows of the
\* reservation, and the library is told once no run is waited for. It
\* refuses unless the reservation is active.
CloseReservation(r, stopped) ==
    /\ CloseWork({r}, stopped)
    /\ IF Settled({r}) /\ ledger[r] = "active"
       THEN EndLedger({r})
       ELSE UNCHANGED <<ledger, bindVars, cleanup>>

\* Seeded fault: the sweep closes the reservation it was called for only,
\* while the library expires all that have lapsed.
CloseExpiredAlone(r, stopped) ==
    LET R == {q \in Reservations : Lapsed(q)} IN
    /\ CloseWork({r}, stopped)
    /\ IF Settled({r})
       THEN /\ ledger' = Set(ledger, R, "over")
            /\ metadata' = Set(metadata, {r}, "none")
            /\ cq' = Set(cq, {r}, "terminal")
            /\ RemoveCredentials({r})
       ELSE UNCHANGED <<ledger, bindVars, cleanup>>

\* _close_expired_reservations, called for a lapsed reservation r: every
\* lapsed reservation is closed, and the library expires them only when none
\* of them waits for a run.
CloseExpired(r, stopped) ==
    LET R == {q \in Reservations : Lapsed(q)} IN
    /\ CloseWork(R, stopped)
    /\ IF Settled(R)
       THEN EndLedger(R)
       ELSE UNCHANGED <<ledger, bindVars, cleanup>>

\* Seeded fault: the cleanup is left to the next caller.
ReleaseUndrained(c, r) ==
    /\ Free(c)
    /\ \E stopped \in SUBSET handle : CloseReservation(r, stopped)
    /\ UNCHANGED <<lapsed, granted, bound, owes, taking, released,
                   serviceVars>>

\* release_admission and cancel_admission, for any id a client names.
ReleaseAdmission(c, r) ==
    /\ Free(c)
    /\ \E stopped \in SUBSET handle : CloseReservation(r, stopped)
    /\ owes' = owes \cup {c}
    /\ UNCHANGED <<lapsed, granted, bound, taking, released,
                   serviceVars>>

----------------------------------------------------------------------------
\* _require_reservation_not_expired finds reservation r lapsed: it closes
\* what has lapsed and raises. No completion record is delivered.
FindExpired(c, r) ==
    /\ Free(c)
    /\ Lapsed(r)
    /\ \E stopped \in SUBSET handle : CloseExpired(r, stopped)
    /\ owes' = owes \cup {c}
    /\ UNCHANGED <<lapsed, granted, bound, taking, released,
                   serviceVars>>

\* validate_reservation_for_context, called by require_managed_execution for
\* a new task. A closing reservation is refused before its expiry is looked
\* at.
ValidateReservation(c, t, r) ==
    /\ state[t] = "none"
    /\ service = "running"
    /\ r \notin closing
    /\ \/ FindExpired(c, r)
       \/ /\ ledger[r] = "active"
          /\ ~Lapsed(r)
          /\ state' = [state EXCEPT ![t] = "validated"]
          /\ of' = [of EXCEPT ![t] = r]
          /\ UNCHANGED <<holds, pending, inflight, handle, known, circuits,
                         carried, ledgerVars, bindVars, closeVars,
                         cleanupVars, serviceVars>>

\* Seeded fault: a missing secret is replaced by an empty one.
MayFallBackAlways(r) == credential[r] = "none"

\* _fallback_provider_credential_locked raises when the metadata says that a
\* secret was cached here.
MayFallBack(r) == credential[r] = "none" /\ metadata[r] # "secret"

\* The record provider_credential_for_reservation returns, made on the spot
\* when there is none and none is needed.
HandOut(r) ==
    /\ ledger[r] = "active"
    /\ ~Lapsed(r)
    /\ \/ credential[r] # "none" /\ UNCHANGED credential
       \/ MayFallBack(r) /\ credential' = [credential EXCEPT ![r] = "fallback"]

\* provider_credential_for_reservation, second half of
\* require_managed_execution. An error sends the caller away.
CheckCredential(c, t) ==
    /\ state[t] = "validated"
    /\ \/ FindExpired(c, of[t])
       \/ /\ HandOut(of[t])
          /\ state' = [state EXCEPT ![t] = "checked"]
          /\ UNCHANGED <<of, holds, pending, inflight, handle, known,
                         circuits, carried, ledgerVars, metadata, cq,
                         closeVars, cleanupVars, serviceVars>>

TurnAway(t) ==
    /\ state[t] = "validated"
    /\ ledger[of[t]] # "active" \/ metadata[of[t]] = "secret"
    /\ credential[of[t]] = "none"
    /\ state' = [state EXCEPT ![t] = "none"]
    /\ UNCHANGED <<of, holds, pending, inflight, handle, known, circuits,
                   carried, ledgerVars, bindVars, closeVars, cleanupVars,
                   serviceVars>>

\* create_circuit; nothing is looked at again.
CreateCircuit(t) ==
    /\ state[t] = "checked"
    /\ state' = [state EXCEPT ![t] = "CREATED"]
    /\ known' = known \cup {t}
    /\ circuits' = circuits \cup {t}
    /\ UNCHANGED <<of, holds, pending, inflight, handle, carried, ledgerVars,
                   bindVars, closeVars, cleanupVars, serviceVars>>

\* What the library may answer about usage: no reservation but an active one
\* has any.
Answers(r) ==
    IF ledger[r] = "active" THEN {"accepted", "delayed", "rejected"}
    ELSE {"rejected"}

UsageAnswer(t, answer, delayed) ==
    /\ answer \in Answers(of[t])
    /\ holds' = IF answer = "accepted" THEN holds \cup {t} ELSE holds
    /\ state' = [state EXCEPT ![t] =
           CASE answer = "accepted" -> "HELD"
             [] answer = "delayed" -> delayed
             [] answer = "rejected" -> "FAILED"]
    /\ UNCHANGED <<of, inflight, handle, known, circuits, carried,
                   ledgerVars, bindVars, closeVars, cleanupVars,
                   serviceVars>>

\* authorize_capacity_hold looks at the task and asks the library; the close
\* state is not consulted, and a pending entry stays when a hold is granted.
AuthorizeCapacityHold(t, answer) ==
    /\ t \in known \ holds
    /\ state[t] \in {"CREATED", "PENDING"}
    /\ UsageAnswer(t, answer, "PENDING")
    /\ pending' = IF answer = "delayed" THEN pending \cup {t} ELSE pending

\* retry_pending_capacity, one entry of its loop: rejected when the
\* reservation closes or is over, else asked again. A lapsed reservation is
\* closed first, which takes the entry and its task with it.
RetryPendingCapacity(c, t, answer) ==
    /\ t \in pending
    /\ \/ of[t] \notin closing /\ FindExpired(c, of[t])
       \/ /\ t \in known
          /\ of[t] \notin closing
          /\ ledger[of[t]] = "active"
          /\ ~Lapsed(of[t])
          /\ UsageAnswer(t, answer, state[t])
          /\ pending' = IF answer = "delayed" THEN pending ELSE pending \ {t}
       \/ /\ t \notin known \/ of[t] \in closing \/ ledger[of[t]] # "active"
          /\ pending' = pending \ {t}
          /\ state' = IF state[t] \in Ended THEN state
                      ELSE [state EXCEPT ![t] = "FAILED"]
          /\ UNCHANGED <<of, holds, inflight, handle, known, circuits,
                         carried, ledgerVars, bindVars, closeVars,
                         cleanupVars, serviceVars>>

\* submit_qtask_to_scheduler and select_qtask_for_dispatch up to
\* _consume_for_dispatch: the scheduler selects while it is not paused.
SelectTask(t) ==
    /\ state[t] = "HELD"
    /\ t \in known \cap circuits
    /\ carried[t] = "none"
    /\ ~paused
    /\ state' = [state EXCEPT ![t] = "SELECTED"]
    /\ UNCHANGED <<of, holds, pending, inflight, handle, known, circuits,
                   carried, ledgerVars, bindVars, closeVars, cleanupVars,
                   serviceVars>>

\* attach_provider_credential copies the secret into the circuit.
AttachCredential(c, t) ==
    /\ state[t] = "SELECTED"
    /\ \/ FindExpired(c, of[t])
       \/ /\ carried[t] = "none"
          /\ HandOut(of[t])
          /\ carried' = [carried EXCEPT ![t] = credential'[of[t]]]
          /\ UNCHANGED <<state, of, holds, pending, inflight, handle, known,
                         circuits, ledgerVars, metadata, cq, closeVars,
                         cleanupVars, serviceVars>>

\* Seeded fault: the start does not look at what became of the task.
MayStartEnded(t) == carried[t] # "none" /\ t \notin inflight

\* start_provider_submission raises for a task that has ended.
MayStart(t) == carried[t] # "none" /\ state[t] = "SELECTED"

StartSubmission(t) ==
    /\ MayStart(t)
    /\ t \in known
    /\ inflight' = inflight \cup {t}
    /\ state' = [state EXCEPT ![t] = "SUBMITTED"]
    /\ UNCHANGED <<of, holds, pending, handle, known, circuits, carried,
                   ledgerVars, bindVars, closeVars, cleanupVars,
                   serviceVars>>

\* bind_provider_handle
BindHandle(t) ==
    /\ t \in inflight \ handle
    /\ handle' = handle \cup {t}
    /\ UNCHANGED <<state, of, holds, pending, inflight, known, circuits,
                   carried, ledgerVars, bindVars, closeVars, cleanupVars,
                   serviceVars>>

\* complete_scheduled_task and fail_scheduled_task: from the provider, or by
\* the dispatcher before the provider has the task.
FinishTask(t, outcome) ==
    /\ state[t] \notin Ended
    /\ \/ t \in inflight
       \/ outcome = "FAILED" /\ state[t] \in {"HELD", "SELECTED"}
    /\ holds' = holds \ {t}
    /\ inflight' = inflight \ {t}
    /\ state' = [state EXCEPT ![t] = outcome]
    /\ UNCHANGED <<of, pending, handle, known, circuits, carried, ledgerVars,
                   bindVars, closeVars, cleanupVars, serviceVars>>

\* reconcile_runtime_state: an entry or a hold whose reservation is over is
\* dropped, and an ended task whose circuit is gone is forgotten. A hold
\* dropped here gives no usage back.
ReconcileRuntimeState ==
    LET stale == {t \in holds : ledger[of[t]] # "active" /\ ~AtProvider(t)}
        gone == {t \in known \ circuits :
                    t \in pending \/ Set(state, stale, "FAILED")[t] \in Ended}
    IN
    /\ gone # {}
    /\ holds' = holds \ (stale \cup gone)
    /\ state' = Set(state, stale, "FAILED")
    /\ inflight' = inflight \ (stale \cup gone)
    /\ known' = known \ gone
    /\ pending' = {t \in pending : t \in known'}
    /\ handle' = handle \ gone
    /\ UNCHANGED <<of, circuits, carried, ledgerVars, bindVars, closeVars,
                   cleanupVars, serviceVars>>

----------------------------------------------------------------------------
\* Seeded fault: the queue is read and not emptied.
SwapKeeping(c) == taking' = [taking EXCEPT ![c] = cleanup] /\ UNCHANGED cleanup

\* _drain_provider_credential_cleanup under the lock: the queue is swapped
\* for an empty one.
SwapQueue(c) ==
    /\ taking' = [taking EXCEPT ![c] = cleanup]
    /\ cleanup' = {}

TakeCleanup(c) ==
    /\ c \in owes
    /\ owes' = owes \ {c}
    /\ SwapQueue(c)
    /\ UNCHANGED <<released, ledgerVars, bindVars, closeVars, workVars,
                   serviceVars>>

\* The rest of the drain, without the lock, one record at a time. An error of
\* the provider's release is recorded and the drain goes on.
CleanOne(c, e) ==
    /\ e \in taking[c]
    /\ taking' = [taking EXCEPT ![c] = @ \ {e}]
    /\ released' = IF e.rec \in Materials
                   THEN [released EXCEPT ![e.rsv] = IF @ < 2 THEN @ + 1 ELSE 2]
                   ELSE released
    /\ UNCHANGED <<cleanup, owes, ledgerVars, bindVars, closeVars, workVars,
                   serviceVars>>

----------------------------------------------------------------------------
\* resume_scheduler looks at nothing, a shutdown under way included. A pause
\* before a shutdown only holds SelectTask back and is left out.
ResumeScheduler ==
    /\ paused
    /\ paused' = FALSE
    /\ UNCHANGED <<ledgerVars, bindVars, closeVars, cleanupVars, workVars,
                   service, mode, todo>>

\* shutdown with begin_service_shutdown, which answers a second request with
\* the first. "timed" is a graceful shutdown with a timeout.
BeginShutdown(how) ==
    /\ mode = "none"
    /\ service' = IF how = "cancel" THEN "quiescing" ELSE "draining"
    /\ paused' = TRUE
    /\ mode' = how
    /\ UNCHANGED <<ledgerVars, bindVars, closeVars, cleanupVars, workVars,
                   todo>>

ActiveTasks == {t \in known : state[t] \notin Ended}

\* Seeded fault: the deadline is not looked at.
EndGraceWaiting ==
    /\ service \in {"draining", "quiescing"}
    /\ mode = "cancel" \/ ActiveTasks = {}
    /\ mode' = "cancelling"
    /\ todo' = ActiveTasks
    /\ UNCHANGED <<ledgerVars, bindVars, closeVars, cleanupVars, workVars,
                   service, paused>>

\* _complete_service_shutdown waits for the tasks, or for the deadline, or
\* for nothing, and then takes the snapshot it cancels.
EndGrace ==
    /\ service \in {"draining", "quiescing"}
    /\ mode \in {"timed", "cancel"} \/ ActiveTasks = {}
    /\ mode' = "cancelling"
    /\ todo' = ActiveTasks
    /\ UNCHANGED <<ledgerVars, bindVars, closeVars, cleanupVars, workVars,
                   service, paused>>

\* controller.cancel_task for one task of the snapshot: refused while its
\* provider runs on.
CancelActive(t) ==
    /\ mode = "cancelling"
    /\ t \in todo
    /\ todo' = todo \ {t}
    /\ \/ /\ t \in known
          /\ state[t] \notin Ended
          /\ AtProvider(t) => t \in handle
          /\ pending' = pending \ {t}
          /\ holds' = holds \ {t}
          /\ inflight' = inflight \ {t}
          /\ state' = [state EXCEPT ![t] = "CANCELLED"]
          /\ UNCHANGED <<of, handle, known, circuits, carried>>
       \/ /\ t \notin known \/ state[t] \in Ended \/ AtProvider(t)
          /\ UNCHANGED workVars
    /\ UNCHANGED <<ledgerVars, bindVars, closeVars, cleanupVars, service,
                   paused, mode>>

\* set_service_state("stopping") and clear_provider_credentials
ClearCredentials ==
    /\ mode = "cancelling"
    /\ todo = {}
    /\ service' = "stopping"
    /\ mode' = "clearing"
    /\ RemoveCredentials({r \in Reservations : credential[r] # "none"})
    /\ owes' = owes \cup {Finalizer}
    /\ UNCHANGED <<ledgerVars, metadata, cq, closeVars, taking, released,
                   workVars, paused, todo>>

\* The QRC is shut down, the service is stopped, and the process exits with
\* whatever other threads have in hand.
StopService ==
    /\ mode = "clearing"
    /\ Free(Finalizer)
    /\ service' = "stopped"
    /\ mode' = "done"
    /\ UNCHANGED <<ledgerVars, bindVars, closeVars, cleanupVars, workVars,
                   paused, todo>>

TaskStep(t) ==
    \/ \E c \in Callers, r \in Reservations : ValidateReservation(c, t, r)
    \/ \E c \in Callers : CheckCredential(c, t)
    \/ TurnAway(t)
    \/ CreateCircuit(t)
    \/ \E a \in {"accepted", "delayed", "rejected"} :
          \/ AuthorizeCapacityHold(t, a)
          \/ \E c \in Callers : RetryPendingCapacity(c, t, a)
    \/ SelectTask(t)
    \/ \E c \in Callers : AttachCredential(c, t)
    \/ StartSubmission(t)
    \/ BindHandle(t)
    \/ \E outcome \in {"COMPLETED", "FAILED"} : FinishTask(t, outcome)

Shutdown ==
    \/ \E how \in {"graceful", "timed", "cancel"} : BeginShutdown(how)
    \/ EndGrace
    \/ \E t \in QTasks : CancelActive(t)
    \/ ClearCredentials
    \/ StopService

ReservationNext ==
    /\ service # "stopped"
    /\ \/ \E r \in Reservations : Lapse(r) \/ RenewAdmission(r)
       \/ \E m \in Materials : ReserveAdmission(m)
       \/ \E out \in {"over", "active"} : RejectBinding(out)
       \/ \E c \in Callers, r \in Reservations : ReleaseAdmission(c, r)
       \/ \E t \in QTasks : TaskStep(t)
       \/ ReconcileRuntimeState
       \/ \E c \in Drainers : TakeCleanup(c)
       \/ \E c \in Drainers : \E e \in taking[c] : CleanOne(c, e)
       \/ ResumeScheduler
       \/ Shutdown

ReservationSpec == ReservationInit /\ [][ReservationNext]_rvars

\* A thread in the middle of a call goes on; a provider ends what it runs; a
\* client that was told its release is pending, or whose reservation stays
\* closing, releases again; and the finalizer goes on. Nobody is obliged to
\* reserve, to submit or to resume.
ReservationFairness ==
    /\ \A c \in Drainers :
        /\ WF_rvars(service # "stopped" /\ TakeCleanup(c))
        /\ WF_rvars(service # "stopped" /\ \E e \in taking[c] : CleanOne(c, e))
    /\ \A r \in Reservations :
        SF_rvars(service # "stopped" /\ r \in closing
                   /\ \E c \in Callers : ReleaseAdmission(c, r))
    /\ \A t \in QTasks :
        WF_rvars(service # "stopped" /\ FinishTask(t, "COMPLETED"))
    /\ WF_rvars(service # "stopped" /\ EndGrace)
    /\ WF_rvars(service # "stopped" /\ \E t \in QTasks : CancelActive(t))
    /\ WF_rvars(service # "stopped" /\ ClearCredentials)
    /\ WF_rvars(service # "stopped" /\ StopService)

FairReservations == ReservationSpec /\ ReservationFairness

----------------------------------------------------------------------------
\* The close protocol's order (docs/design/qfw.md:1612): a reservation ends
\* in the library only when none of its tasks holds usage, so every hold is
\* accounted for while the library still takes the account. It spans the
\* sweep of several lapsed reservations, and it is why the branch of
\* reconcile_runtime_state that drops a hold unaccounted is never needed.
AccountedWhileActive == \A t \in holds : ledger[of[t]] = "active"

\* A secret is given back to its provider (_drain_provider_credential_cleanup)
\* only when no task that carries it can still be at the provider, short of a
\* shutdown that stops waiting for the provider.
CredentialOutlivesUse ==
    \A t \in inflight :
        released[of[t]] > 0 => mode \in {"clearing", "done"}

\* Whichever threads release, expire, drain and shut down at once, a
\* credential is given back at most once.
ReleasedOnce == \A r \in Reservations : released[r] <= 1

\* A reservation a client was granted leaves nothing behind when it ends: no
\* metadata, no credential, and a completion queue the purge may take.
EndedLeavesNothing ==
    \A r \in granted : ledger[r] = "over" =>
        metadata[r] = "none" /\ credential[r] = "none" /\ cq[r] = "terminal"

\* A task of a reservation that was bound to a secret never runs with the
\* empty fallback credential, whatever has been cleaned up meanwhile.
NoDowngrade ==
    \A t \in QTasks :
        carried[t] = "fallback" => bound[of[t]] # "secret"

\* Once the finalizer has let go, no secret is left in the process's map: a
\* reservation is not granted between the start of a shutdown and the clear.
StoppedHoldsNoSecret ==
    service = "stopped" => \A r \in Reservations : credential[r] \notin Materials

\* A secret serves its reservation's tasks while they may run, is given back
\* once, and is nowhere afterwards.
CredentialsSound ==
    /\ CredentialOutlivesUse /\ ReleasedOnce /\ EndedLeavesNothing
    /\ NoDowngrade /\ StoppedHoldsNoSecret

\* A credential whose reservation has ended is given back, by the caller that
\* ended it or by one that drained the queue first, unless the process exits.
CredentialGivenBack ==
    \A r \in Reservations :
        []<>(r \in granted /\ ledger[r] = "over" =>
                released[r] = 1 \/ service = "stopped")

\* A close that had to wait for a provider is finished by the client's next
\* release: a reservation does not stay closing while the library counts it
\* as active.
ClosingEnds ==
    \A r \in Reservations :
        []<>(r \in closing => ledger[r] # "active" \/ service = "stopped")

\* What ended is cleaned up without a further request than the client's.
CleanupEnds ==
    CredentialGivenBack /\ ClosingEnds

\* A shutdown with a timeout, or one that cancels, stops the service whatever
\* the tasks and their provider do.
ForcedShutdownEnds ==
    []<>(mode \notin {"none", "graceful"} => service = "stopped")
=============================================================================
