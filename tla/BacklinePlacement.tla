-------------------------- MODULE BacklinePlacement --------------------------
(***************************************************************************)
(* The Backline QPM (services/svc_backline_qpm: svc_qpm.py, executors.py;  *)
(* matcher.py, which it calls as Match, is BacklineMatcher's subject).  It *)
(* grants a reservation a placement, a controller and                      *)
(* coprocessors of the site's inventory that no other reservation holds,   *)
(* and runs one executor process for it.  The placement lock is held from  *)
(* the match to the start of the executor; release, cancel, renewal and    *)
(* the clock do not take it.  The admission core behind reserve and        *)
(* release is QPMReservations' subject; here it accepts or rejects.        *)
(***************************************************************************)
EXTENDS Naturals, FiniteSets, Sequences

CONSTANTS
    Controllers,    \* inventory: sequence of [id, hardware, transports]
    Coprocessors,   \* inventory: sequence of [id, hardware, transports]
    Intents,        \* resource intents: [code, kind, transport, limit, wanted]
    Match(_, _),    \* the matcher: an intent and what is busy |-> placement
    Requesters,     \* threads that serve reserve and release
    MaxGrants,      \* bound: reservations
    MaxStarts,      \* bound: executor processes
    Unstated        \* a field the intent, or a measurement, leaves open

VARIABLES
    admitted,   \* reservation |-> "none", "active" or "closed", in the core
    overdue,    \* reservations whose deadline has passed
    placements, \* reservation |-> placement, or Nowhere
    executors,  \* reservation |-> its executor process, 0 for none
    running,    \* executor processes that run
    live,       \* the executors module's _live
    starts,     \* processes started so far
    bpc,        \* requester |-> step
    work,       \* requester |-> [r, placement, direct, process]
    lockedBy,   \* requesters that hold the placement lock
    serving     \* "running", "draining", "stopping", "exited"

blvars == <<admitted, overdue, placements, executors, running, live,
            starts, bpc, work, lockedBy, serving>>

Grants == 1 .. MaxGrants
Nowhere == [controller |-> Unstated, coprocessors |-> <<>>, transport |-> Unstated, code |-> Unstated]
NoWork == [r |-> 0, placement |-> Nowhere, direct |-> FALSE, process |-> 0]
Rejected == [Nowhere EXCEPT !.code = "rejected"]

BacklineInit ==
    /\ admitted = [r \in Grants |-> "none"]
    /\ overdue = {}
    /\ placements = [r \in Grants |-> Nowhere]
    /\ executors = [r \in Grants |-> 0]
    /\ running = {} /\ live = {} /\ starts = 0
    /\ bpc = [q \in Requesters |-> "idle"]
    /\ work = [q \in Requesters |-> NoWork]
    /\ lockedBy = {}
    /\ serving = "running"

-----------------------------------------------------------------------------
\* the inventory entries of a placement
Entries(p) ==
    IF p \in {Nowhere, Rejected} THEN {}
    ELSE {Controllers[p.controller].id}
           \cup {Coprocessors[p.coprocessors[i][1]].id : i \in DOMAIN p.coprocessors}

\* One transport that the controller and each coprocessor of a placement have,
\* and nothing in it twice.
Connected(p) ==
    /\ p.transport \in Controllers[p.controller].transports
    /\ \A i \in DOMAIN p.coprocessors :
          p.transport \in Coprocessors[p.coprocessors[i][1]].transports
    /\ Cardinality(Entries(p)) = 1 + Len(p.coprocessors)

Inventory ==
    {Controllers[i].id : i \in DOMAIN Controllers}
        \cup {Coprocessors[i].id : i \in DOMAIN Coprocessors}

\* What match promises its caller, for every intent and whatever is busy: a
\* connected placement that takes none of the busy entries.
ASSUME MatchAssumption ==
    \A intent \in Intents : \A busy \in SUBSET Inventory :
        LET p == Match(intent, busy) IN
        p # Rejected => Entries(p) \subseteq Inventory \ busy /\ Connected(p)

-----------------------------------------------------------------------------
(* svc_qpm.py                                                              *)

\* _active
ActiveGrant(r) == admitted[r] = "active" /\ r \notin overdue

Placed == {r \in Grants : placements[r] # Nowhere}

\* Seeded fault: the executor of a dropped reservation is forgotten.
DropForgetting(R) ==
    /\ placements' = [r \in Grants |-> IF r \in R THEN Nowhere ELSE placements[r]]
    /\ executors' = [r \in Grants |-> IF r \in R THEN 0 ELSE executors[r]]
    /\ UNCHANGED <<running, live>>

\* _drop of the reservations in R, with executors.stop of their processes
Drop(R) ==
    /\ placements' = [r \in Grants |-> IF r \in R THEN Nowhere ELSE placements[r]]
    /\ executors' = [r \in Grants |-> IF r \in R THEN 0 ELSE executors[r]]
    /\ running' = running \ {executors[r] : r \in R}
    /\ live' = live \ {executors[r] : r \in R}

Gone == {r \in Placed : ~ActiveGrant(r)}

\* _busy: what reservations that are still active hold
Busy == UNION {Entries(placements[r]) : r \in Placed \ Gone}

\* Seeded fault: a request is served while another one is.
UnlockedAny == serving # "exited"

Unlocked == lockedBy = {} /\ serving # "exited"

Go(q, step, w) ==
    /\ bpc' = [bpc EXCEPT ![q] = step]
    /\ work' = [work EXCEPT ![q] = w]
    /\ lockedBy' = IF step \in {"admit", "attach", "starting"} THEN lockedBy \cup {q}
                   ELSE lockedBy \ {q}

Fresh(r) == admitted[r] = "none" /\ \A s \in Grants : s < r => admitted[s] # "none"

\* evaluate, and a reserve that is rejected: looking for what is busy drops the
\* placements of reservations that have ended.
Evaluate ==
    /\ Unlocked /\ Gone # {}
    /\ Drop(Gone)
    /\ UNCHANGED <<admitted, overdue, starts, bpc, work, lockedBy, serving>>

\* reserve without an intent: the quantum budget only
ReserveBudget ==
    /\ serving = "running"
    /\ \E r \in Grants : Fresh(r) /\ admitted' = [admitted EXCEPT ![r] = "active"]
    /\ UNCHANGED <<overdue, placements, executors, running, live, starts,
                   bpc, work, lockedBy, serving>>

\* reserve with an intent: the match, made with the lock held
ReserveDirect(q, intent) ==
    /\ bpc[q] = "idle" /\ Unlocked
    /\ LET p == Match(intent, Busy) IN
       /\ p # Rejected
       /\ Go(q, "admit", [NoWork EXCEPT !.placement = p, !.direct = TRUE])
    /\ Drop(Gone)
    /\ UNCHANGED <<admitted, overdue, starts, serving>>

\* ... and the core's decision
Admit(q) ==
    /\ bpc[q] = "admit" /\ serving # "exited"
    /\ \/ /\ serving = "running"
          /\ \E r \in Grants :
                /\ Fresh(r)
                /\ admitted' = [admitted EXCEPT ![r] = "active"]
                /\ Go(q, "attach", [work[q] EXCEPT !.r = r])
       \/ Go(q, "idle", NoWork) /\ UNCHANGED admitted
    /\ UNCHANGED <<overdue, placements, executors, running, live, starts, serving>>

\* _classical_request: placement for an active reservation that has none. A
\* request that names another owner or job changes nothing.
ClassicalRequest(q, r, intent) ==
    /\ bpc[q] = "idle" /\ Unlocked
    /\ ActiveGrant(r) /\ r \notin Placed
    /\ LET p == Match(intent, Busy) IN
       /\ p # Rejected
       /\ Go(q, "attach", [NoWork EXCEPT !.r = r, !.placement = p])
    /\ Drop(Gone)
    /\ UNCHANGED <<admitted, overdue, starts, serving>>

\* executors.start: the process is there, not yet ready
StartExecutor(q) ==
    /\ bpc[q] = "attach" /\ serving # "exited" /\ starts < MaxStarts
    /\ starts' = starts + 1
    /\ running' = running \cup {starts + 1}
    /\ Go(q, "starting", [work[q] EXCEPT !.process = starts + 1])
    /\ UNCHANGED <<admitted, overdue, placements, executors, live, serving>>

\* _attach, once the executor listens
Attach(q) ==
    /\ bpc[q] = "starting" /\ serving # "exited"
    /\ live' = live \cup {work[q].process}
    /\ placements' = [placements EXCEPT ![work[q].r] = work[q].placement]
    /\ executors' = [executors EXCEPT ![work[q].r] = work[q].process]
    /\ Go(q, "idle", NoWork)
    /\ UNCHANGED <<admitted, overdue, running, starts, serving>>

\* ExecutorStartError, from Popen or after the timeout: the process is stopped
\* and a direct reserve gives its reservation back.
StartFails(q) ==
    /\ bpc[q] \in {"attach", "starting"} /\ serving # "exited"
    /\ running' = running \ {work[q].process}
    /\ admitted' = IF work[q].direct THEN [admitted EXCEPT ![work[q].r] = "closed"]
                   ELSE admitted
    /\ Go(q, "idle", NoWork)
    /\ UNCHANGED <<overdue, placements, executors, live, starts, serving>>

\* release: the core first, without the lock
Release(q, r) ==
    /\ bpc[q] = "idle" /\ serving # "exited" /\ admitted[r] = "active"
    /\ admitted' = [admitted EXCEPT ![r] = "closed"]
    /\ Go(q, "drop", [NoWork EXCEPT !.r = r])
    /\ UNCHANGED <<overdue, placements, executors, running, live, starts, serving>>

\* ... then the placement, with it
ReleaseDrop(q) ==
    /\ bpc[q] = "drop" /\ Unlocked
    /\ Drop({work[q].r})
    /\ Go(q, "idle", NoWork)
    /\ UNCHANGED <<admitted, overdue, starts, serving>>

\* cancel is the core's own: the placement goes when somebody next looks.
CancelGrant(r) ==
    /\ admitted[r] = "active" /\ serving # "exited"
    /\ admitted' = [admitted EXCEPT ![r] = "closed"]
    /\ UNCHANGED <<overdue, placements, executors, running, live, starts,
                   bpc, work, lockedBy, serving>>

\* The deadline of a reservation passes.
Deadline(r) ==
    /\ admitted[r] = "active" /\ r \notin overdue /\ serving # "exited"
    /\ overdue' = overdue \cup {r}
    /\ UNCHANGED <<admitted, placements, executors, running, live, starts,
                   bpc, work, lockedBy, serving>>

\* renew, which the core accepts for a reservation it still has active
RenewGrant(r) ==
    /\ admitted[r] = "active" /\ r \in overdue /\ serving # "exited"
    /\ overdue' = overdue \ {r}
    /\ UNCHANGED <<admitted, placements, executors, running, live, starts,
                   bpc, work, lockedBy, serving>>

\* shutdown: the service stops granting, then drops every executor.  A request
\* for classical resources is not turned away.
ShutdownBackline ==
    /\ \/ serving = "running" /\ serving' = "draining"
          /\ UNCHANGED <<placements, executors, running, live>>
       \/ /\ serving = "draining" /\ Unlocked
          /\ serving' = "stopping"
          /\ Drop({r \in Grants : executors[r] # 0})
    /\ UNCHANGED <<admitted, overdue, starts, bpc, work, lockedBy>>

\* The process ends, by itself or on a SIGTERM at any moment: _stop_all.
Exit ==
    /\ serving # "exited"
    /\ serving' = "exited"
    /\ running' = running \ live
    /\ live' = {}
    /\ UNCHANGED <<admitted, overdue, placements, executors, starts, bpc,
                   work, lockedBy>>

BacklineNext ==
    \/ Evaluate
    \/ ReserveBudget
    \/ \E q \in Requesters, i \in Intents : ReserveDirect(q, i)
    \/ \E q \in Requesters : Admit(q)
    \/ \E q \in Requesters, r \in Grants, i \in Intents : ClassicalRequest(q, r, i)
    \/ \E q \in Requesters : StartExecutor(q)
    \/ \E q \in Requesters : Attach(q)
    \/ \E q \in Requesters : StartFails(q)
    \/ \E q \in Requesters, r \in Grants : Release(q, r)
    \/ \E q \in Requesters : ReleaseDrop(q)
    \/ \E r \in Grants : CancelGrant(r)
    \/ \E r \in Grants : Deadline(r)
    \/ \E r \in Grants : RenewGrant(r)
    \/ ShutdownBackline
    \/ Exit

BacklineSpec == BacklineInit /\ [][BacklineNext]_blvars

-----------------------------------------------------------------------------
\* get_reservation: the placement a client of an active reservation is shown
Shown(r) == IF ActiveGrant(r) THEN placements[r] ELSE Nowhere

\* No two reservations are shown the same controller or coprocessor, whatever
\* releases, cancellations, renewals and deadlines pass between the match, the
\* core's decision and the start of an executor (reserve's comment: "so two
\* reserves cannot share an entry").
EntriesNotShared ==
    \A r, s \in Grants :
        r # s => Entries(Shown(r)) \cap Entries(Shown(s)) = {}

\* Every executor process that runs is the one of a placement, or the one being
\* started under the lock, and after the service's exit none is left but that
\* one (executors.py: SIGTERM to the service's process group misses them).
NoStrayExecutor ==
    \A p \in running :
        \/ \E q \in Requesters : bpc[q] = "starting" /\ work[q].process = p
        \/ serving # "exited" /\ \E r \in Placed : executors[r] = p

\* Every placement held is connected (match, _match_on).
PlacementConnected ==
    \A r \in Placed : Connected(placements[r])

\* A placement is its reservation's alone, is connected by one transport, and is
\* what the running executors belong to.
PlacementsHold ==
    EntriesNotShared /\ NoStrayExecutor /\ PlacementConnected
=============================================================================
