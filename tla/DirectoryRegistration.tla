------------------------ MODULE DirectoryRegistration ------------------------
(***************************************************************************)
(* How a QPM service keeps itself registered with a directory while the    *)
(* directory restarts (services/util/qpm/startup.py).                      *)
(*                                                                         *)
(* Three threads of the service make the same pass over the directory      *)
(* endpoints: the one that calls initialize_qpm_service, the start-up wait *)
(* thread it may leave behind, and the registration monitor.  A fourth,    *)
(* DEFw's listener, delivers the peer events that invalidate what they     *)
(* noted.  In long-running ("site") mode a pass holds the registration     *)
(* lock; in the job's own ("local") mode it does not.                      *)
(*                                                                         *)
(* A directory that restarts has forgotten the service.  DEFw replaces its *)
(* client object when it reconnects, and may keep it when only the link    *)
(* dropped; it then reports a peer event.                                  *)
(***************************************************************************)
EXTENDS Naturals, Sequences, FiniteSets

CONSTANTS
    SiteEndpoints,    \* number of configured site directory endpoints
    MaxLives,         \* bound: directory restarts
    MaxRefusals       \* bound: register_service calls that raise

ASSUME RegistrationAssumption == SiteEndpoints \in Nat \ {0}

VARIABLES
    mode,       \* the operation mode: "site" (long-running) or "local"
    life,       \* how often the directory has restarted
    inDirectory, \* the directory now running holds this service's records
    dirsvc,     \* DEFw's client object for the directory, 0 when there is none
    events,     \* peer events DEFw has still to deliver
    hooks,      \* the listener and controller readiness hooks answer True
    reg,        \* the registration state: endpoint |-> client noted, or 0
    registered, \* qpm_directory_registered
    initialized,
    shutdown,   \* qpm_shutdown
    rlock,      \* _site_registration_lock: its holder, or "free"
    tpc,        \* thread |-> where it is in its pass
    mine,       \* thread |-> <<endpoint, client>> it is working on
    listener,   \* the peer event listener: "idle" or "clear"
    refusals

dvars == <<mode, life, inDirectory, dirsvc, events, hooks, reg, registered,
           initialized, shutdown, rlock, tpc, mine, listener, refusals>>

RegistrationThreads == {"init", "wait", "monitor"}

Endpoints == 1 .. (IF mode = "site" THEN SiteEndpoints ELSE 1)

RegistrationInit ==
    /\ mode \in {"site", "local"}
    /\ life = 0 /\ inDirectory = FALSE /\ dirsvc = 0 /\ events = 0 /\ hooks = FALSE
    /\ reg = [e \in Endpoints |-> 0]
    /\ registered = FALSE /\ initialized = FALSE /\ shutdown = FALSE
    /\ rlock = "free"
    /\ tpc = [t \in RegistrationThreads |-> "off"]
    /\ mine = [t \in RegistrationThreads |-> <<1, 0>>]
    /\ listener = "idle" /\ refusals = 0

outside == <<mode, life, inDirectory, dirsvc, events, hooks, refusals>>

-----------------------------------------------------------------------------

\* initialize_qpm_service: start the monitor if none is alive, then make the
\* first pass in the calling thread.
Initialize ==
    /\ ~initialized /\ tpc["init"] = "off" /\ tpc["wait"] = "off"
    /\ ~shutdown
    /\ tpc' = [tpc EXCEPT !["init"] = "pass", !["monitor"] =
                            IF @ = "off" THEN "pass" ELSE @]
    /\ UNCHANGED <<outside, reg, registered, initialized, shutdown, rlock,
                   mine, listener>>

\* What a pass that found something missing means for its thread: the caller
\* of initialize_qpm_service leaves a wait thread behind, the others sleep and
\* try again.
AfterFailure(t) ==
    IF t = "init" THEN [tpc EXCEPT !["init"] = "off", !["wait"] = "pass"]
                  ELSE [tpc EXCEPT ![t] = "pass"]

\* Leaving the pass gives the registration lock back where it was held.
Unlock(t) == rlock' = IF rlock = t THEN "free" ELSE rlock

Prerequisites == hooks /\ dirsvc # 0

\* The loops of _maintain_registration and wait_for_startup end when the
\* service shuts down.
LoopEnds(t) == t # "init" /\ shutdown

EndLoop(t) ==
    /\ tpc[t] = "pass" /\ LoopEnds(t)
    /\ tpc' = [tpc EXCEPT ![t] = "off"]
    /\ UNCHANGED <<outside, reg, registered, initialized, shutdown, rlock,
                   mine, listener>>

\* The checks of _startup_wait_reason that come before a registration:
\* listener, controller, directory client.
Defer(t) ==
    /\ tpc[t] = "pass" /\ ~LoopEnds(t) /\ ~Prerequisites
    /\ tpc' = AfterFailure(t)
    /\ UNCHANGED <<outside, reg, registered, initialized, shutdown, rlock,
                   mine, listener>>

\* All of them hold: make a pass, in long-running mode under the lock.
BeginUnlocked(t) ==
    /\ tpc[t] = "pass" /\ ~LoopEnds(t) /\ Prerequisites
    /\ tpc' = [tpc EXCEPT ![t] = "look"]
    /\ mine' = [mine EXCEPT ![t] = <<1, 0>>]
    /\ UNCHANGED <<outside, reg, registered, initialized, shutdown, rlock,
                   listener>>

Begin(t) ==
    /\ tpc[t] = "pass" /\ ~LoopEnds(t) /\ Prerequisites
    /\ IF mode = "site" THEN rlock = "free" /\ rlock' = t ELSE UNCHANGED rlock
    /\ tpc' = [tpc EXCEPT ![t] = "look"]
    /\ mine' = [mine EXCEPT ![t] = <<1, 0>>]
    /\ UNCHANGED <<outside, reg, registered, initialized, shutdown, listener>>

\* The deadline of the wait thread passes: it gives up for good.
StartupTimeout ==
    /\ tpc["wait"] = "pass" /\ ~shutdown
    /\ tpc' = [tpc EXCEPT !["wait"] = "off"]
    /\ UNCHANGED <<outside, reg, registered, initialized, shutdown, rlock,
                   mine, listener>>

\* One endpoint of a pass (_ensure_local_registration and
\* _ensure_site_registration): no client, a noted registration made with this
\* very client, or a registration to make.
Look(t) ==
    LET e == mine[t][1]
        last == e = Cardinality(Endpoints) IN
    /\ tpc[t] = "look"
    /\ \/ /\ dirsvc = 0
          /\ registered' = FALSE
          /\ tpc' = AfterFailure(t) /\ Unlock(t)
          /\ UNCHANGED <<reg, mine>>
       \/ /\ dirsvc # 0 /\ reg[e] = dirsvc
          /\ tpc' = [tpc EXCEPT ![t] = IF last THEN "announce" ELSE "look"]
          /\ mine' = [mine EXCEPT ![t] = IF last THEN @ ELSE <<e + 1, 0>>]
          /\ UNCHANGED <<reg, registered, rlock>>
       \/ /\ dirsvc # 0 /\ reg[e] # dirsvc
          /\ registered' = FALSE
          /\ reg' = [reg EXCEPT ![e] = 0]
          /\ tpc' = [tpc EXCEPT ![t] = "register"]
          /\ mine' = [mine EXCEPT ![t] = <<e, dirsvc>>]
          /\ UNCHANGED rlock
    /\ UNCHANGED <<outside, initialized, shutdown, listener>>

\* register_service through the client read before: it reaches the directory
\* only if that client is still DEFw's, and may raise.
RegisterService(t) ==
    /\ tpc[t] = "register"
    /\ \/ /\ mine[t][2] = dirsvc
          /\ inDirectory' = TRUE
          /\ tpc' = [tpc EXCEPT ![t] = "note"]
          /\ UNCHANGED <<rlock, refusals>>
       \/ /\ \/ mine[t][2] # dirsvc /\ UNCHANGED refusals
             \/ mine[t][2] = dirsvc /\ refusals < MaxRefusals
                /\ refusals' = refusals + 1
          /\ tpc' = AfterFailure(t) /\ Unlock(t)
          /\ UNCHANGED inDirectory
    /\ UNCHANGED <<mode, life, dirsvc, events, hooks, reg, registered,
                   initialized, shutdown, mine, listener>>

\* The registration is noted under the endpoint.
Note(t) ==
    LET e == mine[t][1]
        last == e = Cardinality(Endpoints) IN
    /\ tpc[t] = "note"
    /\ reg' = [reg EXCEPT ![e] = mine[t][2]]
    /\ tpc' = [tpc EXCEPT ![t] = IF last THEN "announce" ELSE "look"]
    /\ mine' = [mine EXCEPT ![t] = IF last THEN @ ELSE <<e + 1, 0>>]
    /\ UNCHANGED <<outside, registered, initialized, shutdown, rlock, listener>>

\* Every endpoint is registered: set qpm_directory_registered and return True.
\* The initializing thread completes initialization, the wait thread does so
\* unless the service is shutting down, the monitor sleeps.
Announce(t) ==
    /\ tpc[t] = "announce"
    /\ registered' = TRUE
    /\ Unlock(t)
    /\ mine' = [mine EXCEPT ![t] = <<1, 0>>]
    /\ tpc' = [tpc EXCEPT ![t] = IF t = "monitor" THEN "pass" ELSE "off"]
    /\ initialized' = (initialized \/ t = "init" \/ (t = "wait" /\ ~shutdown))
    /\ UNCHANGED <<outside, reg, shutdown, listener>>

-----------------------------------------------------------------------------

\* A peer event of the directory arrives: _invalidate_registration drops the
\* flag before it has the lock ...
PeerEvent ==
    /\ events > 0 /\ listener = "idle"
    /\ events' = events - 1
    /\ registered' = FALSE
    /\ listener' = "clear"
    /\ UNCHANGED <<mode, life, inDirectory, dirsvc, hooks, refusals, reg,
                   initialized, shutdown, rlock, tpc, mine>>

\* ... and then forgets what was noted, and makes sure a monitor runs.
ClearNoNotes ==
    /\ listener = "clear" /\ rlock = "free"
    /\ tpc' = [tpc EXCEPT !["monitor"] = IF @ = "off" THEN "pass" ELSE @]
    /\ listener' = "idle"
    /\ UNCHANGED <<outside, reg, registered, initialized, shutdown, rlock, mine>>

ClearNotes ==
    /\ listener = "clear" /\ rlock = "free"
    /\ reg' = [e \in Endpoints |-> 0]
    /\ tpc' = [tpc EXCEPT !["monitor"] = IF @ = "off" THEN "pass" ELSE @]
    /\ listener' = "idle"
    /\ UNCHANGED <<outside, registered, initialized, shutdown, rlock, mine>>

\* uninitialize_qpm_service
Uninitialize ==
    /\ ~shutdown
    /\ shutdown' = TRUE /\ registered' = FALSE
    /\ UNCHANGED <<outside, reg, initialized, rlock, tpc, mine, listener>>

-----------------------------------------------------------------------------

\* The world around: the readiness hooks come up, DEFw connects to the
\* directory, the directory loses the service: it restarts, and DEFw replaces
\* the client (at once or when it reconnects), or the link drops and the client
\* is kept.  The peer event of a replaced client may be missed.
HooksReady ==
    /\ ~hooks /\ hooks' = TRUE
    /\ UNCHANGED <<mode, life, inDirectory, dirsvc, events, refusals, reg, registered,
                   initialized, shutdown, rlock, tpc, mine, listener>>

Connect ==
    /\ dirsvc = 0
    /\ dirsvc' = life + 1
    /\ events' \in {events, events + 1}
    /\ UNCHANGED <<mode, life, inDirectory, hooks, refusals, reg, registered,
                   initialized, shutdown, rlock, tpc, mine, listener>>

DirectoryRestarts ==
    /\ dirsvc # 0 /\ life < MaxLives
    /\ life' = life + 1
    /\ inDirectory' = FALSE
    /\ \/ dirsvc' = dirsvc /\ events' = events + 1
       \/ dirsvc' \in {0, life + 2} /\ events' \in {events, events + 1}
    /\ UNCHANGED <<mode, hooks, refusals, reg, registered, initialized,
                   shutdown, rlock, tpc, mine, listener>>

ThreadStep(t) ==
    \/ EndLoop(t) \/ Defer(t) \/ Begin(t)
    \/ Look(t) \/ RegisterService(t) \/ Note(t) \/ Announce(t)

RegistrationNext ==
    \/ Initialize \/ StartupTimeout \/ Uninitialize
    \/ \E t \in RegistrationThreads : ThreadStep(t)
    \/ PeerEvent \/ ClearNotes
    \/ HooksReady \/ Connect \/ DirectoryRestarts

\* The threads and the listener are scheduled by the interpreter, and a thread
\* that waits for the lock gets it in the end.  Nothing obliges the hooks to come
\* up, DEFw to reconnect, the directory to restart or the service to stop.
RegistrationFairness ==
    /\ WF_dvars(PeerEvent) /\ SF_dvars(ClearNotes)
    /\ SF_dvars(ThreadStep("monitor"))
    /\ \A t \in {"init", "wait"} : WF_dvars(ThreadStep(t))

RegistrationSpec == RegistrationInit /\ [][RegistrationNext]_dvars

FairRegistration == RegistrationSpec /\ RegistrationFairness

-----------------------------------------------------------------------------

\* In long-running mode, once every peer event has been handled, a noted
\* registration is one the directory now running really holds: a restart during
\* a pass never leaves a note behind that no later pass would repair
\* (_ensure_site_registration and _invalidate_registration share one lock).
NotedIsKnown ==
    mode = "site" /\ events = 0 /\ listener = "idle" =>
        \A e \in Endpoints : reg[e] # 0 /\ reg[e] = dirsvc => inDirectory

\* The service comes back: once its monitor runs and the hooks and the
\* directory stay up, it is again and again known to the directory and reports
\* so, however often the directory restarted and whichever calls failed or events
\* were missed, unless it is shut down.  The one exception is a job's own
\* directory behind a kept client: that pass takes no lock, so an invalidation
\* in the middle of it is overwritten.
RegistrationRestored ==
    []<>(tpc["monitor"] # "off" /\ Prerequisites =>
            \/ shutdown
            \/ inDirectory /\ registered
            \/ mode = "local" /\ dirsvc \in 1 .. life)
=============================================================================
