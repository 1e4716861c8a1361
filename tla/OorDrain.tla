------------------------------ MODULE OorDrain ------------------------------
(***************************************************************************)
(* The handshake that lets many threads ask for the out-of-resources queue *)
(* to be drained while one of them drains it: process_oor_queue in         *)
(* services/util/qpm/util_qpm.py with begin_oor_drain and end_oor_drain in *)
(* services/util/qpm/controller.py.                                        *)
(*                                                                         *)
(* Every provider completion, read_cq and cancel calls process_oor_queue.  *)
(* oor_drain_lock is taken without blocking; oor_drain_requested is written *)
(* and read under the controller's lock, so each access is one step here.  *)
(* What a pass does to the queue is the business of QPMDispatch; here it   *)
(* is one step.                                                            *)
(***************************************************************************)
CONSTANTS Threads, NoThread

ASSUME ThreadAssumption == NoThread \notin Threads

VARIABLES
    dpc,         \* where each thread is in process_oor_queue
    holder,      \* the thread that holds oor_drain_lock, or NoThread
    requested,   \* oor_drain_requested
    owed         \* history: a request was made that no pass has started after

ovars == <<dpc, holder, requested, owed>>

Steps == {"out", "begin", "acquire", "clear", "drain", "release", "check"}

DrainTypeOK ==
    /\ dpc \in [Threads -> Steps]
    /\ holder \in Threads \cup {NoThread}
    /\ requested \in BOOLEAN
    /\ owed \in BOOLEAN

DrainInit ==
    /\ dpc = [t \in Threads |-> "out"]
    /\ holder = NoThread
    /\ requested = FALSE
    /\ owed = FALSE

DrainGoto(t, step) == dpc' = [dpc EXCEPT ![t] = step]

\* begin_oor_drain, first lock: leave a request, then try for the queue.
\* "out" is a new call, "begin" the loop's own second call.
Request(t) ==
    /\ dpc[t] \in {"out", "begin"}
    /\ requested' = TRUE
    /\ owed' = TRUE
    /\ DrainGoto(t, "acquire")
    /\ UNCHANGED holder

\* Seeded fault: the lock is taken without looking who holds it.
AcquireUnchecked(t) ==
    /\ dpc[t] = "acquire"
    /\ holder' = t
    /\ DrainGoto(t, "clear")
    /\ UNCHANGED <<requested, owed>>

\* acquire(blocking=False): a thread that finds a drain under way returns.
Acquire(t) ==
    /\ dpc[t] = "acquire"
    /\ IF holder = NoThread
       THEN holder' = t /\ DrainGoto(t, "clear")
       ELSE DrainGoto(t, "out") /\ UNCHANGED holder
    /\ UNCHANGED <<requested, owed>>

\* begin_oor_drain, second lock. The pass this thread now makes starts after
\* every request made so far.
ClearRequest(t) ==
    /\ dpc[t] = "clear"
    /\ requested' = FALSE
    /\ owed' = FALSE
    /\ DrainGoto(t, "drain")
    /\ UNCHANGED holder

\* A dispatch that fails inside the pass calls process_oor_queue again. The
\* lock is not reentrant, so the nested call only leaves a request.
Nested(t) ==
    /\ dpc[t] = "drain"
    /\ requested' = TRUE
    /\ owed' = TRUE
    /\ UNCHANGED <<dpc, holder>>

\* Seeded fault: the flag is cleared at the end of the pass, not before it.
EndPassClearing(t) ==
    /\ dpc[t] = "drain"
    /\ requested' = FALSE
    /\ DrainGoto(t, "release")
    /\ UNCHANGED <<holder, owed>>

\* The pass is over.
EndPass(t) ==
    /\ dpc[t] = "drain"
    /\ DrainGoto(t, "release")
    /\ UNCHANGED <<holder, requested, owed>>

\* end_oor_drain: release first, read the flag second.
Release(t) ==
    /\ dpc[t] = "release"
    /\ holder' = NoThread
    /\ DrainGoto(t, "check")
    /\ UNCHANGED <<requested, owed>>

\* Seeded fault: the answer of end_oor_drain is ignored.
CheckOnce(t) ==
    /\ dpc[t] = "check"
    /\ DrainGoto(t, "out")
    /\ UNCHANGED <<holder, requested, owed>>

\* A request left meanwhile makes the loop call begin_oor_drain again.
Check(t) ==
    /\ dpc[t] = "check"
    /\ DrainGoto(t, IF requested THEN "begin" ELSE "out")
    /\ UNCHANGED <<holder, requested, owed>>

DrainNext ==
    \E t \in Threads :
        \/ Request(t)
        \/ Acquire(t)
        \/ ClearRequest(t)
        \/ Nested(t)
        \/ EndPass(t)
        \/ Release(t)
        \/ Check(t)

Spec == DrainInit /\ [][DrainNext]_ovars

\* A thread inside process_oor_queue keeps running, and a pass ends: it stops
\* at the first task it cannot dispatch. Nobody is obliged to call.
Inside(t) ==
    \/ dpc[t] = "begin" /\ Request(t)
    \/ Acquire(t) \/ ClearRequest(t) \/ EndPass(t) \/ Release(t) \/ Check(t)
DrainFairness == \A t \in Threads : WF_ovars(Inside(t))

FairDrain == Spec /\ DrainFairness

----------------------------------------------------------------------------
\* One thread drains at a time, and it is the one oor_drain_lock belongs to:
\* "one thread drains at a time. Two used to take the same queued task"
\* (process_oor_queue).
OneDrainer ==
    \A t \in Threads :
        dpc[t] \in {"clear", "drain", "release"} <=> holder = t

\* A caller that returned while another thread drained has not lost its
\* request: as long as no pass has started since, the flag is up and some
\* thread is still inside process_oor_queue to see it. The release of the
\* lock and the read of the flag are two steps, so this is the window that
\* end_oor_drain has to close.
NoRequestLost ==
    owed => requested /\ \E t \in Threads : dpc[t] # "out"

\* "nothing a completion frees waits for the next call" (process_oor_queue):
\* a pass starts after every request, without another call.
EveryRequestServed == []<>~owed
=============================================================================
