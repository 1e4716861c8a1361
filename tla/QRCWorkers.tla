----------------------------- MODULE QRCWorkers -----------------------------
(***************************************************************************)
(* The worker pool of a simulator's QRC: UTIL_QRC in                       *)
(* services/util/qpm/util_qrc.py. async_run gives a circuit to one worker; *)
(* each worker's thread (runner) launches what its queue holds, polls the  *)
(* launcher for what it has launched, kills what outlives the circuit time *)
(* limit, and reports each end: first the QPM's free_resources callback,   *)
(* then the result.                                                        *)
(*                                                                         *)
(* worker_pool_lock makes async_run one step. A runner reads the size of   *)
(* its queue without the lock, so that is a step of its own. What the      *)
(* callback does (QPMDispatch has it) may call async_run again, as any     *)
(* thread may between two steps here.                                      *)
(***************************************************************************)
EXTENDS Naturals, Sequences, FiniteSets

CONSTANTS
    Workers,
    Circuits,
    NoCircuit,   \* the None that shutdown puts in a queue; an empty hand
    QueueLimit,  \* num_worker_tasks
    TimeLimit,   \* whether circuit_time_limit is set
    Faults       \* what may go wrong, see FaultNames

\* launch: the launcher cannot start a process; lost: it never hears of a
\* process's exit; status: asking it raises; decode: _finish_task raises on a
\* failed process's output; push: the client's event sink raises; escape:
\* free_resources raises for a circuit that was never launched.
FaultNames == {"launch", "lost", "status", "decode", "push", "escape"}

ASSUME WorkersAssumption ==
    /\ NoCircuit \notin Circuits
    /\ QueueLimit \in Nat \ {0}
    /\ TimeLimit \in BOOLEAN
    /\ Faults \subseteq FaultNames

VARIABLES
    pc,        \* where each runner is in its loop
    queue,     \* worker_pool[w]['queue']
    state,     \* worker_pool[w]['state']
    active,    \* worker_pool[w]['active_tasks']
    hand,      \* the circuit a runner took from its queue in this round
    ending,    \* the circuit whose result it is about to deliver
    todo,      \* active tasks check_active_tasks has yet to ask about
    process,   \* what the launcher knows of each circuit's process
    overdue,   \* circuits that have run for longer than the limit
    freed,     \* calls of circ.free_resources for each circuit
    results,   \* results pushed or stored for each circuit
    accepted,  \* circuits async_run took
    stopping,  \* shutdown_workers
    woken      \* whether shutdown has put its None in the queues

loopVars == <<hand, ending, todo>>
processVars == <<process, overdue>>
reportVars == <<freed, results>>
stopVars == <<stopping, woken>>
wvars == <<pc, queue, state, active, loopVars, processVars, reportVars,
          accepted, stopVars>>

PCs == {"loop", "get", "check", "deliver", "launch", "size", "free", "settle",
        "deliverAbort", "exited"}

WorkersTypeOK ==
    /\ pc \in [Workers -> PCs]
    /\ queue \in [Workers -> Seq(Circuits \cup {NoCircuit})]
    /\ state \in [Workers -> {"FREE", "BUSY"}]
    /\ active \in [Workers -> SUBSET Circuits]
    /\ hand \in [Workers -> Circuits \cup {NoCircuit}]
    /\ ending \in [Workers -> Circuits \cup {NoCircuit}]
    /\ todo \in [Workers -> SUBSET Circuits]
    /\ process \in [Circuits -> {"none", "running", "lost", "exited"}]
    /\ overdue \in SUBSET Circuits
    /\ freed \in [Circuits -> Nat]
    /\ results \in [Circuits -> Nat]
    /\ accepted \in SUBSET Circuits
    /\ stopping \in BOOLEAN
    /\ woken \in BOOLEAN

WorkersInit ==
    /\ pc = [w \in Workers |-> "loop"]
    /\ queue = [w \in Workers |-> <<>>]
    /\ state = [w \in Workers |-> "FREE"]
    /\ active = [w \in Workers |-> {}]
    /\ hand = [w \in Workers |-> NoCircuit]
    /\ ending = [w \in Workers |-> NoCircuit]
    /\ todo = [w \in Workers |-> {}]
    /\ process = [c \in Circuits |-> "none"]
    /\ overdue = {}
    /\ freed = [c \in Circuits |-> 0]
    /\ results = [c \in Circuits |-> 0]
    /\ accepted = {}
    /\ stopping = FALSE
    /\ woken = FALSE

----------------------------------------------------------------------------
Goto(w, l) == pc' = [pc EXCEPT ![w] = l]

Eligible(w) == state[w] = "FREE" /\ Len(queue[w]) < QueueLimit

\* async_run. The round robin counter is read outside the lock, so the search
\* may start at any worker and end at any that has room. A circuit no worker
\* has room for is refused, which changes nothing here.
AsyncRun(c) ==
    \E w \in Workers :
        /\ c \notin accepted
        /\ Eligible(w)
        /\ queue' = [queue EXCEPT ![w] = Append(@, c)]
        /\ state' = [state EXCEPT ![w] =
                IF Len(queue[w]) + 1 >= QueueLimit THEN "BUSY" ELSE @]
        /\ accepted' = accepted \cup {c}
        /\ UNCHANGED <<pc, active, loopVars, processVars, reportVars, stopVars>>

\* The head of the runner's loop.
Loop(w) ==
    /\ pc[w] = "loop"
    /\ Goto(w, IF stopping THEN "exited" ELSE "get")
    /\ UNCHANGED <<queue, state, active, loopVars, processVars, reportVars,
                   accepted, stopVars>>

\* queue.get takes a circuit, or shutdown's None.
Get(w) ==
    /\ pc[w] = "get"
    /\ queue[w] # <<>>
    /\ LET c == Head(queue[w]) IN
       /\ Goto(w, IF c = NoCircuit THEN "loop" ELSE "check")
       /\ hand' = [hand EXCEPT ![w] = c]
       /\ stopping' = (stopping \/ c = NoCircuit)
    /\ queue' = [queue EXCEPT ![w] = Tail(@)]
    /\ todo' = [todo EXCEPT ![w] = active[w]]
    /\ UNCHANGED <<state, active, ending, processVars, reportVars, accepted,
                   woken>>

\* queue.get times out, which it does only while the worker has active tasks.
GetEmpty(w) ==
    /\ pc[w] = "get"
    /\ queue[w] = <<>>
    /\ active[w] # {}
    /\ Goto(w, "check")
    /\ hand' = [hand EXCEPT ![w] = NoCircuit]
    /\ todo' = [todo EXCEPT ![w] = active[w]]
    /\ UNCHANGED <<queue, state, active, ending, processVars, reportVars,
                   accepted, stopVars>>

\* Seeded fault: the time limit is not enforced.
AskPatiently(w, c) ==
    /\ pc[w] = "check"
    /\ c \in todo[w]
    /\ process[c] # "exited"
    /\ todo' = [todo EXCEPT ![w] = @ \ {c}]
    /\ UNCHANGED <<pc, queue, state, active, hand, ending, processVars,
                   reportVars, accepted, stopVars>>

\* check_active_tasks asks about a task still in progress. One that is overdue
\* is killed with its process group, and the launcher will report the exit.
AskRunning(w, c) ==
    /\ pc[w] = "check"
    /\ c \in todo[w]
    /\ process[c] # "exited"
    /\ \/ /\ todo' = [todo EXCEPT ![w] = @ \ {c}]
          /\ process' = [process EXCEPT ![c] =
                  IF c \in overdue THEN "exited" ELSE @]
          /\ UNCHANGED pc
       \/ /\ "status" \in Faults
          /\ Goto(w, "exited")
          /\ UNCHANGED <<todo, process>>
    /\ UNCHANGED <<queue, state, active, hand, ending, overdue, reportVars,
                   accepted, stopVars>>

\* Seeded fault: the result is reported without free_resources.
AskEndedUnfreed(w, c) ==
    /\ pc[w] = "check"
    /\ c \in todo[w]
    /\ process[c] = "exited"
    /\ todo' = [todo EXCEPT ![w] = @ \ {c}]
    /\ active' = [active EXCEPT ![w] = @ \ {c}]
    /\ ending' = [ending EXCEPT ![w] = c]
    /\ Goto(w, "deliver")
    /\ UNCHANGED <<queue, state, hand, processVars, reportVars, accepted,
                   stopVars>>

\* One that has ended is finished and dropped from active_tasks, which only
\* this thread reads. _finish_task calls free_resources, and delivers the
\* result whether or not that raises; when it raises before the call, the
\* exception is logged and the task is dropped all the same.
AskEnded(w, c) ==
    /\ pc[w] = "check"
    /\ c \in todo[w]
    /\ process[c] = "exited"
    /\ todo' = [todo EXCEPT ![w] = @ \ {c}]
    /\ active' = [active EXCEPT ![w] = @ \ {c}]
    /\ \/ /\ freed' = [freed EXCEPT ![c] = @ + 1]
          /\ ending' = [ending EXCEPT ![w] = c]
          /\ Goto(w, "deliver")
       \/ /\ "decode" \in Faults
          /\ UNCHANGED <<freed, ending, pc>>
    /\ UNCHANGED <<queue, state, hand, processVars, results, accepted,
                   stopVars>>

\* _push_or_store_result from _finish_task: check_active_tasks catches what the
\* event sink raises, and the result is neither pushed nor stored.
Deliver(w) ==
    /\ pc[w] = "deliver"
    /\ Goto(w, "check")
    /\ ending' = [ending EXCEPT ![w] = NoCircuit]
    /\ \/ results' = [results EXCEPT ![ending[w]] = @ + 1]
       \/ "push" \in Faults /\ UNCHANGED results
    /\ UNCHANGED <<queue, state, active, hand, todo, processVars, freed,
                   accepted, stopVars>>

\* check_active_tasks has asked about every active task.
Checked(w) ==
    /\ pc[w] = "check"
    /\ todo[w] = {}
    /\ Goto(w, IF hand[w] = NoCircuit THEN "loop" ELSE "launch")
    /\ UNCHANGED <<queue, state, active, loopVars, processVars, reportVars,
                   accepted, stopVars>>

\* run_circuit_async starts the circuit's process, or raises.
Launch(w) ==
    /\ pc[w] = "launch"
    /\ \/ process' = [process EXCEPT ![hand[w]] = "running"]
       \/ "launch" \in Faults /\ UNCHANGED process
    /\ Goto(w, "size")
    /\ UNCHANGED <<queue, state, active, loopVars, overdue, reportVars,
                   accepted, stopVars>>

\* Seeded fault: room for one more does not count.
SizeStrict(w) ==
    /\ pc[w] = "size"
    /\ Goto(w, IF Len(queue[w]) + 1 < QueueLimit THEN "free" ELSE "settle")
    /\ UNCHANGED <<queue, state, active, loopVars, processVars, reportVars,
                   accepted, stopVars>>

\* The runner looks at its queue's size, then takes the lock and says that it
\* is free.
Size(w) ==
    /\ pc[w] = "size"
    /\ Goto(w, IF Len(queue[w]) < QueueLimit THEN "free" ELSE "settle")
    /\ UNCHANGED <<queue, state, active, loopVars, processVars, reportVars,
                   accepted, stopVars>>

Free(w) ==
    /\ pc[w] = "free"
    /\ Goto(w, "settle")
    /\ state' = [state EXCEPT ![w] = "FREE"]
    /\ UNCHANGED <<queue, active, loopVars, processVars, reportVars, accepted,
                   stopVars>>

\* Seeded fault: a launched circuit is not made active.
SettleForgetting(w) ==
    /\ pc[w] = "settle"
    /\ hand' = [hand EXCEPT ![w] = NoCircuit]
    /\ Goto(w, "loop")
    /\ UNCHANGED <<queue, state, active, ending, todo, processVars, reportVars,
                   accepted, stopVars>>

\* A launched circuit becomes active; for one that was not, free_resources is
\* called, and what it raises ends the runner.
Settle(w) ==
    /\ pc[w] = "settle"
    /\ hand' = [hand EXCEPT ![w] = NoCircuit]
    /\ IF process[hand[w]] # "none"
       THEN /\ active' = [active EXCEPT ![w] = @ \cup {hand[w]}]
            /\ Goto(w, "loop")
            /\ UNCHANGED <<freed, ending>>
       ELSE /\ freed' = [freed EXCEPT ![hand[w]] = @ + 1]
            /\ \/ /\ ending' = [ending EXCEPT ![w] = hand[w]]
                  /\ Goto(w, "deliverAbort")
               \/ /\ "escape" \in Faults
                  /\ Goto(w, "exited")
                  /\ UNCHANGED ending
            /\ UNCHANGED active
    /\ UNCHANGED <<queue, state, todo, processVars, results, accepted,
                   stopVars>>

\* _push_or_store_result from the runner itself, which does not catch.
DeliverAbort(w) ==
    /\ pc[w] = "deliverAbort"
    /\ ending' = [ending EXCEPT ![w] = NoCircuit]
    /\ \/ /\ results' = [results EXCEPT ![ending[w]] = @ + 1]
          /\ Goto(w, "loop")
       \/ /\ "push" \in Faults
          /\ Goto(w, "exited")
          /\ UNCHANGED results
    /\ UNCHANGED <<queue, state, active, hand, todo, processVars, freed,
                   accepted, stopVars>>

Runner(w) ==
    \/ Loop(w) \/ Get(w) \/ GetEmpty(w) \/ Checked(w) \/ Deliver(w)
    \/ \E c \in Circuits : AskRunning(w, c) \/ AskEnded(w, c)
    \/ Launch(w) \/ Size(w) \/ Free(w) \/ Settle(w) \/ DeliverAbort(w)

----------------------------------------------------------------------------
\* The launcher's side: a process ends, by itself or killed from outside, and
\* the launcher may never hear of it.
Exit(c) ==
    /\ process[c] = "running"
    /\ \/ process' = [process EXCEPT ![c] = "exited"]
       \/ "lost" \in Faults /\ process' = [process EXCEPT ![c] = "lost"]
    /\ UNCHANGED <<pc, queue, state, active, loopVars, overdue, reportVars,
                   accepted, stopVars>>

\* Time passes the limit for a circuit the launcher says is in progress.
Expire(c) ==
    /\ TimeLimit
    /\ process[c] \in {"running", "lost"}
    /\ c \notin overdue
    /\ overdue' = overdue \cup {c}
    /\ UNCHANGED <<pc, queue, state, active, loopVars, process, reportVars,
                   accepted, stopVars>>

\* shutdown raises the flag, then wakes the runners blocked on their queues.
BeginShutdown ==
    /\ ~stopping
    /\ stopping' = TRUE
    /\ UNCHANGED <<pc, queue, state, active, loopVars, processVars, reportVars,
                   accepted, woken>>

\* Seeded fault: shutdown only raises the flag.
WakeNobody ==
    /\ stopping
    /\ ~woken
    /\ woken' = TRUE
    /\ UNCHANGED <<pc, queue, state, active, loopVars, processVars, reportVars,
                   accepted, stopping>>

Wake ==
    /\ stopping
    /\ ~woken
    /\ woken' = TRUE
    /\ queue' = [w \in Workers |-> Append(queue[w], NoCircuit)]
    /\ UNCHANGED <<pc, state, active, loopVars, processVars, reportVars,
                   accepted, stopping>>

WorkersNext ==
    \/ \E w \in Workers : Runner(w)
    \/ \E c \in Circuits : AsyncRun(c) \/ Exit(c) \/ Expire(c)
    \/ BeginShutdown
    \/ Wake

WorkersSpec == WorkersInit /\ [][WorkersNext]_wvars

\* Threads are scheduled, the clock advances, and a shutdown that has begun
\* reaches its end. Processes owe nothing: the time limit ends them.
WorkersFairness ==
    /\ \A w \in Workers : WF_wvars(Runner(w))
    /\ \A c \in Circuits : WF_wvars(Expire(c))
    /\ WF_wvars(Wake)

FairWorkers == WorkersSpec /\ WorkersFairness

----------------------------------------------------------------------------
Holders(c) ==
    {w \in Workers :
        \/ \E i \in DOMAIN queue[w] : queue[w][i] = c
        \/ hand[w] = c
        \/ c \in active[w]
        \/ ending[w] = c}

\* A circuit async_run accepted is with exactly one runner until its result is
\* delivered, and is delivered once: nothing between the queue, the launch,
\* the active list and the report drops or doubles it.
OneHolder ==
    \A c \in Circuits :
        Cardinality(Holders(c)) + results[c] = IF c \in accepted THEN 1 ELSE 0

\* The QPM's resources for a circuit are given back once, and before its
\* result is out: a client that reacts to the result finds the slots free.
ResultAfterRelease ==
    \A c \in Circuits : results[c] <= freed[c] /\ freed[c] <= 1

\* A circuit is reported once, after its resources are back.
ReportedOnce ==
    OneHolder /\ ResultAfterRelease

\* Until shutdown, a worker that says it is busy has a full queue, or its
\* runner is on the way to saying it is free: no room is lost for good.
BusyHasReason ==
    \A w \in Workers :
        state[w] = "BUSY" /\ ~stopping =>
            \/ Len(queue[w]) >= QueueLimit
            \/ /\ hand[w] # NoCircuit
               /\ pc[w] \in {"check", "deliver", "launch", "size", "free"}

\* A worker's queue never holds more than num_worker_tasks circuits, and after
\* them shutdown's None, although a runner may say it is free just after its
\* queue was filled.
QueueBounded ==
    \A w \in Workers : Len(queue[w]) <= QueueLimit + (IF woken THEN 1 ELSE 0)

\* A runner ends only because of a shutdown: no circuit's error takes the
\* runner, and its other circuits, with it (openQSE/QFw#196).
OnlyShutdownEndsRunners ==
    \A w \in Workers : pc[w] = "exited" => stopping

\* Under the time limit, every accepted circuit has its result in the end,
\* even if its process never exits or its exit is never reported, unless the
\* service shuts down.
EveryCircuitReported ==
    []<>(\A c \in accepted : results[c] = 1 \/ stopping)

\* Once shutdown has begun every runner ends, the ones blocked on an empty
\* queue included.
RunnersStop ==
    []<>(stopping => \A w \in Workers : pc[w] = "exited")

\* The pool gets its work done and, asked to, stops.
PoolProgress ==
    EveryCircuitReported /\ RunnersStop
=============================================================================
