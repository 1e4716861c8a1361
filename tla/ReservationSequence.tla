------------------------- MODULE ReservationSequence -------------------------
(***************************************************************************)
(* PersistentReservationSequence (services/util/qpm/reservation_sequence.py): *)
(* the last reservation id handed out, kept in a file so that a restarted  *)
(* QPM does not hand it out again. The file is replaced under an flock, one *)
(* system call at a time; a process may be killed between any two, and the *)
(* machine may lose power. A kill keeps what the kernel has, a power loss  *)
(* keeps what was synced and, of the renames since, as many as the file    *)
(* system happened to write.                                               *)
(***************************************************************************)
EXTENDS Integers

CONSTANTS
    Processes,   \* QPM processes that share the run directory
    Nobody,      \* no process
    MaxId        \* UINT64_MAX

ASSUME SequenceAssumption ==
    /\ Nobody \notin Processes
    /\ MaxId \in Nat \ {0}

\* What _read raises on: neither a decimal nor empty on purpose.
Torn == -1

VARIABLES
    file,       \* the sequence file as the kernel has it, 0 for no file
    maybe,      \* what the file may hold after a power loss
    lock,       \* holder of the flock
    step,       \* where each process is in allocate
    last,       \* last_used
    candidate,
    synced,     \* whether the temporary file's data was fsynced
    live,       \* active ids of each process's own admission context
    issued,     \* history: ids allocate has returned
    reissued,   \* history: ids it has returned more than once
    wrapped     \* history: the sequence has passed MaxId

svars == <<file, maybe, lock, step, last, candidate, synced, live, issued,
           reissued, wrapped>>

SequenceInit ==
    /\ file = 0
    /\ maybe = {0}
    /\ lock = Nobody
    /\ step = [p \in Processes |-> "idle"]
    /\ last = [p \in Processes |-> 0]
    /\ candidate = [p \in Processes |-> 0]
    /\ synced = [p \in Processes |-> FALSE]
    /\ live = [p \in Processes |-> {}]
    /\ issued = {}
    /\ reissued = {}
    /\ wrapped = FALSE

GoTo(p, s) == step' = [step EXCEPT ![p] = s]

\* Back from allocate, its locals are gone.
Leave(p) ==
    /\ GoTo(p, "idle")
    /\ last' = [last EXCEPT ![p] = 0]
    /\ candidate' = [candidate EXCEPT ![p] = 0]
    /\ synced' = [synced EXCEPT ![p] = FALSE]

\* Seeded fault: the file is read before the lock is taken.
EnterUnlocked(p) ==
    /\ step[p] = "idle"
    /\ file # Torn
    /\ last' = [last EXCEPT ![p] = file]
    /\ candidate' = [candidate EXCEPT ![p] = file]
    /\ lock' = p
    /\ GoTo(p, "try")
    /\ UNCHANGED <<file, maybe, synced, live, issued, reissued, wrapped>>

\* flock(LOCK_EX), then _read. A file that cannot be read raises.
Enter(p) ==
    /\ step[p] = "idle"
    /\ lock = Nobody
    /\ file # Torn
    /\ lock' = p
    /\ last' = [last EXCEPT ![p] = file]
    /\ candidate' = [candidate EXCEPT ![p] = file]
    /\ GoTo(p, "try")
    /\ UNCHANGED <<file, maybe, synced, live, issued, reissued, wrapped>>

Successor(n) == IF n = MaxId THEN 1 ELSE n + 1

\* Seeded fault: an id in use is not skipped.
TakesAny(p, n) == TRUE

Takes(p, n) == n \notin live[p]

\* One turn of the loop: the next id that is not in use; back at the start,
\* the id space is exhausted and allocate raises.
Try(p) ==
    LET n == Successor(candidate[p]) IN
    /\ step[p] = "try"
    /\ wrapped' = (wrapped \/ n <= candidate[p])
    /\ IF n = last[p] /\ ~Takes(p, n)
       THEN Leave(p) /\ lock' = Nobody
       ELSE /\ candidate' = [candidate EXCEPT ![p] = n]
            /\ GoTo(p, IF Takes(p, n) THEN "write" ELSE "try")
            /\ UNCHANGED <<lock, last, synced>>
    /\ UNCHANGED <<file, maybe, live, issued, reissued>>

\* The temporary file is truncated and written.
WriteTemporary(p) ==
    /\ step[p] = "write"
    /\ synced' = [synced EXCEPT ![p] = FALSE]
    /\ GoTo(p, "sync")
    /\ UNCHANGED <<file, maybe, lock, last, candidate, live, issued,
                   reissued, wrapped>>

\* Seeded fault: the data is left to the kernel.
SkipSync(p) ==
    /\ step[p] = "sync"
    /\ GoTo(p, "replace")
    /\ UNCHANGED <<file, maybe, lock, last, candidate, synced, live, issued,
                   reissued, wrapped>>

SyncTemporary(p) ==
    /\ step[p] = "sync"
    /\ synced' = [synced EXCEPT ![p] = TRUE]
    /\ GoTo(p, "replace")
    /\ UNCHANGED <<file, maybe, lock, last, candidate, live, issued,
                   reissued, wrapped>>

\* os.replace
Replace(p) ==
    /\ step[p] = "replace"
    /\ file' = candidate[p]
    /\ maybe' = maybe \cup {candidate[p]} \cup (IF synced[p] THEN {} ELSE {Torn})
    /\ GoTo(p, "syncdir")
    /\ UNCHANGED <<lock, last, candidate, synced, live, issued, reissued,
                   wrapped>>

\* Seeded fault: the directory is not synced.
SkipSyncDirectory(p) ==
    /\ step[p] = "syncdir"
    /\ GoTo(p, "return")
    /\ UNCHANGED <<file, maybe, lock, last, candidate, synced, live, issued,
                   reissued, wrapped>>

\* fsync of the state directory makes every rename so far durable.
SyncDirectory(p) ==
    /\ step[p] = "syncdir"
    /\ maybe' = {file}
    /\ GoTo(p, "return")
    /\ UNCHANGED <<file, lock, last, candidate, synced, live, issued,
                   reissued, wrapped>>

\* The lock goes with its stream, and the admission context takes the id.
Return(p) ==
    /\ step[p] = "return"
    /\ lock' = Nobody
    /\ issued' = issued \cup {candidate[p]}
    /\ reissued' = reissued \cup (issued \cap {candidate[p]})
    /\ live' = [live EXCEPT ![p] = @ \cup {candidate[p]}]
    /\ Leave(p)
    /\ UNCHANGED <<file, maybe, wrapped>>

\* Any of the calls may raise; the lock and the id are given up.
Fail(p) ==
    /\ step[p] \in {"write", "sync", "replace", "syncdir"}
    /\ lock' = Nobody
    /\ Leave(p)
    /\ UNCHANGED <<file, maybe, live, issued, reissued, wrapped>>

\* A reservation ends. The admission context is under the controller's lock,
\* so not while this process allocates.
EndReservation(p, r) ==
    /\ step[p] = "idle"
    /\ r \in live[p]
    /\ live' = [live EXCEPT ![p] = @ \ {r}]
    /\ UNCHANGED <<file, maybe, lock, step, last, candidate, synced, issued,
                   reissued, wrapped>>

\* A process is killed and started again. Its admission context was memory.
Kill(p) ==
    /\ Leave(p)
    /\ lock' = IF lock = p THEN Nobody ELSE lock
    /\ live' = [live EXCEPT ![p] = {}]
    /\ UNCHANGED <<file, maybe, issued, reissued, wrapped>>

PowerLoss ==
    /\ \E v \in maybe : file' = v /\ maybe' = {v}
    /\ lock' = Nobody
    /\ step' = [p \in Processes |-> "idle"]
    /\ last' = [p \in Processes |-> 0]
    /\ candidate' = [p \in Processes |-> 0]
    /\ synced' = [p \in Processes |-> FALSE]
    /\ live' = [p \in Processes |-> {}]
    /\ UNCHANGED <<issued, reissued, wrapped>>

Allocate(p) ==
    \/ Enter(p)
    \/ Try(p)
    \/ WriteTemporary(p)
    \/ SyncTemporary(p)
    \/ Replace(p)
    \/ SyncDirectory(p)
    \/ Return(p)

SequenceNext ==
    \/ \E p \in Processes :
          \/ Allocate(p)
          \/ Fail(p)
          \/ \E r \in live[p] : EndReservation(p, r)
          \/ Kill(p)
    \/ PowerLoss

SequenceSpec == SequenceInit /\ [][SequenceNext]_svars

----------------------------------------------------------------------------
\* Until the sequence passes MaxId no id is handed out twice, across
\* processes, kills and power losses: the id is durable before allocate
\* returns it.
NeverReissued == ~wrapped => reissued = {}

\* Past MaxId as well, a process is never handed an id that one of its own
\* reservations still has.
NeverInUse ==
    \A p \in Processes : step[p] = "return" => candidate[p] \notin live[p]

\* No order of kills and power losses leaves a file that _read refuses, which
\* would keep the QPM from starting (_validate_existing).
AlwaysReadable == file # Torn

\* An id names one reservation, before and after crashes, and the file that
\* says so can be read.
IdsSound ==
    NeverReissued /\ NeverInUse /\ AlwaysReadable
=============================================================================
