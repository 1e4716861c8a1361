--------------------------- MODULE QiskitPrimitives ---------------------------
(***************************************************************************)
(* The Qiskit client: what happens between a sampler's or estimator's run  *)
(* and the results it hands back (backends/qfw_qiskit).                    *)
(*                                                                         *)
(* A run groups its pubs by shots, flattens each group's circuits into one *)
(* list, cuts that list into jobs of at most max_circuits circuits,        *)
(* submits every job and then reads them one after the other.  All jobs of *)
(* a backend, those of concurrent runs included, read the completion       *)
(* events of one queue; the QPM completes circuits in any order, and sends *)
(* one event for every registration it holds.                              *)
(***************************************************************************)
EXTENDS Naturals, Sequences, FiniteSets, SequencesExt

CONSTANTS
    PrimitiveRuns,  \* concurrent run() calls on one backend
    Pubs,           \* run |-> sequence of [shots, size]: pubs and their circuits
    MaxCircuits,    \* QFwBackend.max_circuits
    MaxReconnects   \* bound: reconnects of the managed QPM binding

ASSUME PubsAssumption ==
    /\ MaxCircuits \in Nat \ {0}
    /\ \A r \in PrimitiveRuns : \A i \in DOMAIN Pubs[r] : Pubs[r][i].size > 0

VARIABLES
    stage,      \* run |-> "submit", "read", "done" or "error"
    group,      \* run |-> which group of equal shots it is at
    sent,       \* run |-> circuits of the group submitted
    jobsRead,   \* run |-> jobs of the group whose result was collected
    got,        \* run |-> events the job now read has taken, in order
    collected,  \* run |-> results of the group's earlier jobs
    pubResult,  \* run |-> pub |-> its results
    inflight,   \* circuits the QPM is running
    eventQueue, \* the backend's event queue
    regs,       \* event registrations the QPM holds for this backend
    booked,     \* the backend believes it is registered
    orderly,    \* run |-> no event of it was late, lost, failed or taken away
    reconnects

qvars == <<stage, group, sent, jobsRead, got, collected, pubResult, inflight,
           eventQueue, regs, booked, orderly, reconnects>>

progress == <<stage, group, sent, jobsRead, got, collected, pubResult>>
events   == <<inflight, eventQueue, regs, booked, reconnects>>

-----------------------------------------------------------------------------
\* The plan of a run.

\* The distinct shots in the order the pubs name them (a dict of lists).
ShotGroups(r) ==
    LET first(i) == \A j \in 1 .. i - 1 : Pubs[r][j].shots # Pubs[r][i].shots
        firsts == SelectSeq([i \in DOMAIN Pubs[r] |-> i], first) IN
    [g \in DOMAIN firsts |-> Pubs[r][firsts[g]].shots]

\* The pubs of a group, by index.
Members(r, g) ==
    LET in(i) == Pubs[r][i].shots = ShotGroups(r)[g] IN
    SelectSeq([i \in DOMAIN Pubs[r] |-> i], in)

\* A circuit is <<run, pub, index in the pub>>; the group's flat list.
OwnCircuits(r, p) == [k \in 1 .. Pubs[r][p].size |-> <<r, p, k>>]

Flat(r, g) == FlattenSeq([m \in DOMAIN Members(r, g) |->
                            OwnCircuits(r, Members(r, g)[m])])

Plan == [r \in PrimitiveRuns |-> [g \in DOMAIN ShotGroups(r) |->
            [pubs |-> Members(r, g), circuits |-> Flat(r, g)]]]

\* circuits[pos : pos + max_circuits]
Least(a, b) == IF a < b THEN a ELSE b

JobCircuits(r, g, j) ==
    LET flat == Plan[r][g].circuits IN
    SubSeq(flat, (j - 1) * MaxCircuits + 1, Least(j * MaxCircuits, Len(flat)))

JobCount(r, g) == (Len(Plan[r][g].circuits) + MaxCircuits - 1) \div MaxCircuits

\* Cutting the group's results into its pubs, by position: start:end.  A
\* pub's start is the number of circuits of the group's pubs before it.
Start(r, g, p) == Cardinality({c \in Range(Plan[r][g].circuits) : c[2] < p})

SliceFromStart(r, g, p, results) ==
    SubSeq(results, 1, Least(Pubs[r][p].size, Len(results)))

Slice(r, g, p, results) ==
    LET start == Start(r, g, p) IN
    SubSeq(results, start + 1, Least(start + Pubs[r][p].size, Len(results)))

Scatter(r, g, results) ==
    [p \in DOMAIN Pubs[r] |->
        IF p \in Range(Plan[r][g].pubs) THEN Slice(r, g, p, results)
                                        ELSE pubResult[r][p]]

-----------------------------------------------------------------------------

PrimitivesInit ==
    /\ stage = [r \in PrimitiveRuns |-> "submit"]
    /\ group = [r \in PrimitiveRuns |-> 1]
    /\ sent = [r \in PrimitiveRuns |-> 0]
    /\ jobsRead = [r \in PrimitiveRuns |-> 0]
    /\ got = [r \in PrimitiveRuns |-> <<>>]
    /\ collected = [r \in PrimitiveRuns |-> <<>>]
    /\ pubResult = [r \in PrimitiveRuns |-> [p \in DOMAIN Pubs[r] |-> <<>>]]
    /\ inflight = {} /\ eventQueue = <<>>
    /\ regs = 1 /\ booked = TRUE       \* registered when the backend is made
    /\ orderly = [r \in PrimitiveRuns |-> TRUE]
    /\ reconnects = 0

\* submit / _run_experiment_async: one circuit after the other.  A refusal
\* ends the run; what was submitted before goes on running.
SubmitCircuit(r) ==
    /\ stage[r] = "submit"
    /\ sent' = [sent EXCEPT ![r] = @ + 1]
    /\ inflight' = inflight \cup {Plan[r][group[r]].circuits[sent'[r]]}
    /\ stage' = [stage EXCEPT ![r] =
                   IF sent'[r] = Len(Plan[r][group[r]].circuits) THEN "read" ELSE @]
    /\ UNCHANGED <<group, jobsRead, got, collected, pubResult, eventQueue, regs,
                   booked, orderly, reconnects>>

SubmitRefused(r) ==
    /\ stage[r] = "submit"
    /\ stage' = [stage EXCEPT ![r] = "error"]
    /\ UNCHANGED <<group, sent, jobsRead, got, collected, pubResult, events, orderly>>

Expected(r) == Range(JobCircuits(r, group[r], jobsRead[r] + 1))

\* The event filter of _result_reader: circuits of this job, each once.
TakesRepeats(r, e, taken) == e.cid \in Expected(r)

Takes(r, e, taken) ==
    e.cid \in Expected(r) /\ \A i \in DOMAIN taken : taken[i].cid # e.cid

\* One pass of the loop of _result_reader: all queued events are taken from
\* the queue, the ones that are not this job's are dropped.
ReadEvents(r) ==
    LET add(acc, e) == IF Takes(r, e, acc) THEN Append(acc, e) ELSE acc
        taken == FoldLeft(add, got[r], eventQueue)
        inOrder(seq, want) == \A i \in DOMAIN seq : i <= Len(want) /\ seq[i].cid = want[i]
    IN
    /\ stage[r] = "read" /\ eventQueue # <<>>
    /\ Len(got[r]) < Cardinality(Expected(r))
    /\ got' = [got EXCEPT ![r] = taken]
    /\ eventQueue' = <<>>
    /\ orderly' = [s \in PrimitiveRuns |->
          /\ orderly[s]
          /\ s = r => inOrder(taken, JobCircuits(r, group[r], jobsRead[r] + 1))
          /\ \A i \in DOMAIN eventQueue :
                eventQueue[i].cid[1] = s =>
                    \E k \in DOMAIN taken : taken[k].cid = eventQueue[i].cid]
    /\ UNCHANGED <<stage, group, sent, jobsRead, collected, pubResult, inflight,
                   regs, booked, reconnects>>

\* The job has all its events, or COMPLETION_TIMEOUT_SEC has passed: no event
\* or a failed circuit raises, otherwise the results are assembled in the
\* order the events came (_collect_result, _raise_for_failed_results).
EndJob(r) ==
    LET complete == Len(got[r]) = Cardinality(Expected(r))
        good == got[r] # <<>> /\ \A i \in DOMAIN got[r] : got[r][i].ok
        all == collected[r] \o [i \in DOMAIN got[r] |-> got[r][i].cid]
        last == jobsRead[r] + 1 = JobCount(r, group[r])
        over == last /\ group[r] = Len(Plan[r])
    IN
    /\ stage[r] = "read"
    /\ IF ~good
       THEN /\ stage' = [stage EXCEPT ![r] = "error"]
            /\ UNCHANGED <<group, sent, jobsRead, got, collected, pubResult>>
       ELSE /\ stage' = [stage EXCEPT ![r] = IF over THEN "done"
                                             ELSE IF last THEN "submit" ELSE @]
            /\ group' = [group EXCEPT ![r] = IF last /\ ~over THEN @ + 1 ELSE @]
            /\ sent' = [sent EXCEPT ![r] = IF last THEN 0 ELSE @]
            /\ jobsRead' = [jobsRead EXCEPT ![r] = IF last THEN 0 ELSE @ + 1]
            /\ got' = [got EXCEPT ![r] = <<>>]
            /\ collected' = [collected EXCEPT ![r] = IF last THEN <<>> ELSE all]
            /\ pubResult' = [pubResult EXCEPT ![r] =
                               IF last THEN Scatter(r, group[r], all) ELSE @]
    /\ orderly' = [orderly EXCEPT ![r] = @ /\ complete /\ good]
    /\ UNCHANGED events

-----------------------------------------------------------------------------
\* The QPM completes a circuit and pushes its event once per registration.
CircuitCompletes(c) ==
    /\ c \in inflight
    /\ inflight' = inflight \ {c}
    /\ \E ok \in BOOLEAN :
         eventQueue' = eventQueue \o [i \in 1 .. regs |-> [cid |-> c, ok |-> ok]]
    /\ orderly' = [orderly EXCEPT ![c[1]] = @ /\ regs > 0]
    /\ UNCHANGED <<progress, regs, booked, reconnects>>

\* The managed binding reconnects (_handle_qpm_reconnect).  The same QPMd: the
\* previous registration is taken back, which may fail unseen, and a new one
\* made.  A new QPMd knows no registration, and none is made.
Reconnect ==
    /\ reconnects < MaxReconnects
    /\ reconnects' = reconnects + 1
    /\ \/ \E kept \in {0, IF booked /\ regs > 0 THEN regs - 1 ELSE regs, regs} :
            regs' = kept + 1 /\ booked' = TRUE /\ UNCHANGED inflight
       \/ regs' = 0 /\ booked' = FALSE /\ inflight' = {}
    /\ UNCHANGED <<progress, eventQueue, orderly>>

PrimitivesNext ==
    \/ \E r \in PrimitiveRuns :
          SubmitCircuit(r) \/ SubmitRefused(r) \/ ReadEvents(r) \/ EndJob(r)
    \/ \E c \in inflight : CircuitCompletes(c)
    \/ Reconnect

PrimitivesSpec == PrimitivesInit /\ [][PrimitivesNext]_qvars

-----------------------------------------------------------------------------

\* The results a job assembles are of its own circuits and of each at most
\* once, although the jobs of a backend share one event queue and a reconnect
\* can leave two registrations behind, hence two events for a circuit.
OwnResultsOnce ==
    \A r \in PrimitiveRuns :
        /\ Range([i \in DOMAIN got[r] |-> got[r][i].cid]) \subseteq Expected(r)
        /\ \A i, j \in DOMAIN got[r] : got[r][i].cid = got[r][j].cid => i = j

\* If the events of a run came complete and in the order of submission, each
\* pub gets the results of its own circuits: grouping by shots, cutting into
\* jobs and slicing back by position lose and mix nothing.
OrderlyRunsAreRight ==
    \A r \in PrimitiveRuns :
        stage[r] = "done" /\ orderly[r] =>
            \A p \in DOMAIN Pubs[r] : pubResult[r][p] = OwnCircuits(r, p)

\* A pub's results are those of its own circuits, each once.
ResultsAreOwn ==
    OwnResultsOnce /\ OrderlyRunsAreRight
=============================================================================
