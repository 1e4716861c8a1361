--------------------------- MODULE PulserConnection ---------------------------
(***************************************************************************)
(* The Pulser client (backends/qfw_pulser/qfw_connection.py): a batch of   *)
(* jobs submitted one by one to a QPM, followed by polling the completion  *)
(* queue, and cancelled job by job.                                        *)
(*                                                                         *)
(* Reading a completion removes it from the QPM, so a reply that is lost   *)
(* takes the outcome with it: the QPM then answers IN_PROGRESS.  The QPM's *)
(* side is external: a task is queued, submitted, ended, and its           *)
(* completion read or evicted.                                             *)
(***************************************************************************)
EXTENDS Naturals, FiniteSets

CONSTANTS
    BatchJobs,    \* number of jobs of the batch
    MaxLost       \* bound: replies lost, requests refused, completions evicted

ASSUME BatchAssumption == BatchJobs \in Nat

VARIABLES
    task,      \* job |-> the QPM's task: "none", "queued", "submitted", or how
               \*         it ended: "ok", "failed", "cancelled"
    retained,  \* job |-> its completion at the QPM: "no", "yes" or "evicted"
    accepted,  \* jobs whose cid the connection holds
    status,    \* job |-> JobStatus
    phase,     \* "submit", "refused" (forgotten), "open" (the caller has it),
               \* "update" (cancel_batch polls first) or "cancel"
    left,      \* jobs the running loop has still to poll or to cancel
    asked,     \* jobs whose last cancellation the QPM took
    refused,   \* jobs whose last cancellation failed, as the error reports
    lost

bvars == <<task, retained, accepted, status, phase, left, asked, refused, lost>>

BatchJob == 1 .. BatchJobs
EndedTask == {"ok", "failed", "cancelled"}
Unfinished == {"PENDING", "RUNNING"}
First(jobs) == CHOOSE j \in jobs : \A k \in jobs : j <= k

ConnectionInit ==
    /\ task = [j \in BatchJob |-> "none"]
    /\ retained = [j \in BatchJob |-> "no"]
    /\ accepted = {} /\ status = [j \in BatchJob |-> "PENDING"]
    /\ phase = "submit" /\ left = {} /\ asked = {} /\ refused = {}
    /\ lost = 0

Fault == lost < MaxLost /\ lost' = lost + 1

-----------------------------------------------------------------------------
\* submit: the next job is accepted ...
SubmitJob ==
    LET j == Cardinality(accepted) + 1 IN
    /\ phase = "submit" /\ j \in BatchJob
    /\ task' = [task EXCEPT ![j] = "queued"]
    /\ accepted' = accepted \cup {j}
    /\ phase' = IF j = BatchJobs THEN "open" ELSE phase
    /\ UNCHANGED <<retained, status, left, asked, refused, lost>>

\* ... or async_run raises, perhaps after the QPM took the job: with no job
\* accepted the batch is forgotten, otherwise all accepted jobs are cancelled.
SubmitFails ==
    LET j == Cardinality(accepted) + 1 IN
    /\ phase = "submit" /\ j \in BatchJob /\ Fault
    /\ task' \in {task, [task EXCEPT ![j] = "queued"]}
    /\ phase' = IF accepted = {} THEN "refused" ELSE "cancel"
    /\ left' = accepted
    /\ UNCHANGED <<retained, accepted, status, asked, refused>>

\* One cancel_task request.  The QPM cancels a queued task, or a submitted one
\* if the provider lets it, answers COMPLETED for one that has ended, and may
\* refuse or not answer: the failure is kept and the next job is asked.
CancelTask(j) ==
    \/ /\ \/ /\ task[j] \in {"queued", "submitted"}
             /\ task' = [task EXCEPT ![j] = "cancelled"]
             /\ retained' = [retained EXCEPT ![j] = "yes"]
          \/ task[j] # "queued" /\ UNCHANGED <<task, retained>>
       /\ asked' = asked \cup {j} /\ refused' = refused \ {j} /\ UNCHANGED lost
    \/ /\ Fault
       /\ refused' = refused \cup {j} /\ asked' = asked \ {j}
       /\ UNCHANGED <<task, retained>>

\* The report goes to the caller with the end of the call; the one of a submit
\* that failed is kept, as a history variable.
Report ==
    IF Cardinality(accepted) = BatchJobs THEN asked' = {} /\ refused' = {}
    ELSE UNCHANGED <<asked, refused>>

\* Seeded fault: _cancel gives up at the first request that fails.
CancelFirst ==
    /\ phase = "cancel"
    /\ IF left = {} \/ refused # {}
       THEN phase' = "open" /\ left' = {} /\ Report /\ UNCHANGED <<task, retained, lost>>
       ELSE CancelTask(First(left)) /\ left' = left \ {First(left)} /\ UNCHANGED phase
    /\ UNCHANGED <<accepted, status>>

\* _cancel asks for one job after the other, then the caller gets its report.
CancelRest ==
    /\ phase = "cancel"
    /\ IF left = {}
       THEN phase' = "open" /\ Report /\ UNCHANGED <<task, retained, left, lost>>
       ELSE CancelTask(First(left)) /\ left' = left \ {First(left)} /\ UNCHANGED phase
    /\ UNCHANGED <<accepted, status>>

-----------------------------------------------------------------------------
\* Seeded fault: a completion that is not a failure counts as a success.
ResultUnlessFailed(answer, before) ==
    CASE answer \in {"ok", "cancelled"} -> "DONE"
      [] answer \in {"failed", "no-longer"} -> "ERROR"
      [] answer = "submitted" -> "RUNNING"
      [] OTHER -> before

\* What the answer of read_cq makes of the job.
ResultOf(answer, before) ==
    CASE answer = "ok" -> "DONE"
      [] answer = "cancelled" -> "CANCELED"
      [] answer \in {"failed", "no-longer"} -> "ERROR"
      [] answer = "submitted" -> "RUNNING"
      [] OTHER -> before

\* read_cq at the QPM: a completion that was read is no longer known of.
Answer(j) ==
    IF retained[j] = "evicted" THEN "no-longer"
    ELSE IF task[j] \in EndedTask /\ retained[j] = "no" THEN "in-progress"
    ELSE task[j]

\* _update: an unfinished job is read, which removes its completion, and the
\* reply may be lost.
Update(j) ==
    IF status[j] \in Unfinished
    THEN /\ retained' = [retained EXCEPT ![j] = IF @ = "yes" THEN "no" ELSE @]
         /\ \/ status' = [status EXCEPT ![j] = ResultOf(Answer(j), @)] /\ UNCHANGED lost
            \/ Fault /\ UNCHANGED status
    ELSE UNCHANGED <<retained, status, lost>>

\* _wait, _query_job_progress and _fetch_result poll the batch's jobs.
QueryJob(j) ==
    /\ phase = "open" /\ j \in accepted /\ Update(j)
    /\ UNCHANGED <<task, accepted, phase, left, asked, refused>>

\* cancel_batch polls every job, whatever comes of it, ...
CancelBatch ==
    /\ phase = "open" /\ \E j \in accepted : status[j] \in Unfinished
    /\ phase' = "update" /\ left' = accepted
    /\ UNCHANGED <<task, retained, accepted, status, asked, refused, lost>>

\* ... and then asks for those that still look unfinished.
CancelUpdates ==
    /\ phase = "update"
    /\ IF left = {}
       THEN /\ phase' = "cancel" /\ left' = {j \in accepted : status[j] \in Unfinished}
            /\ UNCHANGED <<retained, status, lost>>
       ELSE Update(First(left)) /\ left' = left \ {First(left)} /\ UNCHANGED phase
    /\ UNCHANGED <<task, accepted, asked, refused>>

\* The batch status of _get_batch_status.
BatchStatus ==
    LET all == {status[j] : j \in accepted} IN
    IF all \cap Unfinished # {}
    THEN IF all = {"PENDING"} THEN "PENDING" ELSE "RUNNING"
    ELSE IF all = {"DONE"} THEN "DONE"
    ELSE IF "ERROR" \in all THEN "ERROR" ELSE "CANCELED"

-----------------------------------------------------------------------------
\* The QPM moves its tasks on, and evicts completions nobody read.
TaskMoves(j) ==
    /\ \/ task[j] = "queued" /\ task' = [task EXCEPT ![j] = "submitted"]
          /\ UNCHANGED retained
       \/ task[j] = "submitted" /\ \E e \in EndedTask : task' = [task EXCEPT ![j] = e]
          /\ retained' = [retained EXCEPT ![j] = "yes"]
    /\ UNCHANGED <<accepted, status, phase, left, asked, refused, lost>>

Evict(j) ==
    /\ retained[j] = "yes" /\ Fault
    /\ retained' = [retained EXCEPT ![j] = "evicted"]
    /\ UNCHANGED <<task, accepted, status, phase, left, asked, refused>>

ConnectionNext ==
    \/ SubmitJob \/ SubmitFails \/ CancelRest \/ CancelBatch \/ CancelUpdates
    \/ \E j \in BatchJob : QueryJob(j) \/ TaskMoves(j) \/ Evict(j)

ConnectionSpec == ConnectionInit /\ [][ConnectionNext]_bvars

-----------------------------------------------------------------------------
\* What the program is told of a finished job, and of a finished batch, is what
\* became of it: done only if it succeeded, cancelled only if it was, and an
\* error hides a success only if the completion was evicted unread.
StatusIsTrue ==
    /\ \A j \in accepted :
        /\ status[j] = "DONE" => task[j] = "ok"
        /\ status[j] = "CANCELED" => task[j] = "cancelled"
        /\ status[j] = "ERROR" => task[j] = "failed" \/ retained[j] = "evicted"
    /\ accepted # {} =>
        /\ BatchStatus = "DONE" => \A j \in accepted : task[j] = "ok"
        /\ BatchStatus = "CANCELED" => \A j \in accepted : task[j] \in {"ok", "cancelled"}

\* A submit that fails part way leaves no accepted job unasked: when the error
\* is raised each one was asked to cancel or is named as one that could not be.
EveryAcceptedAsked ==
    phase = "open" /\ Cardinality(accepted) < BatchJobs =>
        accepted \subseteq asked \cup refused

\* What a program learns of its batch is what became of it, also of a batch
\* that was submitted in part.
BatchIsTrue ==
    StatusIsTrue /\ EveryAcceptedAsked
=============================================================================
