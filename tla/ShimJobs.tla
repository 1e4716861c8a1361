------------------------------- MODULE ShimJobs -------------------------------
(***************************************************************************)
(* A circuit's way through the shim QPM (services/svc_lib_qpm): the run    *)
(* queue of svc_qrc.py starts a thread per circuit, frontend.py routes it  *)
(* to a driver, and the QRMI or QDMI driver submits it to the provider,    *)
(* polls it, fetches the result and records the job.                       *)
(*                                                                         *)
(* The QPM may cancel a circuit at any time, the provider may refuse a     *)
(* call as rate-limited for as long as it likes, a call may fail, and the  *)
(* job's deadline may pass.  The provider and its jobs are external.       *)
(***************************************************************************)
EXTENDS Naturals, FiniteSets, Sequences, SequencesExt

CONSTANTS
    ShimCircuits,  \* circuits handed to async_run
    Names,         \* libraries their callers may name: functions of circuits
    Caps,          \* call |-> sequence of libraries, from the descriptor
    Wired,         \* libraries wired for the resource
    ExecutionOwner, Preference,
    RecordLimit,   \* JobRecords.LIMIT and TASK_LIBRARY_LIMIT
    MaxFaults,     \* bound: provider calls that fail
    NoLib

VARIABLES
    named,      \* circuit |-> the library its caller named, or NoLib
    jpc,        \* circuit |-> where its thread is
    driver,     \* circuit |-> the driver that runs it
    event,      \* circuit |-> "none", "clear" or "set": its cancel event
    deadline,   \* circuit |-> "none", "ahead" or "past"
    job,        \* circuit |-> provider job: "none", "running", "completed",
                \*             "failed" or "cancelled"
    given,      \* circuit |-> the result handed on: "none", "ok" or "error"
    jobRecords, \* driver |-> the circuits it holds a record of, oldest first
    libraries,  \* sequence of [cid, lib] the run queue remembers
    lapses,     \* circuits one of whose provider calls failed
    faults

jvars == <<named, jpc, driver, event, deadline, job, given, jobRecords,
           libraries, lapses, faults>>

Drivers == {"qrmi", "qdmi"}

-----------------------------------------------------------------------------
(* frontend.py                                                             *)

\* _candidates
Candidates(call) == SelectSeq(Caps[call], LAMBDA l : l \in Wired)

\* route: an explicit library must serve the call; an execution call goes to
\* the execution owner; then the preference, then the first candidate.
Route(call, lib) ==
    LET cands == Candidates(call) IN
    IF cands = <<>> THEN NoLib
    ELSE IF lib # NoLib THEN IF lib \in Range(cands) THEN lib ELSE NoLib
    ELSE IF ExecutionOwner \in Range(cands) THEN ExecutionOwner
    ELSE IF Len(cands) > 1 /\ Preference \in Range(cands) THEN Preference
    ELSE cands[1]

-----------------------------------------------------------------------------
(* JobRecords.put and _remember_task_library: bounded, the oldest goes.    *)

Newest(seq) == IF Len(seq) > RecordLimit THEN Tail(seq) ELSE seq

PutRecord(c, d) == [jobRecords EXCEPT ![d] =
                 Newest(Append(SelectSeq(@, LAMBDA x : x # c), c))]

\* a circuit is remembered under the library that owns execution
RememberOwner(c, lib) ==
    Newest(Append(SelectSeq(libraries, LAMBDA x : x.cid # c),
                  [cid |-> c, lib |-> ExecutionOwner]))

Remember(c, lib) ==
    Newest(Append(SelectSeq(libraries, LAMBDA x : x.cid # c),
                  [cid |-> c, lib |-> lib]))

\* _task_library
TaskLibrary(c) ==
    LET mine == SelectSeq(libraries, LAMBDA x : x.cid = c) IN
    IF mine = <<>> THEN NoLib ELSE mine[1].lib

-----------------------------------------------------------------------------
JobsInit ==
    /\ named \in Names
    /\ jpc = [c \in ShimCircuits |-> "new"]
    /\ driver = [c \in ShimCircuits |-> NoLib]
    /\ event = [c \in ShimCircuits |-> "none"]
    /\ deadline = [c \in ShimCircuits |-> "none"]
    /\ job = [c \in ShimCircuits |-> "none"]
    /\ given = [c \in ShimCircuits |-> "none"]
    /\ jobRecords = [d \in Drivers |-> <<>>]
    /\ libraries = <<>> /\ lapses = {} /\ faults = 0

\* A provider call of the circuit fails.
CallFails(c) ==
    /\ faults < MaxFaults /\ faults' = faults + 1
    /\ lapses' = lapses \cup {c}

JobGoto(c, where) == jpc' = [jpc EXCEPT ![c] = where]

\* _run_circuit's except branch: an error result, then the thread ends.
Fail(c) == JobGoto(c, "ending") /\ given' = [given EXCEPT ![c] = "error"]

Rest(c) == UNCHANGED <<named, event, deadline>>

\* async_run registers the cancel event and starts the thread.
ShimRun(c) ==
    /\ jpc[c] = "new" /\ JobGoto(c, "route")
    /\ event' = [event EXCEPT ![c] = "clear"]
    /\ UNCHANGED <<named, driver, deadline, job, given, jobRecords, libraries,
                   lapses, faults>>

\* _route_run and the driver's work before it submits: opening the session,
\* reading the payload and encoding the circuit may fail; a cancel that came
\* first starts nothing.  Only QRMI jobs may run without a deadline.
Prepare(c) ==
    LET lib == Route("run_circuit", named[c]) IN
    /\ jpc[c] = "route"
    /\ libraries' = IF lib = NoLib THEN libraries ELSE Remember(c, lib)
    /\ driver' = [driver EXCEPT ![c] = lib]
    /\ \/ Fail(c) /\ UNCHANGED deadline
       \/ /\ lib # NoLib /\ event[c] # "set" /\ JobGoto(c, "submit")
          /\ \E d \in {"none", "ahead"} :
                /\ lib = "qdmi" => d = "ahead"
                /\ deadline' = [deadline EXCEPT ![c] = d]
          /\ UNCHANGED given
    /\ UNCHANGED <<named, event, job, jobRecords, lapses, faults>>

-----------------------------------------------------------------------------
(* _RateLimit.wait and _job_call                                           *)

\* the wait is a sleep: a cancel does not end it
WaitsOutSleeping(c) == deadline[c] # "past"

\* The call is made again unless the deadline passed or a cancel came.
WaitsOut(c) == deadline[c] # "past" /\ event[c] # "set"

\* Submitting: the job starts, the provider refuses for now, or it fails: then
\* the job may have been started all the same.
Submit(c) ==
    /\ jpc[c] = "submit"
    /\ \/ /\ job' = [job EXCEPT ![c] = "running"] /\ JobGoto(c, "poll")
          /\ UNCHANGED <<given, lapses, faults>>
       \/ /\ driver[c] = "qrmi" /\ JobGoto(c, "submitWait")
          /\ UNCHANGED <<job, given, lapses, faults>>
       \/ /\ CallFails(c) /\ Fail(c)
          /\ job' \in {job, [job EXCEPT ![c] = "running"]}
    /\ Rest(c) /\ UNCHANGED <<driver, jobRecords, libraries>>

SubmitWait(c) ==
    /\ jpc[c] = "submitWait"
    /\ IF WaitsOut(c) THEN JobGoto(c, "submit") /\ UNCHANGED given ELSE Fail(c)
    /\ Rest(c) /\ UNCHANGED <<driver, job, jobRecords, libraries, lapses, faults>>

\* _stop_task, _cancel_job: best effort.
StopJob(c) ==
    \/ /\ job' = [job EXCEPT ![c] = IF @ = "running" THEN "cancelled" ELSE @]
       /\ UNCHANGED <<lapses, faults>>
    \/ CallFails(c) /\ UNCHANGED job

\* Deleting a job that ended: QRMI does, except for Pasqal.
Delete(c) ==
    \/ driver[c] = "qrmi" /\ StopJob(c)
    \/ UNCHANGED <<job, lapses, faults>>

\* _timed_out that only reports
TimedOutRunning(c) == Fail(c) /\ UNCHANGED <<job, lapses, faults>>

\* _timed_out: the job is stopped, and the circuit fails.
TimedOut(c) == Fail(c) /\ StopJob(c)

\* The head of the poll loop: a cancel stops the job.
SeeCancel(c) ==
    /\ jpc[c] = "poll" /\ event[c] = "set"
    /\ StopJob(c) /\ JobGoto(c, "unfinished")
    /\ Rest(c) /\ UNCHANGED <<driver, given, jobRecords, libraries>>

\* One status poll.
PollJob(c) ==
    /\ jpc[c] = "poll" /\ event[c] # "set"
    /\ \/ /\ job[c] = "completed" /\ JobGoto(c, "result")
          /\ UNCHANGED <<job, given, lapses, faults>>
       \/ /\ job[c] \in {"failed", "cancelled"} /\ JobGoto(c, "unfinished")
          /\ UNCHANGED <<job, given, lapses, faults>>
       \/ job[c] = "running" /\ deadline[c] = "past" /\ TimedOut(c)
       \/ /\ job[c] = "running" /\ deadline[c] # "past"   \* pause, poll again
          /\ UNCHANGED <<jpc, job, given, lapses, faults>>
       \/ /\ driver[c] = "qrmi" /\ JobGoto(c, "pollWait")
          /\ UNCHANGED <<job, given, lapses, faults>>
       \/ CallFails(c) /\ Fail(c) /\ UNCHANGED job
    /\ Rest(c) /\ UNCHANGED <<driver, jobRecords, libraries>>

\* A refused poll is made again, unless the deadline passed without a cancel.
PollWait(c) ==
    /\ jpc[c] = "pollWait"
    /\ IF WaitsOut(c) \/ event[c] = "set"
       THEN JobGoto(c, "poll") /\ UNCHANGED <<job, given, lapses, faults>>
       ELSE TimedOut(c)
    /\ Rest(c) /\ UNCHANGED <<driver, jobRecords, libraries>>

\* A job that did not complete: its record is kept, and the circuit fails.
DidNotComplete(c) ==
    /\ jpc[c] = "unfinished" /\ Delete(c)
    /\ jobRecords' = PutRecord(c, driver[c])
    /\ Fail(c) /\ Rest(c) /\ UNCHANGED <<driver, libraries>>

\* task_result or get_counts.
FetchResult(c) ==
    /\ jpc[c] = "result"
    /\ \/ JobGoto(c, "record") /\ UNCHANGED <<given, lapses, faults>>
       \/ driver[c] = "qrmi" /\ JobGoto(c, "resultWait") /\ UNCHANGED <<given, lapses, faults>>
       \/ CallFails(c) /\ Fail(c)
    /\ Rest(c) /\ UNCHANGED <<driver, job, jobRecords, libraries>>

ResultWait(c) ==
    /\ jpc[c] = "resultWait"
    /\ IF WaitsOut(c) THEN JobGoto(c, "result") /\ UNCHANGED given ELSE Fail(c)
    /\ Rest(c) /\ UNCHANGED <<driver, job, jobRecords, libraries, lapses, faults>>

\* The finished task is deleted, the record kept and the result handed on.
RecordJob(c) ==
    /\ jpc[c] = "record"
    /\ Delete(c) /\ jobRecords' = PutRecord(c, driver[c])
    /\ given' = [given EXCEPT ![c] = "ok"] /\ JobGoto(c, "ending")
    /\ Rest(c) /\ UNCHANGED <<driver, libraries>>

\* _async_runner: the event is dropped, resources are freed and the result is
\* pushed or stored.
EndRun(c) ==
    /\ jpc[c] = "ending" /\ JobGoto(c, "over")
    /\ event' = [event EXCEPT ![c] = "none"]
    /\ UNCHANGED <<named, driver, deadline, job, given, jobRecords, libraries,
                   lapses, faults>>

-----------------------------------------------------------------------------
\* cancel, or shutdown for every circuit at once: the event is set.
Cancel(cs) ==
    /\ \E c \in cs : event[c] = "clear"
    /\ event' = [c \in ShimCircuits |->
                    IF c \in cs /\ event[c] = "clear" THEN "set" ELSE event[c]]
    /\ UNCHANGED <<named, jpc, driver, deadline, job, given, jobRecords, libraries,
                   lapses, faults>>

DeadlinePasses(c) ==
    /\ deadline[c] = "ahead" /\ jpc[c] # "over"
    /\ deadline' = [deadline EXCEPT ![c] = "past"]
    /\ UNCHANGED <<named, jpc, driver, event, job, given, jobRecords, libraries,
                   lapses, faults>>

\* The provider ends a job.
JobEnds(c) ==
    /\ job[c] = "running"
    /\ \E s \in {"completed", "failed", "cancelled"} : job' = [job EXCEPT ![c] = s]
    /\ UNCHANGED <<named, jpc, driver, event, deadline, given, jobRecords, libraries,
                   lapses, faults>>

Thread(c) ==
    \/ Prepare(c) \/ Submit(c) \/ SubmitWait(c) \/ SeeCancel(c) \/ PollJob(c)
    \/ PollWait(c) \/ DidNotComplete(c) \/ FetchResult(c) \/ ResultWait(c)
    \/ RecordJob(c) \/ EndRun(c)

JobsNext ==
    \/ \E c \in ShimCircuits : ShimRun(c) \/ Thread(c) \/ DeadlinePasses(c) \/ JobEnds(c)
    \/ \E c \in ShimCircuits : Cancel({c})
    \/ Cancel(ShimCircuits)

JobsSpec == JobsInit /\ [][JobsNext]_jvars

\* A thread that can move does; nothing obliges the provider to answer, to stop
\* refusing, or to end a job.
JobsFairness == \A c \in ShimCircuits : WF_jvars(Thread(c))

FairJobs == JobsSpec /\ JobsFairness

-----------------------------------------------------------------------------
\* A circuit QFw is through with leaves no job running at the provider, unless
\* one of its calls to the provider failed: a cancel or a deadline stops it.
NothingLeftRunning ==
    \A c \in ShimCircuits : jpc[c] = "over" /\ c \notin lapses => job[c] # "running"

\* A lookup goes to the library that ran the circuit: while the run queue
\* remembers a circuit a driver has a record of, it names that driver.
LookupFindsRunner ==
    \A d \in Drivers : \A c \in Range(jobRecords[d]) : TaskLibrary(c) \in {d, NoLib}

\* QFw knows of every job it started where it is, until it has ended.
JobsFollowed ==
    NothingLeftRunning /\ LookupFindsRunner

\* A cancelled circuit ends, even while the provider refuses every call: no
\* event stays set for ever, and only the end of the circuit's thread drops it.
CancelEnds == []<>(\A c \in ShimCircuits : event[c] # "set")
=============================================================================
