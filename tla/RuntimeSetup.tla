---------------------------- MODULE RuntimeSetup ----------------------------
(***************************************************************************)
(* qfw-setup and qfw-teardown, run by jobs that share a run base           *)
(* directory.  A run has a state file, which lists the service planes it   *)
(* manages, and the base has one marker, `current`.  A service plane is    *)
(* what ServicePlane promises of it: start leaves it up, or down, or, when *)
(* a node was lost, up although start failed; stop succeeds, or fails and  *)
(* leaves it as it is.                                                     *)
(***************************************************************************)
EXTENDS Naturals, Sequences, FiniteSets

CONSTANTS Runs,      \* run ids
          Jobs,      \* Slurm jobs, each a shell with its own environment
          Roles,     \* the service planes of a run, in the order of their start
          NoRun

ASSUME RunsAssumption == NoRun \notin Runs \cup Jobs /\ Len(Roles) \in Nat

VARIABLES rstate,    \* rstate[r]: runtime-state.json, or NoRunState
          marker,    \* the run `current` names, or NoRun
          plane,     \* plane[r][k]: "none", "up" or "down"
          env,       \* env[j]: QFW_RUN_TMP_PATH and QFW_RUN_ID of the job
          at,        \* at[j]: the job's place in its command
          run,       \* run[j]: the run its command works on
          step,      \* step[j]: the role its command is at
          listed,    \* listed[j]: service_managers in its copy of the state
          bad        \* bad[j]: the teardown has errors to report

uvars == <<rstate, marker, plane, env, at, run, step, listed, bad>>

RoleIds == 1..Len(Roles)
NoRunState == [exists |-> FALSE, job |-> NoRun, managers |-> {}, complete |-> FALSE]

Removed(s) == [NoRunState EXCEPT !.job = s.job]

SetupInit ==
    /\ rstate = [r \in Runs |-> NoRunState]
    /\ marker = NoRun
    /\ plane = [r \in Runs |-> [k \in RoleIds |-> "none"]]
    /\ env = [j \in Jobs |-> [tmp |-> NoRun, id |-> NoRun]]
    /\ at = [j \in Jobs |-> "idle"]
    /\ run = [j \in Jobs |-> NoRun]
    /\ step = [j \in Jobs |-> 0]
    /\ listed = [j \in Jobs |-> {}]
    /\ bad = [j \in Jobs |-> FALSE]

Move(j, p, k) ==
    at' = [at EXCEPT ![j] = p] /\ step' = [step EXCEPT ![j] = k]

Done(j) ==
    /\ Move(j, "idle", 0)
    /\ run' = [run EXCEPT ![j] = NoRun]
    /\ listed' = [listed EXCEPT ![j] = {}]
    /\ bad' = [bad EXCEPT ![j] = FALSE]

\* A shell reads qfw-runtime-env.sh of a run; a job is submitted from a shell
\* and inherits its environment.
SourceEnv(j) ==
    /\ at[j] = "idle"
    /\ \E r \in Runs : /\ rstate[r].exists /\ rstate[r].complete
                       /\ env' = [env EXCEPT ![j] = [tmp |-> r, id |-> r]]
    /\ UNCHANGED <<rstate, marker, plane, at, run, step, listed, bad>>
Inherit(j) ==
    /\ at[j] = "idle"
    /\ \E i \in Jobs : env' = [env EXCEPT ![j] = env[i]]
    /\ UNCHANGED <<rstate, marker, plane, at, run, step, listed, bad>>

\* discard_inherited_environment drops QFW_RUN_TMP_PATH, and QFW_RUN_ID with
\* it; what is left of QFW_RUN_ID names the run, or a new id is made.
FreshRuns == {r \in Runs : rstate[r].job = NoRun}
RunIdsInherited(j) == IF env[j].id # NoRun THEN {env[j].id} ELSE FreshRuns
RunIds(j) ==
    IF env[j].tmp = NoRun /\ env[j].id # NoRun THEN {env[j].id} ELSE FreshRuns

\* prepare_run_state writes the state, without managers, and the marker.
PrepareRunState(j) ==
    /\ at[j] = "idle"
    /\ \E r \in RunIds(j) :
          /\ run' = [run EXCEPT ![j] = r]
          /\ rstate' = [rstate EXCEPT ![r] =
                           [NoRunState EXCEPT !.exists = TRUE, !.job = j]]
          /\ marker' = r
    /\ Move(j, "start", 1)
    /\ UNCHANGED <<plane, env, listed, bad>>

\* _start_job_local_services: a plane is started, then listed. A plane whose
\* start raises is not listed.
StartRole(j) ==
    /\ at[j] = "start" /\ step[j] <= Len(Roles)
    /\ \E up, ok \in BOOLEAN :
          /\ ok => up
          /\ plane' = [plane EXCEPT ![run[j]][step[j]] = IF up THEN "up" ELSE "down"]
          /\ IF ok THEN Move(j, "list", step[j]) ELSE Move(j, "clean", Len(Roles))
    /\ UNCHANGED <<rstate, marker, env, run, listed, bad>>
ListManager(j) ==
    /\ at[j] = "list"
    /\ listed' = [listed EXCEPT ![j] = @ \cup {step[j]}]
    /\ IF rstate[run[j]].exists
       THEN /\ rstate' = [rstate EXCEPT ![run[j]].managers = listed'[j]]
            /\ Move(j, "start", step[j] + 1)
       ELSE UNCHANGED rstate /\ Move(j, "clean", Len(Roles))
    /\ UNCHANGED <<marker, plane, env, run, bad>>

\* _wait_required_directories, and the end of qfw_setup.
CompleteSetup(j) ==
    /\ at[j] = "start" /\ step[j] > Len(Roles)
    /\ \/ /\ rstate[run[j]].exists
          /\ rstate' = [rstate EXCEPT ![run[j]].complete = TRUE]
          /\ Done(j)
       \/ Move(j, "clean", Len(Roles)) /\ UNCHANGED <<rstate, run, listed, bad>>
    /\ UNCHANGED <<marker, plane, env>>

\* _cleanup_application_service_managers takes the listed planes, last first;
\* a stop that raises is reported and the next one is taken.
StopManager(j) ==
    /\ at[j] \in {"clean", "teardown"} /\ step[j] > 0
    /\ Move(j, at[j], step[j] - 1)
    /\ IF step[j] \in listed[j]
       THEN \/ /\ plane' = [plane EXCEPT ![run[j]][step[j]] = "down"]
               /\ UNCHANGED bad
            \/ /\ bad' = [bad EXCEPT ![j] = TRUE]
               /\ UNCHANGED plane
       ELSE UNCHANGED <<plane, bad>>
    /\ UNCHANGED <<rstate, marker, env, run, listed>>

\* qfw_setup's handler keeps the state and drops the marker, if it is still
\* this run's.
Unmark(r) == marker' = IF marker = r THEN NoRun ELSE marker
SetupFailed(j) ==
    /\ at[j] = "clean" /\ step[j] = 0
    /\ Unmark(run[j])
    /\ Done(j)
    /\ UNCHANGED <<rstate, plane, env>>

\* current_run_dir: the environment's run, if its state can be read and says
\* this job prepared it, and otherwise the marker's.
CurrentRunDir(j) ==
    LET r == env[j].tmp
    IN  IF r # NoRun /\ rstate[r].exists /\ rstate[r].job = j THEN r ELSE marker
Teardown(j) ==
    /\ at[j] = "idle" /\ CurrentRunDir(j) # NoRun
    /\ rstate[CurrentRunDir(j)].exists
    /\ run' = [run EXCEPT ![j] = CurrentRunDir(j)]
    /\ listed' = [listed EXCEPT ![j] = rstate[CurrentRunDir(j)].managers]
    /\ Move(j, "teardown", Len(Roles))
    /\ UNCHANGED <<rstate, marker, plane, env, bad>>

\* The run directory, with the state files of its planes, goes only when no
\* stop failed.
RemoveAlways(j) == TRUE
MayRemove(j) == ~bad[j]
EndTeardown(j) ==
    /\ at[j] = "teardown" /\ step[j] = 0
    /\ IF MayRemove(j)
       THEN Unmark(run[j]) /\ rstate' = [rstate EXCEPT ![run[j]] = Removed(@)]
       ELSE UNCHANGED <<marker, rstate>>
    /\ Done(j)
    /\ UNCHANGED <<plane, env>>

KillSetup(j) ==
    /\ at[j] # "idle"
    /\ Done(j)
    /\ UNCHANGED <<rstate, marker, plane, env>>

SetupNext ==
    \E j \in Jobs :
       \/ SourceEnv(j) \/ Inherit(j) \/ PrepareRunState(j) \/ StartRole(j)
       \/ ListManager(j) \/ CompleteSetup(j) \/ StopManager(j) \/ SetupFailed(j)
       \/ Teardown(j) \/ EndTeardown(j) \/ KillSetup(j)

SetupSpec == SetupInit /\ [][SetupNext]_uvars
-----------------------------------------------------------------------------
\* What a teardown read as a plane of its run and left up keeps the run's
\* state and managers: a stop that failed, of the first or the last of them,
\* leaves what a retry needs, also when another job found the run by the
\* marker and tears it down at the same time.
ListedKeepsState ==
    [][\A j \in Jobs : at[j] = "teardown" /\ at'[j] = "idle" =>
          \A k \in listed[j] : plane[run[j]][k] = "up" =>
             rstate'[run[j]] = rstate[run[j]]]_uvars

\* qfw-setup never takes the id of a run that exists: the environment a shell
\* or a submitter left behind does not make a new run overwrite theirs.
RunNotOverwritten ==
    [][\A j \in Jobs : at[j] = "idle" /\ at'[j] = "start" =>
          ~rstate[run'[j]].exists]_uvars

\* A run's state is lost neither to its own teardown nor to another setup.
RunsKept ==
    ListedKeepsState /\ RunNotOverwritten
=============================================================================
