---------------------------- MODULE ServicePlane ----------------------------
(***************************************************************************)
(* qfw-qpm-svc and qfw-dir-svc start, status, stop and run, issued on one  *)
(* run directory by several invocations at once.  The state file names the *)
(* processes of one instance of the plane; its lock is taken without       *)
(* waiting, so an invocation that finds it taken fails.  A probe of a      *)
(* process on a node that does not answer raises.  A process keeps its pid *)
(* from the probe to the signal that follows it.                           *)
(***************************************************************************)
EXTENDS Naturals, Sequences, FiniteSets

CONSTANTS Components,    \* the component keys, in the order they are started
          Callers,       \* one-shot invocations: start, status, stop
          Manager,       \* the invocation of `run`, the foreground manager
          Operator,      \* the caller that is never killed
          MaxInstances   \* bound on the number of starts

ASSUME PlaneAssumption ==
    /\ Operator \in Callers /\ Manager \notin Callers
    /\ "none" \notin Callers \cup {Manager}
    /\ Len(Components) \in Nat \ {0} /\ MaxInstances \in Nat

VARIABLES file,       \* service-plane.json: [inst, state, comps]
          lock,       \* the invocation that holds the state lock, or "none"
          proc,       \* proc[i][k]: component k of the plane's i-th instance
          control,    \* control[k]: k's ready or uri file exists
          reach,      \* the nodes answer
          ppc, mem,   \* each invocation's place and its local state record
          cursor,     \* the component it is at
          stopFailed  \* the errors of _stop_components are not empty

pvars == <<file, lock, proc, control, reach, ppc, mem, cursor, stopFailed>>

Keys == 1..Len(Components)
Invocations == Callers \cup {Manager}
Instances == 1..MaxInstances

NoRecord == [st |-> "none", pid |-> FALSE]
NoState == [inst |-> 0, state |-> "none", comps |-> [k \in Keys |-> NoRecord]]

PlaneInit ==
    /\ file = NoState /\ lock = "none"
    /\ proc = [i \in Instances |-> [k \in Keys |-> "none"]]
    /\ control = [k \in Keys |-> FALSE]
    /\ reach = TRUE
    /\ ppc = [c \in Invocations |-> "idle"]
    /\ mem = [c \in Invocations |-> NoState]
    /\ cursor = [c \in Invocations |-> 0]
    /\ stopFailed = [c \in Invocations |-> FALSE]

\* _verified_component_status, "unknown" where it raises: a record without
\* pid and identity is "missing", a pid that has become another process's
\* does not match the identity.
ProbeOptimistic(s, k) ==
    IF ~s.comps[k].pid THEN "missing"
    ELSE IF ~reach \/ proc[s.inst][k] = "gone" THEN "dead"
    ELSE IF proc[s.inst][k] = "up" THEN "alive" ELSE "identity-mismatch"
Probe(s, k) ==
    IF ~s.comps[k].pid THEN "missing"
    ELSE IF ~reach THEN "unknown"
    ELSE CASE proc[s.inst][k] = "up" -> "alive"
           [] proc[s.inst][k] = "gone" -> "dead"
           [] proc[s.inst][k] = "reused" -> "identity-mismatch"

Present(s) == {k \in Keys : s.comps[k].st # "none"}

\* _recorded_instance_active
ActiveIfAlive(s) ==
    \E k \in Present(s) : s.comps[k].st # "stopped" /\ Probe(s, k) = "alive"
Active(s) ==
    \E k \in Present(s) :
       s.comps[k].st # "stopped" /\ Probe(s, k) \in {"alive", "unknown"}

Put(c, s) == mem' = [mem EXCEPT ![c] = s]
PlaneGoto(c, l) == ppc' = [ppc EXCEPT ![c] = l]
AtComponent(c, k) == cursor' = [cursor EXCEPT ![c] = k]
Locking(c) == lock = "none" /\ lock' = c

-----------------------------------------------------------------------------
\* start: refused while the recorded instance may be active; otherwise the
\* old control files go and a new state takes the file.
StartPlane(c) ==
    /\ ppc[c] = "idle" /\ Locking(c)
    /\ file.state \notin {"none", "stopped"} => ~Active(file)
    /\ file.inst < MaxInstances
    /\ LET new == [NoState EXCEPT !.inst = file.inst + 1, !.state = "starting"]
       IN  Put(c, new) /\ file' = new
    /\ control' = [k \in Keys |-> FALSE]
    /\ PlaneGoto(c, "add") /\ AtComponent(c, 1)
    /\ UNCHANGED <<proc, reach, stopFailed>>

\* _start_prte, _start_directory, _start_qpm: the record is written before
\* the launch, its pid and identity after.
AddRecord(c) ==
    /\ ppc[c] = "add"
    /\ LET s == [mem[c] EXCEPT !.comps[cursor[c]].st = "starting"]
       IN  Put(c, s) /\ file' = s
    /\ control' = [control EXCEPT ![cursor[c]] = FALSE]
    /\ PlaneGoto(c, "launch")
    /\ UNCHANGED <<lock, proc, reach, cursor, stopFailed>>

\* The launcher ends a process that does not become ready in time; a DVM is
\* left to itself, and so is any process when the launch command loses its
\* node.
LeftBehind(c) == Components[cursor[c]] = "prte-dvm" \/ ~reach
LaunchComponent(c) ==
    /\ ppc[c] = "launch"
    /\ \E up, ok \in BOOLEAN :
          /\ ok => up /\ reach
          /\ ~ok /\ up => LeftBehind(c)
          /\ proc' = IF up THEN [proc EXCEPT ![mem[c].inst][cursor[c]] = "up"] ELSE proc
          /\ control' = IF ok THEN [control EXCEPT ![cursor[c]] = TRUE] ELSE control
          /\ PlaneGoto(c, IF ok THEN "record" ELSE "failing")
    /\ UNCHANGED <<file, lock, reach, mem, cursor, stopFailed>>

\* The identity is read by a probe of its own, which may not answer.
RecordPid(c) ==
    /\ ppc[c] = "record"
    /\ IF reach /\ proc[mem[c].inst][cursor[c]] = "up"
       THEN LET s == [mem[c] EXCEPT !.comps[cursor[c]] = [st |-> "ready", pid |-> TRUE]]
                last == cursor[c] = Len(Components)
                t == IF last THEN [s EXCEPT !.state = "ready"] ELSE s
            IN  /\ Put(c, IF last /\ c # Manager THEN NoState ELSE t) /\ file' = t
                /\ AtComponent(c, IF last THEN 0 ELSE cursor[c] + 1)
                /\ PlaneGoto(c, IF ~last THEN "add"
                           ELSE IF c = Manager THEN "started" ELSE "idle")
                /\ lock' = IF last THEN "none" ELSE lock
       ELSE PlaneGoto(c, "failing") /\ UNCHANGED <<file, lock, mem, cursor>>
    /\ UNCHANGED <<proc, control, reach, stopFailed>>

\* start's handler: the error is written only after the components are
\* stopped.
Failing(c) ==
    /\ ppc[c] = "failing"
    /\ Put(c, [mem[c] EXCEPT !.state = "error"])
    /\ PlaneGoto(c, "stopping") /\ AtComponent(c, Len(Components))
    /\ UNCHANGED <<file, lock, proc, control, reach, stopFailed>>

-----------------------------------------------------------------------------
\* _stop_components takes the components last to first. A node that is lost
\* between the probe and the signal fails the component; _stop_prte has then
\* thrown its control files away.
StopComponent(c) ==
    LET k == cursor[c]
        s == mem[c]
        i == s.inst
        Stopped == Put(c, [s EXCEPT !.comps[k].st = "stopped"])
                   /\ control' = [control EXCEPT ![k] = FALSE]
                   /\ UNCHANGED stopFailed
        Raises == Put(c, [s EXCEPT !.comps[k].st = "error"])
                  /\ stopFailed' = [stopFailed EXCEPT ![c] = TRUE]
    IN  /\ ppc[c] = "stopping" /\ k > 0
        /\ AtComponent(c, k - 1)
        /\ \/ /\ k \notin Present(s)
              /\ UNCHANGED <<mem, control, proc, stopFailed, reach>>
           \/ /\ k \in Present(s) /\ Probe(s, k) = "unknown"
              /\ Raises
              /\ UNCHANGED <<control, proc, reach>>
           \/ /\ k \in Present(s)
              /\ Probe(s, k) \in {"missing", "dead", "identity-mismatch"}
              /\ Stopped
              /\ UNCHANGED <<proc, reach>>
           \/ /\ k \in Present(s) /\ Probe(s, k) = "alive"
              /\ Stopped
              /\ proc' = [proc EXCEPT ![i][k] = "gone"]
              /\ UNCHANGED reach
           \/ /\ k \in Present(s) /\ Probe(s, k) = "alive"
              /\ Raises
              /\ reach' = FALSE
              /\ control' = [control EXCEPT ![k] = @ /\ Components[k] # "prte-dvm"]
              /\ UNCHANGED proc
        /\ UNCHANGED <<file, lock, ppc>>

\* The end of stop, of start's handler (its error stays) and of run's.
EndStop(c) ==
    /\ ppc[c] = "stopping" /\ cursor[c] = 0
    /\ LET s == IF mem[c].state = "error" THEN mem[c]
                ELSE [mem[c] EXCEPT !.state = IF stopFailed[c] THEN "error" ELSE "stopped"]
       IN  file' = s
    /\ Put(c, IF c = Manager THEN mem[c] ELSE NoState)
    /\ lock' = IF lock = c THEN "none" ELSE lock
    /\ PlaneGoto(c, IF c = Manager THEN "exited" ELSE "idle")
    /\ stopFailed' = [stopFailed EXCEPT ![c] = FALSE]
    /\ UNCHANGED <<proc, control, reach, cursor>>

\* stop: a state that says stopped is believed. The old state word is
\* replaced whatever it is, so the local record starts as "stopping".
OverWhenError(s) == s.state \in {"none", "stopped", "error"}
Over(s) == s.state \in {"none", "stopped"}
StopFrom(c, place) ==
    /\ ppc[c] = place /\ Locking(c) /\ ~Over(file)
    /\ Put(c, [file EXCEPT !.state = "stopping"])
    /\ PlaneGoto(c, "stopping") /\ AtComponent(c, Len(Components))
    /\ UNCHANGED <<file, proc, control, reach, stopFailed>>
Stop(c) == StopFrom(c, "idle")

-----------------------------------------------------------------------------
\* status: what is observed of each component, and of the plane.
ReadyNow(s, k) == Probe(s, k) = "alive" /\ control[k]
ObservedComponent(s, k) ==
    IF ReadyNow(s, k) THEN "ready"
    ELSE CASE Probe(s, k) \in {"dead", "identity-mismatch"} -> "dead"
           [] Probe(s, k) \in {"missing", "unknown"} -> "stale"
           [] OTHER -> IF s.comps[k].st = "starting" THEN "starting" ELSE "not-ready"
Observed(s) ==
    LET seen == [k \in Keys |-> IF k \notin Present(s) THEN "none"
                                ELSE ObservedComponent(s, k)]
        Some(x) == \E k \in Keys : seen[k] = x
    IN  [s EXCEPT
           !.comps = [k \in Keys |-> [s.comps[k] EXCEPT !.st = seen[k]]],
           !.state = IF \A k \in Keys : seen[k] = "ready" THEN "ready"
                     ELSE IF Some("stale") THEN "stale"
                     ELSE IF Some("starting") THEN "starting" ELSE "degraded"]
Status(c) ==
    /\ ppc[c] = "idle" /\ Locking(c) /\ ~Over(file)
    /\ PlaneGoto(c, "looking") /\ Put(c, file)
    /\ UNCHANGED <<file, proc, control, reach, cursor, stopFailed>>
EndStatus(c) ==
    /\ ppc[c] = "looking"
    /\ file' = Observed(mem[c])
    /\ PlaneGoto(c, "idle") /\ Put(c, NoState) /\ lock' = "none"
    /\ UNCHANGED <<proc, control, reach, cursor, stopFailed>>

-----------------------------------------------------------------------------
\* run: start, then a second taking of the lock to write manager_pid, then
\* status at every poll. Each fails when another invocation has the lock,
\* and the manager is gone.
LockTaken(c) ==
    /\ ppc[c] \in {"started", "polling"} /\ lock # "none"
    /\ PlaneGoto(c, "exited")
    /\ UNCHANGED <<file, lock, proc, control, reach, mem, cursor, stopFailed>>

AttachPlane(c) ==
    /\ ppc[c] = "started" /\ lock = "none"
    /\ PlaneGoto(c, "polling")
    /\ UNCHANGED <<file, lock, proc, control, reach, mem, cursor, stopFailed>>

\* What the poll finds is kept and written after the lock is dropped.
PollPlane(c) ==
    /\ ppc[c] = "polling" /\ lock = "none"
    /\ LET s == IF Over(file) THEN file ELSE Observed(file) IN
       /\ file' = s
       /\ IF s.state = "ready" THEN UNCHANGED <<ppc, mem>>
          ELSE PlaneGoto(c, "degraded") /\ Put(c, [s EXCEPT !.state = "error"])
    /\ UNCHANGED <<lock, proc, control, reach, cursor, stopFailed>>

WriteDegraded(c) ==
    /\ ppc[c] = "degraded"
    /\ file' = mem[c]
    /\ PlaneGoto(c, "stopping") /\ AtComponent(c, Len(Components))
    /\ UNCHANGED <<lock, proc, control, reach, mem, stopFailed>>

\* A signal ends the poll loop, and the plane is stopped if stop can have
\* the lock.
Signalled(c) == StopFrom(c, "polling")

-----------------------------------------------------------------------------
Kill(c) ==
    /\ c # Operator /\ ppc[c] \notin {"idle", "killed", "exited"}
    /\ PlaneGoto(c, "killed") /\ Put(c, NoState)
    /\ lock' = IF lock = c THEN "none" ELSE lock
    /\ cursor' = [cursor EXCEPT ![c] = 0] /\ stopFailed' = [stopFailed EXCEPT ![c] = FALSE]
    /\ UNCHANGED <<file, proc, control, reach>>

ProcessEnds ==
    /\ \E i \in Instances, k \in Keys :
          \/ proc[i][k] = "up" /\ proc' = [proc EXCEPT ![i][k] = "gone"]
          \/ proc[i][k] = "gone" /\ proc' = [proc EXCEPT ![i][k] = "reused"]
    /\ UNCHANGED <<file, lock, control, reach, ppc, mem, cursor, stopFailed>>

NodeChanges ==
    /\ reach' = ~reach
    /\ UNCHANGED <<file, lock, proc, control, ppc, mem, cursor, stopFailed>>

StartSteps(c) == AddRecord(c) \/ LaunchComponent(c) \/ RecordPid(c) \/ Failing(c)
StopSteps(c) == StopComponent(c) \/ EndStop(c)
ManagerSteps(c) ==
    LockTaken(c) \/ AttachPlane(c) \/ PollPlane(c) \/ WriteDegraded(c) \/ Signalled(c)

PlaneNext ==
    \/ \E c \in Callers : Stop(c) \/ Status(c) \/ EndStatus(c)
    \/ \E c \in Invocations : StartPlane(c) \/ StartSteps(c) \/ StopSteps(c) \/ Kill(c)
    \/ ManagerSteps(Manager)
    \/ ProcessEnds \/ NodeChanges

PlaneSpec == PlaneInit /\ [][PlaneNext]_pvars

\* An invocation that has begun goes on, and the operator repeats the stop
\* until it says stopped, as qfw-teardown tells them to.
PlaneFairness ==
    /\ \A c \in Invocations :
          WF_pvars(StartSteps(c)) /\ WF_pvars(StopSteps(c))
    /\ \A c \in Callers : WF_pvars(EndStatus(c))
    /\ SF_pvars(Stop(Operator))
-----------------------------------------------------------------------------
\* A component the state file calls stopped, of which it has the pid, is not
\* running: stop never takes an unanswered probe for the end of a process.
StoppedIsGone ==
    \A k \in Keys :
       file.comps[k].st = "stopped" /\ file.comps[k].pid => proc[file.inst][k] # "up"

Recorded(i, k) == file.inst = i /\ file.comps[k].pid

\* As long as no foreground manager is involved, no invocation takes away
\* the record of a process that runs, killed invocations and unreachable
\* nodes notwithstanding: what start may replace has nothing left alive.
RecordKept ==
    [][ppc[Manager] = "idle" =>
         \A i \in Instances, k \in Keys :
            Recorded(i, k) /\ proc'[i][k] = "up" => Recorded(i, k)']_pvars

\* The state file tells the truth of the processes, and keeps it.
RecordsTrue ==
    []StoppedIsGone /\ RecordKept

\* Once the nodes stay reachable, the repeated stop brings the plane to
\* stopped, whatever start, crash or failed stop left behind.
RetriedStopEnds == []<>(reach => file.state \in {"none", "stopped"})
=============================================================================
