----------------------------- MODULE PlaneProofs -----------------------------
(***************************************************************************)
(* The service planes and their state file (ServicePlane), for any number  *)
(* of invocations, components and restarts.                                *)
(***************************************************************************)
EXTENDS ServicePlane, TLAPS

USE Zenon

ComponentWords ==
    {"none", "starting", "ready", "stopped", "error", "dead", "stale", "not-ready"}
StateWords ==
    {"none", "starting", "ready", "error", "stopping", "stopped", "stale", "degraded"}

PlaneRecord ==
    [inst : 0..MaxInstances, state : StateWords,
     comps : [Keys -> [st : ComponentWords, pid : BOOLEAN]]]

PlanePlaces ==
    {"idle", "add", "launch", "record", "failing", "stopping", "looking", "started",
     "polling", "degraded", "exited", "killed"}
LaunchingPlaces == {"add", "launch", "record"}
ActingPlaces == LaunchingPlaces \cup {"failing", "stopping", "looking", "degraded"}

Launching(c) == ppc[c] \in LaunchingPlaces

\* The invocations that work on a copy of the state, which they write back.
Acting(c) == ppc[c] \in ActingPlaces

PlaneTypes ==
    /\ file \in PlaneRecord
    /\ mem \in [Invocations -> PlaneRecord]
    /\ DOMAIN proc = Instances /\ \A i \in Instances : DOMAIN proc[i] = Keys
    /\ ppc \in [Invocations -> PlanePlaces]
    /\ cursor \in [Invocations -> 0..Len(Components)]
    /\ stopFailed \in [Invocations -> BOOLEAN]
    /\ \A c \in Invocations : Launching(c) => cursor[c] \in Keys /\ mem[c].inst \in Instances

\* In the state s what is called stopped does not run, and a pid is a
\* component's.
SoundRecord(s, p) ==
    \A k \in Keys :
       /\ s.comps[k].st = "stopped" /\ s.comps[k].pid => p[s.inst][k] # "up"
       /\ s.comps[k].pid => s.comps[k].st # "none" /\ s.inst \in Instances

RecordsSound ==
    /\ SoundRecord(file, proc)
    /\ \A c \in Invocations : Acting(c) => SoundRecord(mem[c], proc)

\* What is still to be launched has no pid in any state of its instance.
LaunchIsNew ==
    \A c \in Invocations : Launching(c) =>
       \A k \in Keys : k >= cursor[c] =>
          /\ ~mem[c].comps[k].pid
          /\ file.inst = mem[c].inst => ~file.comps[k].pid

\* Invocations work under the lock, all but a manager that found the plane
\* degraded; what it has is of no newer instance than what is in the file or
\* under the lock, and of none that is being launched.
LockedOrDegraded ==
    /\ \A c \in Invocations : Acting(c) =>
          \/ lock = c
          \/ c = Manager /\ ppc[c] \in {"degraded", "stopping"}
    /\ lock # Manager /\ Acting(Manager) =>
          /\ mem[Manager].inst <= file.inst
          /\ \A c \in Callers : Acting(c) =>
                /\ mem[Manager].inst <= mem[c].inst
                /\ Launching(c) => mem[Manager].inst < mem[c].inst

\* What the file calls stopped as a whole is stopped in all its parts, and a
\* stop without failures has stopped what it has passed.
AllStopped(s) == \A k \in Keys : s.comps[k].st \in {"none", "stopped"}
StopsAreWhole ==
    /\ file.state \in {"none", "stopped"} => AllStopped(file)
    /\ \A c \in Invocations :
          /\ stopFailed[c] => ppc[c] = "stopping"
          /\ ppc[c] = "stopping" /\ ~stopFailed[c] =>
                \A k \in Keys : k > cursor[c] => mem[c].comps[k].st \in {"none", "stopped"}
          /\ ppc[c] = "stopping" => mem[c].state # "none"
          /\ Acting(c) /\ ppc[c] # "stopping" => mem[c].state \notin {"none", "stopped"}

\* Before the first manager, a copy has the pids of the file.
CopiesAgree ==
    ppc[Manager] = "idle" =>
       \A c \in Callers : Acting(c) =>
          /\ mem[c].inst = file.inst
          /\ \A k \in Keys : mem[c].comps[k].pid = file.comps[k].pid

PlaneInv ==
    /\ PlaneTypes /\ RecordsSound /\ LaunchIsNew /\ LockedOrDegraded
    /\ StopsAreWhole /\ CopiesAgree

\* What the updates of a state record change.
LEMMA StateUpdate ==
    ASSUME NEW s \in PlaneRecord, NEW v \in StateWords
    PROVE  /\ [s EXCEPT !.state = v] \in PlaneRecord
           /\ [s EXCEPT !.state = v].inst = s.inst
           /\ [s EXCEPT !.state = v].state = v
           /\ [s EXCEPT !.state = v].comps = s.comps
  BY DEF PlaneRecord

\* Instances are numbered.
LEMMA InstanceIsNumber ==
    ASSUME NEW s \in PlaneRecord
    PROVE  s.inst \in Nat
BY PlaneAssumption, SMTT(30) DEF PlaneRecord

\* What the state of one component changes in a record.
LEMMA ComponentUpdate ==
    ASSUME NEW s \in PlaneRecord, NEW k \in Keys, NEW v \in ComponentWords
    PROVE  \E t \in PlaneRecord :
              /\ t = [s EXCEPT !.comps[k].st = v]
              /\ t.inst = s.inst /\ t.state = s.state
              /\ t.comps[k].st = v /\ t.comps[k].pid = s.comps[k].pid
              /\ \A l \in Keys \ {k} : t.comps[l] = s.comps[l]
  <1>1. s.comps \in [Keys -> [st : ComponentWords, pid : BOOLEAN]]
    BY DEF PlaneRecord
  <1>2. s.comps[k] \in [st : ComponentWords, pid : BOOLEAN]
    BY <1>1
  <1>3. PICK r : r = [s.comps[k] EXCEPT !.st = v]
    OBVIOUS
  <1>4. r \in [st : ComponentWords, pid : BOOLEAN] /\ r.st = v /\ r.pid = s.comps[k].pid
    BY <1>2, <1>3
  <1>5. PICK f : f = [s.comps EXCEPT ![k] = r]
    OBVIOUS
  <1>6. f \in [Keys -> [st : ComponentWords, pid : BOOLEAN]]
    BY <1>1, <1>4, <1>5
  <1>7. f[k] = r /\ \A l \in Keys \ {k} : f[l] = s.comps[l]
    BY <1>1, <1>5
  <1>8. PICK t : t = [s EXCEPT !.comps = f]
    OBVIOUS
  <1>9. t \in PlaneRecord /\ t.inst = s.inst /\ t.state = s.state /\ t.comps = f
    BY <1>6, <1>8 DEF PlaneRecord
  <1>10. t = [s EXCEPT !.comps[k].st = v]
    BY <1>3, <1>5, <1>8
  <1> QED
    BY <1>4, <1>7, <1>9, <1>10

\* What a component that is up changes in a record.
LEMMA ReadyUpdate ==
    ASSUME NEW s \in PlaneRecord, NEW k \in Keys
    PROVE  \E t \in PlaneRecord :
              /\ t = [s EXCEPT !.comps[k] = [st |-> "ready", pid |-> TRUE]]
              /\ t.inst = s.inst /\ t.state = s.state
              /\ t.comps[k].st = "ready" /\ t.comps[k].pid
              /\ \A l \in Keys \ {k} : t.comps[l] = s.comps[l]
  <1>1. s.comps \in [Keys -> [st : ComponentWords, pid : BOOLEAN]]
    BY DEF PlaneRecord
  <1>3. PICK r : r = [st |-> "ready", pid |-> TRUE]
    OBVIOUS
  <1>4. r \in [st : ComponentWords, pid : BOOLEAN] /\ r.st = "ready" /\ r.pid
    <2>1. r.st = "ready" /\ r.pid
      BY <1>3, Zenon
    <2>2. r \in [st : ComponentWords, pid : BOOLEAN]
      BY <1>3 DEF ComponentWords
    <2> QED
      BY <2>1, <2>2
  <1>5. PICK f : f = [s.comps EXCEPT ![k] = r]
    OBVIOUS
  <1>6. f \in [Keys -> [st : ComponentWords, pid : BOOLEAN]]
    BY <1>1, <1>4, <1>5
  <1>7. f[k] = r /\ \A l \in Keys \ {k} : f[l] = s.comps[l]
    BY <1>1, <1>5
  <1>8. PICK t : t = [s EXCEPT !.comps = f]
    OBVIOUS
  <1>9. t \in PlaneRecord /\ t.inst = s.inst /\ t.state = s.state /\ t.comps = f
    BY <1>6, <1>8 DEF PlaneRecord
  <1>10. t = [s EXCEPT !.comps[k] = [st |-> "ready", pid |-> TRUE]]
    BY <1>3, <1>5, <1>8
  <1> QED
    BY <1>4, <1>7, <1>9, <1>10

\* What status makes of a record: no part of it stopped, the pids kept.
LEMMA ObservedUpdate ==
    ASSUME NEW s \in PlaneRecord
    PROVE  /\ Observed(s) \in PlaneRecord
           /\ Observed(s).inst = s.inst
           /\ Observed(s).state \notin {"none", "stopped"}
           /\ \A k \in Keys :
                 /\ Observed(s).comps[k].pid = s.comps[k].pid
                 /\ Observed(s).comps[k].st # "stopped"
                 /\ Observed(s).comps[k].st = "none" <=> s.comps[k].st = "none"
  <1>1. s.comps \in [Keys -> [st : ComponentWords, pid : BOOLEAN]]
    BY DEF PlaneRecord
  <1>2. \A k \in Keys : ObservedComponent(s, k) \in {"ready", "dead", "stale", "starting", "not-ready"}
    BY DEF ObservedComponent
  <1>3. PICK seen : seen = [k \in Keys |-> IF k \notin Present(s) THEN "none"
                                           ELSE ObservedComponent(s, k)]
    OBVIOUS
  <1>4. \A k \in Keys : /\ seen[k] \in ComponentWords /\ seen[k] # "stopped"
                        /\ seen[k] = "none" <=> s.comps[k].st = "none"
    <2>1. \A k \in Keys : \/ k \notin Present(s) /\ seen[k] = "none"
                          \/ k \in Present(s) /\ seen[k] = ObservedComponent(s, k)
      BY <1>3
    <2> QED
      BY <1>2, <2>1 DEF Present, ComponentWords
  <1>5. PICK f : f = [k \in Keys |-> [s.comps[k] EXCEPT !.st = seen[k]]]
    OBVIOUS
  <1>6. f \in [Keys -> [st : ComponentWords, pid : BOOLEAN]]
    BY <1>1, <1>4, <1>5
  <1>7. \A k \in Keys : f[k].st = seen[k] /\ f[k].pid = s.comps[k].pid
    BY <1>1, <1>5
  <1>8. PICK w : w = IF \A k \in Keys : seen[k] = "ready" THEN "ready"
                     ELSE IF \E k \in Keys : seen[k] = "stale" THEN "stale"
                     ELSE IF \E k \in Keys : seen[k] = "starting" THEN "starting" ELSE "degraded"
    OBVIOUS
  <1>9. w \in StateWords /\ w \notin {"none", "stopped"}
    <2>1. w \in {"ready", "stale", "starting", "degraded"}
      BY <1>8, Zenon
    <2> QED
      BY <2>1 DEF StateWords
  <1>10. Observed(s) = [s EXCEPT !.comps = f, !.state = w]
    BY <1>3, <1>5, <1>8 DEF Observed
  <1>11. /\ Observed(s) \in PlaneRecord /\ Observed(s).inst = s.inst
         /\ Observed(s).state = w /\ Observed(s).comps = f
    BY <1>6, <1>9, <1>10 DEF PlaneRecord
  <1> QED
    BY <1>4, <1>7, <1>9, <1>11

\* A state file that is not there reads as a record without components.
LEMMA NoStateRecord ==
    /\ NoState \in PlaneRecord /\ NoState.inst = 0 /\ NoState.state = "none"
    /\ \A k \in Keys : NoState.comps[k].st = "none" /\ ~NoState.comps[k].pid
  <1>1. NoState \in PlaneRecord
    BY PlaneAssumption, SMTT(30) DEF NoState, NoRecord, PlaneRecord, ComponentWords, StateWords
  <1>2. NoState.inst = 0 /\ NoState.state = "none"
    BY DEF NoState
  <1>3. \A k \in Keys : NoState.comps[k] = NoRecord
    BY DEF NoState
  <1>4. NoRecord.st = "none" /\ NoRecord.pid = FALSE
    BY Zenon DEF NoRecord
  <1> QED
    BY <1>1, <1>2, <1>3, <1>4

\* Nothing runs and nothing is recorded at the start.
LEMMA PlaneInitially == PlaneInit => PlaneInv
  <1> SUFFICES ASSUME PlaneInit PROVE PlaneInv
    OBVIOUS
  <1>1. /\ NoState \in PlaneRecord /\ NoState.inst = 0 /\ NoState.state = "none"
        /\ \A k \in Keys : NoState.comps[k].st = "none" /\ ~NoState.comps[k].pid
    BY NoStateRecord
  <1>2. \A c \in Invocations : ppc[c] = "idle" /\ ~stopFailed[c] /\ mem[c] = NoState
    BY DEF PlaneInit
  <1>3. \A c \in Invocations : ~Acting(c) /\ ~Launching(c)
    BY <1>2 DEF Acting, Launching, ActingPlaces, LaunchingPlaces
  <1>4. PlaneTypes
    <2>1. \A i \in Instances : DOMAIN proc[i] = Keys
      BY DEF PlaneInit
    <2>2. cursor \in [Invocations -> 0..Len(Components)]
      BY PlaneAssumption, SMTT(30) DEF PlaneInit
    <2>3. stopFailed \in [Invocations -> BOOLEAN] /\ ppc \in [Invocations -> PlanePlaces]
      BY DEF PlaneInit, PlanePlaces
    <2>4. file \in PlaneRecord /\ mem \in [Invocations -> PlaneRecord] /\ DOMAIN proc = Instances
      BY <1>1 DEF PlaneInit
    <2> QED
      BY <1>3, <2>1, <2>2, <2>3, <2>4 DEF PlaneTypes
  <1>5. RecordsSound /\ LaunchIsNew
    BY <1>1, <1>3 DEF PlaneInit, RecordsSound, SoundRecord, LaunchIsNew
  <1>6. LockedOrDegraded /\ CopiesAgree
    BY <1>3 DEF LockedOrDegraded, CopiesAgree, Invocations
  <1>7. StopsAreWhole
    BY <1>1, <1>2, <1>3 DEF PlaneInit, StopsAreWhole, AllStopped
  <1> QED
    BY <1>4, <1>5, <1>6, <1>7 DEF PlaneInv

\* A step of the invocation c, seen by the others: c takes the lock, goes on
\* under it and perhaps gives it back, goes on without it as a manager, or
\* does not touch the state.
EntersPlane(c) ==
    /\ lock = "none" /\ ~Acting(c) /\ lock' \in {c, "none"}
    /\ file'.inst >= file.inst
    /\ Acting(c)' => /\ mem'[c].inst >= file.inst
                     /\ lock' = c \/ (c = Manager /\ ppc'[c] = "degraded"
                                                  /\ mem'[c].inst <= file'.inst)
    /\ Launching(c)' => mem'[c].inst > file.inst
GoesOn(c) ==
    /\ Acting(c) /\ lock = c
    /\ Acting(c)' => lock' = c /\ mem'[c].inst = mem[c].inst
    /\ ~Acting(c)' => lock' = "none"
    /\ file' = file \/ file'.inst = mem[c].inst
    /\ Launching(c)' => Launching(c)
GoesOnAlone(c) ==
    /\ c = Manager /\ Acting(c) /\ lock # c /\ lock' = lock
    /\ Acting(c)' => mem'[c].inst = mem[c].inst /\ ppc'[c] = "stopping"
    /\ file' = file \/ file'.inst = mem[c].inst
StaysOut(c) ==
    /\ ~Acting(c) /\ ~Acting(c)' /\ file' = file
    /\ lock' = lock \/ (lock = c /\ lock' = "none")

\* What one invocation has to see to for the invariant to survive its step.
LEMMA PlaneMove ==
    ASSUME PlaneInv, NEW c \in Invocations, PlaneTypes',
           \A d \in Invocations \ {c} :
              /\ ppc'[d] = ppc[d] /\ mem'[d] = mem[d]
              /\ cursor'[d] = cursor[d] /\ stopFailed'[d] = stopFailed[d],
           \A i \in Instances, k \in Keys : proc'[i][k] = "up" =>
              proc[i][k] = "up" \/ (Launching(c) /\ i = mem[c].inst /\ k = cursor[c]),
           SoundRecord(file', proc'),
           Acting(c)' => SoundRecord(mem'[c], proc'),
           Launching(c)' => \A k \in Keys : k >= cursor'[c] =>
                               /\ ~mem'[c].comps[k].pid
                               /\ file'.inst = mem'[c].inst => ~file'.comps[k].pid,
           EntersPlane(c) \/ GoesOn(c) \/ GoesOnAlone(c) \/ StaysOut(c),
           file'.state \in {"none", "stopped"} => AllStopped(file'),
           stopFailed'[c] => ppc'[c] = "stopping",
           ppc'[c] = "stopping" /\ ~stopFailed'[c] =>
              \A k \in Keys : k > cursor'[c] => mem'[c].comps[k].st \in {"none", "stopped"},
           ppc'[c] = "stopping" => mem'[c].state # "none",
           Acting(c)' /\ ppc'[c] # "stopping" => mem'[c].state \notin {"none", "stopped"},
           ppc'[Manager] = "idle" /\ Acting(c)' =>
              /\ mem'[c].inst = file'.inst
              /\ \A k \in Keys : mem'[c].comps[k].pid = file'.comps[k].pid,
           ppc'[Manager] = "idle" => ppc[Manager] = "idle"
    PROVE  PlaneInv'
  <1>i. /\ PlaneTypes /\ RecordsSound /\ LaunchIsNew /\ LockedOrDegraded
        /\ StopsAreWhole /\ CopiesAgree
    BY DEF PlaneInv
  <1>a. \A d \in Invocations \ {c} :
           (Acting(d)' <=> Acting(d)) /\ (Launching(d)' <=> Launching(d))
    BY DEF Acting, Launching
  <1>l. \A d \in Invocations : Launching(d) => Acting(d) /\ lock = d
    BY <1>i DEF LockedOrDegraded, Launching, Acting, ActingPlaces, LaunchingPlaces
  <1>m. Manager \in Invocations /\ Callers \subseteq Invocations /\ Manager \notin Callers
        /\ "none" \notin Invocations
        /\ \A d \in Invocations : d = Manager \/ d \in Callers
    BY PlaneAssumption DEF Invocations
  <1>n. /\ file.inst \in Nat /\ file'.inst \in Nat
        /\ \A d \in Invocations : mem[d].inst \in Nat /\ mem'[d].inst \in Nat
    <2>1. /\ file \in PlaneRecord /\ file' \in PlaneRecord
          /\ \A d \in Invocations : mem[d] \in PlaneRecord /\ mem'[d] \in PlaneRecord
      BY <1>i DEF PlaneTypes
    <2> QED
      BY <2>1, InstanceIsNumber
  <1>1. RecordsSound'
    <2> SUFFICES ASSUME NEW d \in Invocations, d # c, Acting(d)
                 PROVE  SoundRecord(mem[d], proc')
      BY <1>a DEF RecordsSound
    <2>1. SoundRecord(mem[d], proc)
      BY <1>i DEF RecordsSound
    <2>2. Launching(c) => mem[d].inst # mem[c].inst
      BY <1>i, <1>l, <1>m, <1>n, SMTT(30) DEF LockedOrDegraded
    <2> QED
      BY <2>1, <2>2, ZenonT(60) DEF SoundRecord
  <1>2. LaunchIsNew'
    <2> SUFFICES ASSUME NEW d \in Invocations, d # c, Launching(d), NEW k \in Keys, k >= cursor[d]
                 PROVE  /\ ~mem[d].comps[k].pid
                        /\ file'.inst = mem[d].inst => ~file'.comps[k].pid
      BY <1>a, SMTT(30) DEF LaunchIsNew
    <2>1. ~mem[d].comps[k].pid /\ (file.inst = mem[d].inst => ~file.comps[k].pid)
      BY <1>i DEF LaunchIsNew
    <2>2. lock = d
      BY <1>l
    <2>3. file' = file \/ (GoesOnAlone(c) /\ file'.inst = mem[c].inst)
      BY <2>2, <1>m DEF EntersPlane, GoesOn, GoesOnAlone, StaysOut
    <2>4. GoesOnAlone(c) => mem[c].inst < mem[d].inst
      BY <2>2, <1>l, <1>m, <1>i DEF GoesOnAlone, LockedOrDegraded
    <2> QED
      BY <2>1, <2>3, <2>4, <1>n, SMTT(30)
  <1>3. LockedOrDegraded'
    <2>1. \A d \in Invocations : Acting(d)' =>
             lock' = d \/ (d = Manager /\ ppc'[d] \in {"degraded", "stopping"})
      <3>1. ASSUME NEW d \in Invocations, d # c, Acting(d)
            PROVE  lock' = d \/ (d = Manager /\ ppc[d] \in {"degraded", "stopping"})
        <4>1. lock = d \/ (d = Manager /\ ppc[d] \in {"degraded", "stopping"})
          BY <3>1, <1>i DEF LockedOrDegraded
        <4>2. lock = d => lock' = d
          BY <3>1, <1>m DEF EntersPlane, GoesOn, GoesOnAlone, StaysOut
        <4> QED
          BY <4>1, <4>2
      <3>2. Acting(c)' => lock' = c \/ (c = Manager /\ ppc'[c] \in {"degraded", "stopping"})
        BY DEF EntersPlane, GoesOn, GoesOnAlone, StaysOut
      <3> QED
        BY <3>1, <3>2, <1>a
    <2>2. CASE c = Manager
      <3> SUFFICES ASSUME lock' # Manager, Acting(Manager)'
                   PROVE  /\ mem'[Manager].inst <= file'.inst
                          /\ \A d \in Callers : Acting(d)' =>
                                /\ mem'[Manager].inst <= mem'[d].inst
                                /\ Launching(d)' => mem'[Manager].inst < mem'[d].inst
        BY <2>1 DEF LockedOrDegraded
      <3>1. CASE EntersPlane(c)
        <4>1. \A d \in Callers : ~Acting(d)
          BY <3>1, <1>i, <1>m DEF EntersPlane, LockedOrDegraded
        <4> QED
          BY <2>2, <3>1, <4>1, <1>a, <1>m DEF EntersPlane
      <3>2. CASE GoesOnAlone(c)
        <4>1. /\ mem[Manager].inst <= file.inst
              /\ \A d \in Callers : Acting(d) =>
                    /\ mem[Manager].inst <= mem[d].inst
                    /\ Launching(d) => mem[Manager].inst < mem[d].inst
          BY <3>2, <1>i DEF GoesOnAlone, LockedOrDegraded
        <4>2. mem'[Manager].inst = mem[Manager].inst /\ (file' = file \/ file'.inst = mem[Manager].inst)
          BY <2>2, <3>2 DEF GoesOnAlone
        <4>3. mem'[Manager].inst <= file'.inst
          <5>1. mem[Manager].inst \in Nat
            BY <1>n, <1>m
          <5>2. CASE file' = file
            BY <4>1, <4>2, <5>2
          <5>3. CASE file'.inst = mem[Manager].inst
            BY <4>2, <5>1, <5>3, SMTT(30)
          <5> QED
            BY <4>2, <5>2, <5>3
        <4> QED
          BY <2>2, <4>1, <4>2, <4>3, <1>a, <1>m
      <3> QED
        BY <2>2, <3>1, <3>2 DEF GoesOn, StaysOut
    <2>3. CASE c # Manager
      <3> SUFFICES ASSUME lock' # Manager, Acting(Manager)
                   PROVE  /\ mem[Manager].inst <= file'.inst
                          /\ \A d \in Callers : Acting(d)' =>
                                /\ mem[Manager].inst <= mem'[d].inst
                                /\ Launching(d)' => mem[Manager].inst < mem'[d].inst
        BY <2>1, <2>3, <1>a, <1>m DEF LockedOrDegraded
      <3>1. lock # Manager
        BY <2>3, <1>m DEF EntersPlane, GoesOn, GoesOnAlone, StaysOut
      <3>2. /\ mem[Manager].inst <= file.inst
            /\ \A d \in Callers : Acting(d) =>
                  /\ mem[Manager].inst <= mem[d].inst
                  /\ Launching(d) => mem[Manager].inst < mem[d].inst
        BY <3>1, <1>i DEF LockedOrDegraded
      <3>3. c \in Callers
        BY <2>3, <1>m
      <3>4. mem[Manager].inst <= file'.inst
        BY <2>3, <3>2, <3>3, <1>m, <1>n, SMTT(30) DEF EntersPlane, GoesOn, GoesOnAlone, StaysOut
      <3>5. Acting(c)' => /\ mem[Manager].inst <= mem'[c].inst
                          /\ Launching(c)' => mem[Manager].inst < mem'[c].inst
        BY <2>3, <3>2, <3>3, <1>m, <1>n, SMTT(30) DEF EntersPlane, GoesOn, GoesOnAlone, StaysOut
      <3> QED
        BY <3>2, <3>4, <3>5, <1>a, <1>m
    <2> QED
      BY <2>2, <2>3
  <1>4. StopsAreWhole'
    <2>1. ASSUME NEW d \in Invocations, d # c
          PROVE  /\ stopFailed'[d] => ppc'[d] = "stopping"
                 /\ ppc'[d] = "stopping" /\ ~stopFailed'[d] =>
                      \A k \in Keys : k > cursor'[d] => mem'[d].comps[k].st \in {"none", "stopped"}
                 /\ ppc'[d] = "stopping" => mem'[d].state # "none"
                 /\ Acting(d)' /\ ppc'[d] # "stopping" => mem'[d].state \notin {"none", "stopped"}
      <3>1. /\ ppc'[d] = ppc[d] /\ mem'[d] = mem[d] /\ (Acting(d)' <=> Acting(d))
            /\ cursor'[d] = cursor[d] /\ stopFailed'[d] = stopFailed[d]
        BY <2>1, <1>a
      <3>2. /\ stopFailed[d] => ppc[d] = "stopping"
            /\ ppc[d] = "stopping" /\ ~stopFailed[d] =>
                  \A k \in Keys : k > cursor[d] => mem[d].comps[k].st \in {"none", "stopped"}
            /\ ppc[d] = "stopping" => mem[d].state # "none"
            /\ Acting(d) /\ ppc[d] # "stopping" => mem[d].state \notin {"none", "stopped"}
        BY <1>i, Zenon DEF StopsAreWhole
      <3> QED
        BY <3>1, <3>2, Zenon
    <2> QED
      BY <2>1, Zenon DEF StopsAreWhole
  <1>5. CopiesAgree'
    <2> SUFFICES ASSUME NEW d \in Callers, ppc'[Manager] = "idle", Acting(d)'
                 PROVE  /\ mem'[d].inst = file'.inst
                        /\ \A k \in Keys : mem'[d].comps[k].pid = file'.comps[k].pid
      BY Zenon DEF CopiesAgree
    <2>1. CASE d = c
      BY <2>1
    <2>2. CASE d # c
      <3>1. Acting(d) /\ mem'[d] = mem[d] /\ d \in Invocations /\ d # Manager
        BY <2>2, <1>a, <1>m
      <3>2. lock = d
        BY <3>1, <1>i DEF LockedOrDegraded
      <3>3. file' = file
        BY <2>2, <3>2, <1>m DEF EntersPlane, GoesOn, GoesOnAlone, StaysOut, Acting,
                                   ActingPlaces, LaunchingPlaces
      <3>4. /\ mem[d].inst = file.inst
            /\ \A k \in Keys : mem[d].comps[k].pid = file.comps[k].pid
        BY <3>1, <1>i DEF CopiesAgree
      <3> QED
        BY <3>1, <3>3, <3>4
    <2> QED
      BY <2>1, <2>2
  <1> QED
    BY <1>1, <1>2, <1>3, <1>4, <1>5 DEF PlaneInv

\* The fields of an invocation's step.
LEMMA PlaneFields ==
    ASSUME PlaneTypes, NEW c \in Invocations, NEW l \in PlanePlaces, NEW m \in PlaneRecord,
           NEW k \in 0..Len(Components), NEW b \in BOOLEAN, file' \in PlaneRecord,
           ppc' = [ppc EXCEPT ![c] = l], mem' = [mem EXCEPT ![c] = m],
           cursor' = [cursor EXCEPT ![c] = k], stopFailed' = [stopFailed EXCEPT ![c] = b],
           DOMAIN proc' = Instances, \A i \in Instances : DOMAIN proc'[i] = Keys,
           l \in LaunchingPlaces => k \in Keys /\ m.inst \in Instances
    PROVE  /\ PlaneTypes'
           /\ ppc'[c] = l /\ mem'[c] = m /\ cursor'[c] = k /\ stopFailed'[c] = b
           /\ \A d \in Invocations \ {c} :
                 /\ ppc'[d] = ppc[d] /\ mem'[d] = mem[d]
                 /\ cursor'[d] = cursor[d] /\ stopFailed'[d] = stopFailed[d]
           /\ Launching(c)' <=> l \in LaunchingPlaces
           /\ Acting(c)' <=> l \in ActingPlaces
  <1>1. /\ ppc' \in [Invocations -> PlanePlaces] /\ ppc'[c] = l
        /\ \A d \in Invocations \ {c} : ppc'[d] = ppc[d]
    BY DEF PlaneTypes
  <1>2. /\ mem' \in [Invocations -> PlaneRecord] /\ mem'[c] = m
        /\ \A d \in Invocations \ {c} : mem'[d] = mem[d]
    BY DEF PlaneTypes
  <1>3. /\ cursor' \in [Invocations -> 0..Len(Components)] /\ cursor'[c] = k
        /\ \A d \in Invocations \ {c} : cursor'[d] = cursor[d]
    BY DEF PlaneTypes
  <1>4. /\ stopFailed' \in [Invocations -> BOOLEAN] /\ stopFailed'[c] = b
        /\ \A d \in Invocations \ {c} : stopFailed'[d] = stopFailed[d]
    BY DEF PlaneTypes
  <1>5. \A d \in Invocations : Launching(d)' => cursor'[d] \in Keys /\ mem'[d].inst \in Instances
    BY <1>1, <1>2, <1>3, ZenonT(60) DEF PlaneTypes, Launching
  <1>6. PlaneTypes'
    BY <1>1, <1>2, <1>3, <1>4, <1>5 DEF PlaneTypes
  <1> QED
    BY <1>1, <1>2, <1>3, <1>4, <1>6 DEF Launching, Acting

\* A field that stays is updated with its own value.
LEMMA PlaneSame ==
    ASSUME PlaneTypes, NEW c \in Invocations
    PROVE  /\ ppc = [ppc EXCEPT ![c] = ppc[c]] /\ mem = [mem EXCEPT ![c] = mem[c]]
           /\ cursor = [cursor EXCEPT ![c] = cursor[c]]
           /\ stopFailed = [stopFailed EXCEPT ![c] = stopFailed[c]]
           /\ ppc[c] \in PlanePlaces /\ mem[c] \in PlaneRecord
           /\ cursor[c] \in 0..Len(Components) /\ stopFailed[c] \in BOOLEAN
  BY DEF PlaneTypes

\* A start that finds nothing active and takes a new instance.
LEMMA StartKeeps ==
    ASSUME PlaneInv, NEW c \in Invocations, StartPlane(c)
    PROVE  PlaneInv'
  <1>i. /\ PlaneTypes /\ RecordsSound /\ LaunchIsNew /\ LockedOrDegraded
        /\ StopsAreWhole /\ CopiesAgree
    BY DEF PlaneInv
  <1>0. PICK new : new = [NoState EXCEPT !.inst = file.inst + 1, !.state = "starting"]
    OBVIOUS
  <1>1. /\ ppc[c] = "idle" /\ lock = "none" /\ lock' = c /\ file.inst < MaxInstances
        /\ mem' = [mem EXCEPT ![c] = new] /\ file' = new
        /\ ppc' = [ppc EXCEPT ![c] = "add"] /\ cursor' = [cursor EXCEPT ![c] = 1]
        /\ UNCHANGED <<proc, stopFailed>>
    BY <1>0 DEF StartPlane, Locking, Put, PlaneGoto, AtComponent
  <1>2. /\ new \in PlaneRecord /\ new.inst = file.inst + 1 /\ new.state = "starting"
        /\ new.inst \in Instances /\ file.inst \in Nat
        /\ \A k \in Keys : new.comps[k].st = "none" /\ new.comps[k].pid = FALSE
    <2>1. file.inst \in 0..MaxInstances
      BY <1>i DEF PlaneTypes, PlaneRecord
    <2>2. new.inst \in Instances /\ new.inst = file.inst + 1 /\ file.inst \in Nat
      BY <1>0, <1>1, <2>1, PlaneAssumption, SMTT(30) DEF NoState, Instances
    <2>3. new \in PlaneRecord
      <3>1. file.inst + 1 \in 0..MaxInstances
        BY <1>1, <2>1, PlaneAssumption, SMTT(30)
      <3> QED
        BY <1>0, <3>1, NoStateRecord DEF PlaneRecord, StateWords
    <2>4. new.state = "starting" /\ new.comps = [k \in Keys |-> NoRecord]
      BY <1>0 DEF NoState
    <2>5. NoRecord.st = "none" /\ NoRecord.pid = FALSE
      BY Zenon DEF NoRecord
    <2> QED
      BY <2>2, <2>3, <2>4, <2>5
  <1>3. 1 \in Keys /\ 1 \in 0..Len(Components) /\ "add" \in PlanePlaces /\ "add" \in LaunchingPlaces
        /\ "add" \in ActingPlaces
    BY PlaneAssumption, SMTT(30) DEF Keys, PlanePlaces, LaunchingPlaces, ActingPlaces
  <1>4. /\ stopFailed' = [stopFailed EXCEPT ![c] = stopFailed[c]] /\ stopFailed[c] \in BOOLEAN
        /\ DOMAIN proc' = Instances /\ \A i \in Instances : DOMAIN proc'[i] = Keys
        /\ ~stopFailed[c]
    <2>1. ~stopFailed[c]
      BY <1>1, <1>i, Zenon DEF StopsAreWhole
    <2>2. DOMAIN proc' = Instances /\ \A i \in Instances : DOMAIN proc'[i] = Keys
      BY <1>1, <1>i DEF PlaneTypes
    <2> QED
      BY <1>1, <1>i, <2>1, <2>2, PlaneSame
  <1>5. /\ PlaneTypes'
        /\ ppc'[c] = "add" /\ mem'[c] = new /\ cursor'[c] = 1 /\ stopFailed'[c] = stopFailed[c]
        /\ \A d \in Invocations \ {c} :
              /\ ppc'[d] = ppc[d] /\ mem'[d] = mem[d]
              /\ cursor'[d] = cursor[d] /\ stopFailed'[d] = stopFailed[d]
        /\ Launching(c)' /\ Acting(c)'
    BY <1>1, <1>2, <1>3, <1>4, <1>i, PlaneFields, ZenonT(60)
  <1>6. SoundRecord(file', proc') /\ SoundRecord(mem'[c], proc')
    BY <1>1, <1>2, <1>5 DEF SoundRecord
  <1>7. \A k \in Keys : k >= cursor'[c] =>
           /\ ~mem'[c].comps[k].pid
           /\ file'.inst = mem'[c].inst => ~file'.comps[k].pid
    BY <1>1, <1>2, <1>5
  <1>8. EntersPlane(c)
    <2>1. ~Acting(c)
      BY <1>1 DEF Acting, ActingPlaces, LaunchingPlaces
    <2> QED
      BY <1>1, <1>2, <1>5, <2>1, SMTT(30) DEF EntersPlane
  <1>9. /\ file'.state \notin {"none", "stopped"} /\ mem'[c].state \notin {"none", "stopped"}
        /\ ppc'[c] # "stopping" /\ ~stopFailed'[c]
    BY <1>1, <1>2, <1>4, <1>5
  <1>10. /\ mem'[c].inst = file'.inst
         /\ \A k \in Keys : mem'[c].comps[k].pid = file'.comps[k].pid
    BY <1>1, <1>5
  <1>11. ppc'[Manager] = "idle" => ppc[Manager] = "idle"
    BY <1>5 DEF Invocations
  <1>12. \A i \in Instances, k \in Keys : proc'[i][k] = "up" => proc[i][k] = "up"
    BY <1>1
  <1> QED
    BY <1>5, <1>6, <1>7, <1>8, <1>9, <1>10, <1>11, <1>12, PlaneMove

\* A launch, the one step that makes a process.
LEMMA LaunchKeeps ==
    ASSUME PlaneInv, NEW c \in Invocations, LaunchComponent(c)
    PROVE  PlaneInv'
  <1>i. /\ PlaneTypes /\ RecordsSound /\ LaunchIsNew /\ LockedOrDegraded
        /\ StopsAreWhole /\ CopiesAgree
    BY DEF PlaneInv
  <1>0. ppc[c] = "launch" /\ Launching(c) /\ Acting(c)
    BY DEF LaunchComponent, Launching, Acting, LaunchingPlaces, ActingPlaces
  <1>1. /\ cursor[c] \in Keys /\ mem[c].inst \in Instances /\ mem[c] \in PlaneRecord /\ lock = c
    BY <1>0, <1>i DEF PlaneTypes, LockedOrDegraded
  <1>2. /\ proc' = proc \/ proc' = [proc EXCEPT ![mem[c].inst][cursor[c]] = "up"]
        /\ \E l \in {"record", "failing"} : ppc' = [ppc EXCEPT ![c] = l]
        /\ UNCHANGED <<file, lock, mem, cursor, stopFailed>>
    BY DEF LaunchComponent, PlaneGoto
  <1>3. PICK l \in {"record", "failing"} : ppc' = [ppc EXCEPT ![c] = l]
    BY <1>2
  <1>4. /\ DOMAIN proc' = Instances /\ \A i \in Instances : DOMAIN proc'[i] = Keys
        /\ \A i \in Instances, k \in Keys :
              i # mem[c].inst \/ k # cursor[c] => proc'[i][k] = proc[i][k]
    <2>1. DOMAIN proc = Instances /\ \A i \in Instances : DOMAIN proc[i] = Keys
      BY <1>i DEF PlaneTypes
    <2>2. CASE proc' = proc
      BY <2>1, <2>2
    <2>3. CASE proc' = [proc EXCEPT ![mem[c].inst][cursor[c]] = "up"]
      BY <2>1, <2>3, <1>1
    <2> QED
      BY <1>2, <2>2, <2>3
  <1>5. /\ cursor' = [cursor EXCEPT ![c] = cursor[c]] /\ cursor[c] \in 0..Len(Components)
        /\ stopFailed' = [stopFailed EXCEPT ![c] = stopFailed[c]] /\ stopFailed[c] \in BOOLEAN
        /\ mem' = [mem EXCEPT ![c] = mem[c]]
    BY <1>2, <1>i, PlaneSame
  <1>6. l \in PlanePlaces /\ l \in ActingPlaces /\ l # "stopping" /\ file' \in PlaneRecord
    BY <1>2, <1>i DEF PlanePlaces, LaunchingPlaces, ActingPlaces, PlaneTypes
  <1>7. /\ PlaneTypes'
        /\ ppc'[c] = l /\ mem'[c] = mem[c] /\ cursor'[c] = cursor[c]
        /\ stopFailed'[c] = stopFailed[c]
        /\ \A d \in Invocations \ {c} :
              /\ ppc'[d] = ppc[d] /\ mem'[d] = mem[d]
              /\ cursor'[d] = cursor[d] /\ stopFailed'[d] = stopFailed[d]
        /\ Acting(c)'
    BY <1>1, <1>3, <1>4, <1>5, <1>6, <1>i, PlaneFields, ZenonT(60)
  <1>8. \A k \in Keys : k >= cursor[c] =>
           /\ ~mem[c].comps[k].pid
           /\ file.inst = mem[c].inst => ~file.comps[k].pid
    BY <1>0, <1>i DEF LaunchIsNew
  <1>9. /\ ~mem[c].comps[cursor[c]].pid
        /\ file.inst = mem[c].inst => ~file.comps[cursor[c]].pid
    BY <1>8, <1>1, SMTT(30) DEF Keys
  <1>10. SoundRecord(file, proc')
    BY <1>4, <1>9, <1>i DEF SoundRecord, RecordsSound
  <1>11. SoundRecord(mem[c], proc')
    BY <1>0, <1>4, <1>9, <1>i, ZenonT(60) DEF SoundRecord, RecordsSound
  <1>12. GoesOn(c)
    BY <1>0, <1>1, <1>2, <1>7 DEF GoesOn
  <1>13. mem[c].state \notin {"none", "stopped"} /\ ~stopFailed[c]
    BY <1>0, <1>i, Zenon DEF StopsAreWhole
  <1>14. file'.state \in {"none", "stopped"} => AllStopped(file')
    BY <1>2, <1>i DEF StopsAreWhole
  <1>15. ppc'[Manager] = "idle" =>
           /\ ppc[Manager] = "idle"
           /\ mem'[c].inst = file'.inst
           /\ \A k \in Keys : mem'[c].comps[k].pid = file'.comps[k].pid
    <2>1. ppc'[Manager] = "idle" => ppc[Manager] = "idle" /\ c # Manager
      BY <1>7, <1>6 DEF Invocations, ActingPlaces, LaunchingPlaces
    <2>2. c # Manager => c \in Callers
      BY DEF Invocations
    <2> QED
      BY <2>1, <2>2, <1>0, <1>2, <1>7, <1>i DEF CopiesAgree
  <1>16. /\ SoundRecord(file', proc') /\ SoundRecord(mem'[c], proc')
         /\ \A k \in Keys : k >= cursor'[c] =>
              /\ ~mem'[c].comps[k].pid
              /\ file'.inst = mem'[c].inst => ~file'.comps[k].pid
    BY <1>2, <1>7, <1>8, <1>10, <1>11
  <1>17. /\ ppc'[c] # "stopping" /\ mem'[c].state \notin {"none", "stopped"} /\ ~stopFailed'[c]
    BY <1>6, <1>7, <1>13
  <1>18. \A i \in Instances, k \in Keys : proc'[i][k] = "up" =>
            proc[i][k] = "up" \/ (Launching(c) /\ i = mem[c].inst /\ k = cursor[c])
    BY <1>0, <1>4
  <1> QED
    BY <1>7, <1>12, <1>14, <1>15, <1>16, <1>17, <1>18, PlaneMove

\* What a step that leaves c at the place l with the copy m has to show.
Enters(c, l, m) ==
    /\ lock = "none" /\ ~Acting(c) /\ lock' \in {c, "none"}
    /\ file'.inst >= file.inst
    /\ l \in ActingPlaces => /\ m.inst >= file.inst
                             /\ lock' = c \/ (c = Manager /\ l = "degraded"
                                                          /\ m.inst <= file'.inst)
    /\ l \in LaunchingPlaces => m.inst > file.inst
Continues(c, l, m) ==
    /\ Acting(c) /\ lock = c
    /\ l \in ActingPlaces => lock' = c /\ m.inst = mem[c].inst
    /\ l \notin ActingPlaces => lock' = "none"
    /\ file' = file \/ file'.inst = mem[c].inst
    /\ l \in LaunchingPlaces => Launching(c)
ContinuesAlone(c, l, m) ==
    /\ c = Manager /\ Acting(c) /\ lock # c /\ lock' = lock
    /\ l \in ActingPlaces => m.inst = mem[c].inst /\ l = "stopping"
    /\ file' = file \/ file'.inst = mem[c].inst
LooksOn(c, l) ==
    /\ ~Acting(c) /\ l \notin ActingPlaces /\ file' = file
    /\ lock' = lock \/ (lock = c /\ lock' = "none")

\* The same as PlaneMove, for a step that makes no process.
LEMMA PlaneKeeps ==
    ASSUME PlaneInv, NEW c \in Invocations, NEW l \in PlanePlaces, NEW m \in PlaneRecord,
           NEW k \in 0..Len(Components), NEW b \in BOOLEAN, file' \in PlaneRecord,
           ppc' = [ppc EXCEPT ![c] = l], mem' = [mem EXCEPT ![c] = m],
           cursor' = [cursor EXCEPT ![c] = k], stopFailed' = [stopFailed EXCEPT ![c] = b],
           DOMAIN proc' = Instances, \A i \in Instances : DOMAIN proc'[i] = Keys,
           l \in LaunchingPlaces => k \in Keys /\ m.inst \in Instances,
           \A i \in Instances, j \in Keys : proc'[i][j] = "up" => proc[i][j] = "up",
           SoundRecord(file', proc'),
           l \in ActingPlaces => SoundRecord(m, proc'),
           l \in LaunchingPlaces => \A j \in Keys : j >= k =>
              ~m.comps[j].pid /\ (file'.inst = m.inst => ~file'.comps[j].pid),
           Enters(c, l, m) \/ Continues(c, l, m) \/ ContinuesAlone(c, l, m) \/ LooksOn(c, l),
           file'.state \in {"none", "stopped"} => AllStopped(file'),
           b => l = "stopping",
           l = "stopping" /\ ~b => \A j \in Keys : j > k => m.comps[j].st \in {"none", "stopped"},
           l = "stopping" => m.state # "none",
           l \in ActingPlaces /\ l # "stopping" => m.state \notin {"none", "stopped"},
           ppc[Manager] = "idle" /\ l \in ActingPlaces =>
              m.inst = file'.inst /\ \A j \in Keys : m.comps[j].pid = file'.comps[j].pid,
           c = Manager => l # "idle"
    PROVE  PlaneInv'
  <1>i. PlaneTypes
    BY DEF PlaneInv
  <1>1. /\ PlaneTypes'
        /\ ppc'[c] = l /\ mem'[c] = m /\ cursor'[c] = k /\ stopFailed'[c] = b
        /\ \A d \in Invocations \ {c} :
              /\ ppc'[d] = ppc[d] /\ mem'[d] = mem[d]
              /\ cursor'[d] = cursor[d] /\ stopFailed'[d] = stopFailed[d]
        /\ Launching(c)' <=> l \in LaunchingPlaces
        /\ Acting(c)' <=> l \in ActingPlaces
    BY <1>i, PlaneFields
  <1>2. EntersPlane(c) \/ GoesOn(c) \/ GoesOnAlone(c) \/ StaysOut(c)
    <2>1. Enters(c, l, m) => EntersPlane(c)
      BY <1>1 DEF Enters, EntersPlane
    <2>2. Continues(c, l, m) => GoesOn(c)
      BY <1>1 DEF Continues, GoesOn
    <2>3. ContinuesAlone(c, l, m) => GoesOnAlone(c)
      BY <1>1 DEF ContinuesAlone, GoesOnAlone
    <2>4. LooksOn(c, l) => StaysOut(c)
      BY <1>1 DEF LooksOn, StaysOut
    <2> QED
      BY <2>1, <2>2, <2>3, <2>4
  <1>3. ppc'[Manager] = "idle" => ppc[Manager] = "idle"
    BY <1>1, ZenonT(60) DEF Invocations
  <1>4. Acting(c)' => SoundRecord(mem'[c], proc')
    BY <1>1
  <1>5. Launching(c)' => \A j \in Keys : j >= cursor'[c] =>
            /\ ~mem'[c].comps[j].pid
            /\ file'.inst = mem'[c].inst => ~file'.comps[j].pid
    BY <1>1, SMTT(30)
  <1>6. ppc'[c] = "stopping" /\ ~stopFailed'[c] =>
            \A j \in Keys : j > cursor'[c] => mem'[c].comps[j].st \in {"none", "stopped"}
    BY <1>1, ZenonT(60)
  <1>7. /\ stopFailed'[c] => ppc'[c] = "stopping"
        /\ ppc'[c] = "stopping" => mem'[c].state # "none"
        /\ Acting(c)' /\ ppc'[c] # "stopping" => mem'[c].state \notin {"none", "stopped"}
    BY <1>1
  <1>8. ppc'[Manager] = "idle" /\ Acting(c)' =>
              /\ mem'[c].inst = file'.inst
              /\ \A j \in Keys : mem'[c].comps[j].pid = file'.comps[j].pid
    BY <1>1, <1>3, SMTT(30)
  <1>9. \A i \in Instances, j \in Keys : proc'[i][j] = "up" =>
              proc[i][j] = "up" \/ (Launching(c) /\ i = mem[c].inst /\ j = cursor[c])
    OBVIOUS
  <1>10. \A d \in Invocations \ {c} :
              /\ ppc'[d] = ppc[d] /\ mem'[d] = mem[d]
              /\ cursor'[d] = cursor[d] /\ stopFailed'[d] = stopFailed[d]
    BY <1>1
  <1>11. PlaneTypes'
    BY <1>1
  <1> QED
    BY <1>2, <1>3, <1>4, <1>5, <1>6, <1>7, <1>8, <1>9, <1>10, <1>11, PlaneMove, ZenonT(60)

\* AddRecord, LaunchComponent and RecordPid: what goes on under the lock.
LEMMA AddKeeps ==
    ASSUME PlaneInv, NEW c \in Invocations, AddRecord(c)
    PROVE  PlaneInv'
  <1>i. /\ PlaneTypes /\ RecordsSound /\ LaunchIsNew /\ LockedOrDegraded
        /\ StopsAreWhole /\ CopiesAgree
    BY DEF PlaneInv
  <1>0. ppc[c] = "add" /\ Launching(c) /\ Acting(c)
    BY DEF AddRecord, Launching, Acting, LaunchingPlaces, ActingPlaces
  <1>1. /\ cursor[c] \in Keys /\ mem[c].inst \in Instances /\ mem[c] \in PlaneRecord /\ lock = c
    BY <1>0, <1>i DEF PlaneTypes, LockedOrDegraded
  <1>2. PICK s \in PlaneRecord :
           /\ s = [mem[c] EXCEPT !.comps[cursor[c]].st = "starting"]
           /\ s.inst = mem[c].inst /\ s.state = mem[c].state
           /\ s.comps[cursor[c]].st = "starting"
           /\ s.comps[cursor[c]].pid = mem[c].comps[cursor[c]].pid
           /\ \A l \in Keys \ {cursor[c]} : s.comps[l] = mem[c].comps[l]
    <2>1. "starting" \in ComponentWords
      BY DEF ComponentWords
    <2> QED
      BY <1>1, <2>1, ComponentUpdate, SMTT(30)
  <1>3. /\ mem' = [mem EXCEPT ![c] = s] /\ file' = s
        /\ ppc' = [ppc EXCEPT ![c] = "launch"]
        /\ UNCHANGED <<lock, proc, cursor, stopFailed>>
    BY <1>2 DEF AddRecord, Put, PlaneGoto
  <1>4. /\ cursor' = [cursor EXCEPT ![c] = cursor[c]] /\ cursor[c] \in 0..Len(Components)
        /\ stopFailed' = [stopFailed EXCEPT ![c] = stopFailed[c]] /\ stopFailed[c] \in BOOLEAN
    BY <1>3, <1>i, PlaneSame
  <1>5. /\ DOMAIN proc' = Instances /\ \A i \in Instances : DOMAIN proc'[i] = Keys
        /\ s.inst \in Instances /\ file' \in PlaneRecord
        /\ \A i \in Instances, k \in Keys : proc'[i][k] = "up" => proc[i][k] = "up"
    BY <1>1, <1>2, <1>3, <1>i DEF PlaneTypes
  <1>6. "launch" \in PlanePlaces /\ "launch" \in LaunchingPlaces /\ "launch" \in ActingPlaces
    BY DEF PlanePlaces, LaunchingPlaces, ActingPlaces
  <1>7. SoundRecord(s, proc')
    <2>1. SoundRecord(mem[c], proc)
      BY <1>0, <1>i DEF RecordsSound
    <2>2. \A k \in Keys : \/ k = cursor[c] /\ s.comps[k].st = "starting"
                          \/ s.comps[k] = mem[c].comps[k]
      BY <1>2
    <2>3. SoundRecord(s, proc)
      <3>1. s.inst = mem[c].inst /\ s.inst \in Instances
        BY <1>2, <1>5
      <3> QED
        BY <2>1, <2>2, <3>1 DEF SoundRecord
    <2> QED
      BY <1>3, <2>3
  <1>8. \A k \in Keys : k >= cursor[c] => ~mem[c].comps[k].pid
    BY <1>0, <1>i DEF LaunchIsNew
  <1>9. \A k \in Keys : k >= cursor[c] =>
            ~s.comps[k].pid /\ (file'.inst = s.inst => ~file'.comps[k].pid)
    <2>1. \A k \in Keys : s.comps[k].pid = mem[c].comps[k].pid
      BY <1>2
    <2> QED
      BY <1>3, <1>8, <2>1
  <1>10. Continues(c, "launch", s)
    BY <1>0, <1>1, <1>2, <1>3, <1>6 DEF Continues
  <1>11. mem[c].state \notin {"none", "stopped"} /\ ~stopFailed[c]
    BY <1>0, <1>i, Zenon DEF StopsAreWhole
  <1>12. file'.state \notin {"none", "stopped"} /\ s.state \notin {"none", "stopped"}
    BY <1>2, <1>3, <1>11
  <1>13. "launch" \in LaunchingPlaces => cursor[c] \in Keys /\ s.inst \in Instances
    BY <1>1, <1>5
  <1>14. s.inst = file'.inst /\ \A k \in Keys : s.comps[k].pid = file'.comps[k].pid
    BY <1>3
  <1>15. SoundRecord(file', proc')
    BY <1>3, <1>7
  <1>16. mem' = [mem EXCEPT ![c] = s] /\ ppc' = [ppc EXCEPT ![c] = "launch"]
    BY <1>3
  <1>17. s \in PlaneRecord /\ ~stopFailed[c]
    BY <1>2, <1>11
  <1> QED
    BY <1>4, <1>5, <1>6, <1>7, <1>9, <1>10, <1>12, <1>13, <1>14, <1>15, <1>16, <1>17, PlaneKeeps

\* A state stays sound as long as no process comes up.
LEMMA SoundStays ==
    ASSUME NEW s, NEW p, NEW q, SoundRecord(s, p),
           \A i \in Instances, k \in Keys : q[i][k] = "up" => p[i][k] = "up"
    PROVE  SoundRecord(s, q)
  BY DEF SoundRecord

\* The lemmas of the actions share what they need of c and of the invariant.
LEMMA PlaneFacts ==
    ASSUME PlaneInv, NEW c \in Invocations
    PROVE  /\ PlaneTypes /\ SoundRecord(file, proc) /\ file \in PlaneRecord
           /\ Acting(c) => SoundRecord(mem[c], proc)
           /\ DOMAIN proc = Instances /\ \A i \in Instances : DOMAIN proc[i] = Keys
           /\ file.state \in {"none", "stopped"} => AllStopped(file)
           /\ file.inst \in Nat /\ mem[c].inst \in Nat
           /\ stopFailed[c] => ppc[c] = "stopping"
           /\ Acting(c) /\ ppc[c] # "stopping" => mem[c].state \notin {"none", "stopped"}
           /\ Acting(c) => lock = c \/ (c = Manager /\ ppc[c] \in {"degraded", "stopping"})
           /\ ppc[Manager] = "idle" /\ Acting(c) =>
                 mem[c].inst = file.inst /\ \A k \in Keys : mem[c].comps[k].pid = file.comps[k].pid
           /\ Launching(c) => \A k \in Keys : k >= cursor[c] =>
                 ~mem[c].comps[k].pid /\ (file.inst = mem[c].inst => ~file.comps[k].pid)
           /\ Launching(c) => cursor[c] \in Keys /\ mem[c].inst \in Instances
  <1>i. /\ PlaneTypes /\ RecordsSound /\ LaunchIsNew /\ LockedOrDegraded
        /\ StopsAreWhole /\ CopiesAgree
    BY DEF PlaneInv
  <1>1. /\ PlaneTypes /\ SoundRecord(file, proc) /\ file \in PlaneRecord
        /\ Acting(c) => SoundRecord(mem[c], proc)
        /\ DOMAIN proc = Instances /\ \A i \in Instances : DOMAIN proc[i] = Keys
        /\ Launching(c) => cursor[c] \in Keys /\ mem[c].inst \in Instances
    BY <1>i DEF PlaneTypes, RecordsSound
  <1>2. /\ file.state \in {"none", "stopped"} => AllStopped(file)
        /\ stopFailed[c] => ppc[c] = "stopping"
        /\ Acting(c) /\ ppc[c] # "stopping" => mem[c].state \notin {"none", "stopped"}
    BY <1>i, Zenon DEF StopsAreWhole
  <1>3. Acting(c) => lock = c \/ (c = Manager /\ ppc[c] \in {"degraded", "stopping"})
    BY <1>i DEF LockedOrDegraded
  <1>4. file.inst \in Nat /\ mem[c].inst \in Nat
    BY <1>i, PlaneAssumption, SMTT(30) DEF PlaneTypes, PlaneRecord
  <1>5. ppc[Manager] = "idle" /\ Acting(c) => c \in Callers
    BY DEF Invocations, Acting, ActingPlaces, LaunchingPlaces
  <1>6. ppc[Manager] = "idle" /\ Acting(c) =>
           mem[c].inst = file.inst /\ \A k \in Keys : mem[c].comps[k].pid = file.comps[k].pid
    BY <1>5, <1>i DEF CopiesAgree
  <1>7. Launching(c) => \A k \in Keys : k >= cursor[c] =>
           ~mem[c].comps[k].pid /\ (file.inst = mem[c].inst => ~file.comps[k].pid)
    BY <1>i DEF LaunchIsNew
  <1> QED
    BY <1>1, <1>2, <1>3, <1>4, <1>6, <1>7

\* The record of a component that was launched.
LEMMA RecordKeeps ==
    ASSUME PlaneInv, NEW c \in Invocations, RecordPid(c)
    PROVE  PlaneInv'
  <1>f. /\ PlaneTypes /\ SoundRecord(file, proc) /\ file \in PlaneRecord
        /\ Acting(c) => SoundRecord(mem[c], proc)
        /\ DOMAIN proc = Instances /\ \A i \in Instances : DOMAIN proc[i] = Keys
        /\ file.state \in {"none", "stopped"} => AllStopped(file)
        /\ stopFailed[c] => ppc[c] = "stopping"
        /\ Acting(c) /\ ppc[c] # "stopping" => mem[c].state \notin {"none", "stopped"}
        /\ Acting(c) => lock = c \/ (c = Manager /\ ppc[c] \in {"degraded", "stopping"})
        /\ ppc[Manager] = "idle" /\ Acting(c) =>
              mem[c].inst = file.inst /\ \A k \in Keys : mem[c].comps[k].pid = file.comps[k].pid
        /\ Launching(c) => \A k \in Keys : k >= cursor[c] => ~mem[c].comps[k].pid
        /\ Launching(c) => cursor[c] \in Keys /\ mem[c].inst \in Instances
    BY PlaneFacts
  <1>0. ppc[c] = "record" /\ Launching(c) /\ Acting(c)
    BY DEF RecordPid, Launching, Acting, LaunchingPlaces, ActingPlaces
  <1>s. /\ mem = [mem EXCEPT ![c] = mem[c]] /\ cursor = [cursor EXCEPT ![c] = cursor[c]]
        /\ stopFailed = [stopFailed EXCEPT ![c] = stopFailed[c]]
        /\ mem[c] \in PlaneRecord /\ cursor[c] \in 0..Len(Components) /\ stopFailed[c] \in BOOLEAN
    BY <1>f, PlaneSame
  <1>1. /\ cursor[c] \in Keys /\ mem[c].inst \in Instances /\ lock = c /\ ~stopFailed[c]
        /\ SoundRecord(mem[c], proc) /\ mem[c].state \notin {"none", "stopped"}
    BY <1>0, <1>f
  <1>2. CASE /\ ppc' = [ppc EXCEPT ![c] = "failing"]
             /\ UNCHANGED <<file, lock, mem, cursor, proc, stopFailed>>
    <2>1. "failing" \in PlanePlaces /\ "failing" \notin LaunchingPlaces /\ "failing" \in ActingPlaces
      BY DEF PlanePlaces, LaunchingPlaces, ActingPlaces
    <2>2. Continues(c, "failing", mem[c])
      BY <1>0, <1>1, <1>2, <2>1 DEF Continues
    <2>3. mem' = [mem EXCEPT ![c] = mem[c]] /\ cursor' = [cursor EXCEPT ![c] = cursor[c]]
          /\ stopFailed' = [stopFailed EXCEPT ![c] = stopFailed[c]]
      BY <1>2, <1>s
    <2>4. SoundRecord(file', proc') /\ SoundRecord(mem[c], proc')
      BY <1>2, <1>1, <1>f
    <2>5. /\ file' \in PlaneRecord /\ DOMAIN proc' = Instances
          /\ \A i \in Instances : DOMAIN proc'[i] = Keys
          /\ \A i \in Instances, j \in Keys : proc'[i][j] = "up" => proc[i][j] = "up"
      BY <1>2, <1>f
    <2>6. file'.state \in {"none", "stopped"} => AllStopped(file')
      BY <1>2, <1>f
    <2>7. ppc[Manager] = "idle" =>
             mem[c].inst = file'.inst /\ \A j \in Keys : mem[c].comps[j].pid = file'.comps[j].pid
      BY <1>2, <1>0, <1>f
    <2>8. ppc' = [ppc EXCEPT ![c] = "failing"]
      BY <1>2
    <2> QED
      BY <1>1, <1>s, <2>1, <2>2, <2>3, <2>4, <2>5, <2>6, <2>7, <2>8, PlaneKeeps
  <1>3. CASE reach /\ proc[mem[c].inst][cursor[c]] = "up"
    <2>0. PICK s \in PlaneRecord :
             /\ s = [mem[c] EXCEPT !.comps[cursor[c]] = [st |-> "ready", pid |-> TRUE]]
             /\ s.inst = mem[c].inst /\ s.state = mem[c].state
             /\ s.comps[cursor[c]].st = "ready" /\ s.comps[cursor[c]].pid
             /\ \A l \in Keys \ {cursor[c]} : s.comps[l] = mem[c].comps[l]
      <3>1. PICK m, k : m = mem[c] /\ k = cursor[c]
        OBVIOUS
      <3>2. m \in PlaneRecord /\ k \in Keys
        BY <3>1, <1>1, <1>s
      <3>3. \E t \in PlaneRecord :
               /\ t = [m EXCEPT !.comps[k] = [st |-> "ready", pid |-> TRUE]]
               /\ t.inst = m.inst /\ t.state = m.state
               /\ t.comps[k].st = "ready" /\ t.comps[k].pid
               /\ \A l \in Keys \ {k} : t.comps[l] = m.comps[l]
        BY <3>2, ReadyUpdate
      <3> QED
        BY <3>1, <3>3
    <2>1. PICK last : last = (cursor[c] = Len(Components))
      OBVIOUS
    <2>2. PICK t : t = IF last THEN [s EXCEPT !.state = "ready"] ELSE s
      OBVIOUS
    <2>3. /\ t \in PlaneRecord /\ t.inst = mem[c].inst /\ t.comps = s.comps
          /\ t.state \notin {"none", "stopped"}
      <3>1. "ready" \in StateWords
        BY DEF StateWords
      <3>2. /\ [s EXCEPT !.state = "ready"] \in PlaneRecord
            /\ [s EXCEPT !.state = "ready"].inst = s.inst
            /\ [s EXCEPT !.state = "ready"].state = "ready"
            /\ [s EXCEPT !.state = "ready"].comps = s.comps
        BY <2>0, <3>1, StateUpdate
      <3> QED
        BY <2>0, <2>2, <3>2, <1>1
    <2>4. /\ mem' = [mem EXCEPT ![c] = IF last /\ c # Manager THEN NoState ELSE t]
          /\ file' = t
          /\ cursor' = [cursor EXCEPT ![c] = IF last THEN 0 ELSE cursor[c] + 1]
          /\ ppc' = [ppc EXCEPT ![c] = IF ~last THEN "add"
                                       ELSE IF c = Manager THEN "started" ELSE "idle"]
          /\ lock' = IF last THEN "none" ELSE lock
          /\ UNCHANGED <<proc, stopFailed>>
      BY <1>3, <2>0, <2>1, <2>2, Zenon DEF RecordPid, Put, PlaneGoto, AtComponent
    <2>5. SoundRecord(t, proc')
      <3>1. \A k \in Keys : \/ k = cursor[c] /\ t.comps[k].st = "ready"
                            \/ t.comps[k] = mem[c].comps[k]
        BY <2>0, <2>3
      <3> QED
        BY <1>1, <2>3, <2>4, <3>1 DEF SoundRecord
    <2>6. stopFailed' = [stopFailed EXCEPT ![c] = stopFailed[c]]
      BY <2>4, <1>s
    <2>7. /\ file' \in PlaneRecord /\ DOMAIN proc' = Instances
          /\ \A i \in Instances : DOMAIN proc'[i] = Keys
          /\ \A i \in Instances, j \in Keys : proc'[i][j] = "up" => proc[i][j] = "up"
          /\ SoundRecord(file', proc')
          /\ file'.state \in {"none", "stopped"} => AllStopped(file')
      BY <2>3, <2>4, <2>5, <1>f
    <2>8. /\ "add" \in PlanePlaces /\ "add" \in LaunchingPlaces /\ "add" \in ActingPlaces
          /\ "started" \in PlanePlaces /\ "started" \notin LaunchingPlaces
          /\ "started" \notin ActingPlaces
          /\ "idle" \in PlanePlaces /\ "idle" \notin LaunchingPlaces /\ "idle" \notin ActingPlaces
      BY DEF PlanePlaces, LaunchingPlaces, ActingPlaces
    <2>9. CASE ~last
      <3>1. /\ mem' = [mem EXCEPT ![c] = t] /\ cursor' = [cursor EXCEPT ![c] = cursor[c] + 1]
            /\ ppc' = [ppc EXCEPT ![c] = "add"] /\ lock' = lock
        BY <2>4, <2>9
      <3>2. cursor[c] + 1 \in Keys /\ cursor[c] + 1 \in 0..Len(Components)
        <4>1. cursor[c] # Len(Components)
          BY <2>1, <2>9, Zenon
        <4> QED
          BY <4>1, <1>1, PlaneAssumption, SMTT(30) DEF Keys
      <3>3. Continues(c, "add", t)
        BY <1>0, <1>1, <2>3, <2>4, <2>8, <3>1 DEF Continues
      <3>4. \A j \in Keys : j >= cursor[c] + 1 =>
               ~t.comps[j].pid /\ (file'.inst = t.inst => ~file'.comps[j].pid)
        <4>1. \A j \in Keys : j >= cursor[c] + 1 => j \in Keys \ {cursor[c]} /\ j >= cursor[c]
          BY <1>1, PlaneAssumption, SMTT(30) DEF Keys
        <4>2. \A j \in Keys : j >= cursor[c] + 1 => t.comps[j] = mem[c].comps[j]
          BY <4>1, <2>0, <2>3
        <4>3. \A j \in Keys : j >= cursor[c] + 1 => ~mem[c].comps[j].pid
          BY <4>1, <1>0, <1>f
        <4> QED
          BY <4>2, <4>3, <2>4
      <3>5. ppc[Manager] = "idle" /\ "add" \in ActingPlaces =>
               t.inst = file'.inst /\ \A j \in Keys : t.comps[j].pid = file'.comps[j].pid
        BY <2>4
      <3>6. "add" \in LaunchingPlaces => cursor[c] + 1 \in Keys /\ t.inst \in Instances
        BY <3>2, <2>3, <1>1
      <3> QED
        BY <1>1, <1>s, <2>3, <2>5, <2>6, <2>7, <2>8, <3>1, <3>2, <3>3, <3>4, <3>5, <3>6, PlaneKeeps
    <2>10. CASE last /\ c # Manager
      <3>1. /\ mem' = [mem EXCEPT ![c] = NoState] /\ cursor' = [cursor EXCEPT ![c] = 0]
            /\ ppc' = [ppc EXCEPT ![c] = "idle"] /\ lock' = "none"
        BY <2>4, <2>10
      <3>2. Continues(c, "idle", NoState)
        BY <1>0, <1>1, <2>3, <2>4, <2>8, <3>1 DEF Continues
      <3>3. NoState \in PlaneRecord /\ 0 \in 0..Len(Components)
        BY NoStateRecord, PlaneAssumption, SMTT(30)
      <3> QED
        BY <1>1, <1>s, <2>6, <2>7, <2>8, <2>10, <3>1, <3>2, <3>3, PlaneKeeps
    <2>11. CASE last /\ c = Manager
      <3>1. /\ mem' = [mem EXCEPT ![c] = t] /\ cursor' = [cursor EXCEPT ![c] = 0]
            /\ ppc' = [ppc EXCEPT ![c] = "started"] /\ lock' = "none"
        BY <2>4, <2>11
      <3>2. Continues(c, "started", t)
        BY <1>0, <1>1, <2>3, <2>4, <2>8, <3>1 DEF Continues
      <3>3. 0 \in 0..Len(Components)
        BY PlaneAssumption, SMTT(30)
      <3> QED
        BY <1>1, <1>s, <2>3, <2>6, <2>7, <2>8, <3>1, <3>2, <3>3, PlaneKeeps
    <2> QED
      BY <2>9, <2>10, <2>11, Zenon
  <1>4. CASE ~(reach /\ proc[mem[c].inst][cursor[c]] = "up")
    BY <1>2, <1>4 DEF RecordPid, PlaneGoto
  <1> QED
    BY <1>3, <1>4

\* A start that failed and turns to stopping what it started.
LEMMA FailingKeeps ==
    ASSUME PlaneInv, NEW c \in Invocations, Failing(c)
    PROVE  PlaneInv'
  <1>f. /\ PlaneTypes /\ SoundRecord(file, proc) /\ file \in PlaneRecord
        /\ Acting(c) => SoundRecord(mem[c], proc)
        /\ DOMAIN proc = Instances /\ \A i \in Instances : DOMAIN proc[i] = Keys
        /\ file.state \in {"none", "stopped"} => AllStopped(file)
        /\ stopFailed[c] => ppc[c] = "stopping"
        /\ Acting(c) => lock = c \/ (c = Manager /\ ppc[c] \in {"degraded", "stopping"})
        /\ ppc[Manager] = "idle" /\ Acting(c) =>
              mem[c].inst = file.inst /\ \A k \in Keys : mem[c].comps[k].pid = file.comps[k].pid
    BY PlaneFacts
  <1>0. ppc[c] = "failing" /\ Acting(c)
    BY DEF Failing, Acting, ActingPlaces
  <1>s. /\ stopFailed = [stopFailed EXCEPT ![c] = stopFailed[c]]
        /\ mem[c] \in PlaneRecord /\ stopFailed[c] \in BOOLEAN
    BY <1>f, PlaneSame
  <1>1. PICK m : m = [mem[c] EXCEPT !.state = "error"]
    OBVIOUS
  <1>2. m \in PlaneRecord /\ m.inst = mem[c].inst /\ m.state = "error" /\ m.comps = mem[c].comps
    <2>1. "error" \in StateWords
      BY DEF StateWords
    <2> QED
      BY <1>s, <1>1, <2>1, StateUpdate
  <1>3. /\ mem' = [mem EXCEPT ![c] = m] /\ ppc' = [ppc EXCEPT ![c] = "stopping"]
        /\ cursor' = [cursor EXCEPT ![c] = Len(Components)]
        /\ file' = file /\ lock' = lock /\ proc' = proc /\ stopFailed' = stopFailed
    BY <1>1 DEF Failing, Put, PlaneGoto, AtComponent
  <1>4. lock = c /\ ~stopFailed[c] /\ SoundRecord(mem[c], proc)
    BY <1>0, <1>f
  <1>5. /\ "stopping" \in PlanePlaces /\ "stopping" \notin LaunchingPlaces
        /\ "stopping" \in ActingPlaces /\ Len(Components) \in 0..Len(Components)
        /\ \A j \in Keys : ~(j > Len(Components))
    BY PlaneAssumption, SMTT(30) DEF PlanePlaces, LaunchingPlaces, ActingPlaces, Keys
  <1>6. Continues(c, "stopping", m)
    BY <1>0, <1>2, <1>3, <1>4, <1>5 DEF Continues
  <1>7. SoundRecord(m, proc') /\ SoundRecord(file', proc')
    <2>1. SoundRecord(m, proc)
      BY <1>2, <1>4 DEF SoundRecord
    <2> QED
      BY <1>3, <1>f, <2>1
  <1>8. ppc[Manager] = "idle" =>
           m.inst = file'.inst /\ \A k \in Keys : m.comps[k].pid = file'.comps[k].pid
    BY <1>0, <1>2, <1>3, <1>f
  <1>9. /\ file' \in PlaneRecord /\ DOMAIN proc' = Instances
        /\ \A i \in Instances : DOMAIN proc'[i] = Keys
        /\ \A i \in Instances, j \in Keys : proc'[i][j] = "up" => proc[i][j] = "up"
        /\ file'.state \in {"none", "stopped"} => AllStopped(file')
    BY <1>3, <1>f
  <1>10. stopFailed' = [stopFailed EXCEPT ![c] = stopFailed[c]]
    BY <1>3, <1>s
  <1> QED
    BY <1>2, <1>3, <1>4, <1>5, <1>6, <1>7, <1>8, <1>9, <1>10, <1>s, PlaneKeeps

\* The beginning of a stop.
LEMMA StopFromKeeps ==
    ASSUME PlaneInv, NEW c \in Invocations, NEW place \in {"idle", "polling"}, StopFrom(c, place)
    PROVE  PlaneInv'
  <1>f. /\ PlaneTypes /\ SoundRecord(file, proc) /\ file \in PlaneRecord
        /\ DOMAIN proc = Instances /\ \A i \in Instances : DOMAIN proc[i] = Keys
        /\ file.state \in {"none", "stopped"} => AllStopped(file)
        /\ file.inst \in Nat
        /\ stopFailed[c] => ppc[c] = "stopping"
    BY PlaneFacts
  <1>0. ppc[c] = place /\ ~Acting(c)
    BY DEF StopFrom, Acting, ActingPlaces, LaunchingPlaces
  <1>s. /\ stopFailed = [stopFailed EXCEPT ![c] = stopFailed[c]]
        /\ stopFailed[c] \in BOOLEAN
    BY <1>f, PlaneSame
  <1>1. PICK m : m = [file EXCEPT !.state = "stopping"]
    OBVIOUS
  <1>2. m \in PlaneRecord /\ m.inst = file.inst /\ m.state = "stopping" /\ m.comps = file.comps
    <2>1. "stopping" \in StateWords
      BY DEF StateWords
    <2> QED
      BY <1>f, <1>1, <2>1, StateUpdate
  <1>3. /\ mem' = [mem EXCEPT ![c] = m] /\ ppc' = [ppc EXCEPT ![c] = "stopping"]
        /\ cursor' = [cursor EXCEPT ![c] = Len(Components)]
        /\ file' = file /\ lock = "none" /\ lock' = c /\ proc' = proc /\ stopFailed' = stopFailed
    BY <1>1 DEF StopFrom, Locking, Put, PlaneGoto, AtComponent
  <1>4. ~stopFailed[c]
    BY <1>0, <1>f
  <1>5. /\ "stopping" \in PlanePlaces /\ "stopping" \notin LaunchingPlaces
        /\ "stopping" \in ActingPlaces /\ Len(Components) \in 0..Len(Components)
        /\ \A j \in Keys : ~(j > Len(Components))
    BY PlaneAssumption, SMTT(30) DEF PlanePlaces, LaunchingPlaces, ActingPlaces, Keys
  <1>6. Enters(c, "stopping", m)
    BY <1>0, <1>2, <1>3, <1>5, <1>f, SMTT(30) DEF Enters
  <1>7. SoundRecord(m, proc') /\ SoundRecord(file', proc')
    <2>1. SoundRecord(m, proc)
      BY <1>2, <1>f DEF SoundRecord
    <2> QED
      BY <1>3, <1>f, <2>1
  <1>8. m.inst = file'.inst /\ \A k \in Keys : m.comps[k].pid = file'.comps[k].pid
    BY <1>2, <1>3
  <1>9. /\ file' \in PlaneRecord /\ DOMAIN proc' = Instances
        /\ \A i \in Instances : DOMAIN proc'[i] = Keys
        /\ \A i \in Instances, j \in Keys : proc'[i][j] = "up" => proc[i][j] = "up"
        /\ file'.state \in {"none", "stopped"} => AllStopped(file')
    BY <1>3, <1>f
  <1>10. stopFailed' = [stopFailed EXCEPT ![c] = stopFailed[c]]
    BY <1>3, <1>s
  <1> QED
    BY <1>2, <1>3, <1>4, <1>5, <1>6, <1>7, <1>8, <1>9, <1>10, <1>s, PlaneKeeps

\* The beginning of a status call.
LEMMA StatusKeeps ==
    ASSUME PlaneInv, NEW c \in Invocations, Status(c)
    PROVE  PlaneInv'
  <1>f. /\ PlaneTypes /\ SoundRecord(file, proc) /\ file \in PlaneRecord
        /\ DOMAIN proc = Instances /\ \A i \in Instances : DOMAIN proc[i] = Keys
        /\ file.inst \in Nat
        /\ stopFailed[c] => ppc[c] = "stopping"
    BY PlaneFacts
  <1>0. ppc[c] = "idle" /\ ~Acting(c)
    BY DEF Status, Acting, ActingPlaces, LaunchingPlaces
  <1>s. /\ stopFailed = [stopFailed EXCEPT ![c] = stopFailed[c]]
        /\ cursor = [cursor EXCEPT ![c] = cursor[c]] /\ cursor[c] \in 0..Len(Components)
        /\ stopFailed[c] \in BOOLEAN
    BY <1>f, PlaneSame
  <1>1. /\ mem' = [mem EXCEPT ![c] = file] /\ ppc' = [ppc EXCEPT ![c] = "looking"]
        /\ file' = file /\ lock = "none" /\ lock' = c /\ proc' = proc
        /\ cursor' = cursor /\ stopFailed' = stopFailed /\ file.state \notin {"none", "stopped"}
    BY DEF Status, Locking, Put, PlaneGoto, Over
  <1>2. ~stopFailed[c]
    BY <1>0, <1>f
  <1>3. /\ "looking" \in PlanePlaces /\ "looking" \notin LaunchingPlaces
        /\ "looking" \in ActingPlaces
    BY DEF PlanePlaces, LaunchingPlaces, ActingPlaces
  <1>4. Enters(c, "looking", file)
    BY <1>0, <1>1, <1>3, <1>f, SMTT(30) DEF Enters
  <1>5. SoundRecord(file, proc') /\ SoundRecord(file', proc')
    BY <1>1, <1>f
  <1>6. /\ file' \in PlaneRecord /\ DOMAIN proc' = Instances
        /\ \A i \in Instances : DOMAIN proc'[i] = Keys
        /\ \A i \in Instances, j \in Keys : proc'[i][j] = "up" => proc[i][j] = "up"
        /\ file'.state \notin {"none", "stopped"}
        /\ file.inst = file'.inst /\ \A k \in Keys : file.comps[k].pid = file'.comps[k].pid
    BY <1>1, <1>f
  <1>7. /\ stopFailed' = [stopFailed EXCEPT ![c] = stopFailed[c]]
        /\ cursor' = [cursor EXCEPT ![c] = cursor[c]]
    BY <1>1, <1>s
  <1> QED
    BY <1>1, <1>2, <1>3, <1>4, <1>5, <1>6, <1>7, <1>f, <1>s, PlaneKeeps

\* What status makes of a record says no more of the processes than the
\* record.
LEMMA ObservedSound ==
    ASSUME NEW s \in PlaneRecord, SoundRecord(s, proc)
    PROVE  SoundRecord(Observed(s), proc)
  <1>1. /\ Observed(s).inst = s.inst
        /\ \A k \in Keys :
              /\ Observed(s).comps[k].pid = s.comps[k].pid
              /\ Observed(s).comps[k].st # "stopped"
              /\ Observed(s).comps[k].st = "none" <=> s.comps[k].st = "none"
    BY ObservedUpdate
  <1> QED
    BY <1>1 DEF SoundRecord

\* The end of a status call.
LEMMA EndStatusKeeps ==
    ASSUME PlaneInv, NEW c \in Callers, EndStatus(c)
    PROVE  PlaneInv'
  <1>c. c \in Invocations /\ c # Manager
    BY PlaneAssumption DEF Invocations
  <1>f. /\ PlaneTypes
        /\ Acting(c) => SoundRecord(mem[c], proc)
        /\ DOMAIN proc = Instances /\ \A i \in Instances : DOMAIN proc[i] = Keys
        /\ stopFailed[c] => ppc[c] = "stopping"
        /\ Acting(c) => lock = c \/ (c = Manager /\ ppc[c] \in {"degraded", "stopping"})
    BY <1>c, PlaneFacts
  <1>0. ppc[c] = "looking" /\ Acting(c)
    BY DEF EndStatus, Acting, ActingPlaces
  <1>s. /\ stopFailed = [stopFailed EXCEPT ![c] = stopFailed[c]]
        /\ cursor = [cursor EXCEPT ![c] = cursor[c]] /\ cursor[c] \in 0..Len(Components)
        /\ mem[c] \in PlaneRecord /\ stopFailed[c] \in BOOLEAN
    BY <1>c, <1>f, PlaneSame
  <1>1. PICK s : s = Observed(mem[c])
    OBVIOUS
  <1>2. /\ s \in PlaneRecord /\ s.inst = mem[c].inst /\ s.state \notin {"none", "stopped"}
        /\ SoundRecord(s, proc)
    BY <1>0, <1>1, <1>f, <1>s, ObservedUpdate, ObservedSound
  <1>3. /\ mem' = [mem EXCEPT ![c] = NoState] /\ ppc' = [ppc EXCEPT ![c] = "idle"]
        /\ file' = s /\ lock' = "none" /\ proc' = proc
        /\ cursor' = cursor /\ stopFailed' = stopFailed
    BY <1>1 DEF EndStatus, Put, PlaneGoto
  <1>4. lock = c /\ ~stopFailed[c]
    BY <1>0, <1>c, <1>f
  <1>5. "idle" \in PlanePlaces /\ "idle" \notin LaunchingPlaces /\ "idle" \notin ActingPlaces
    BY DEF PlanePlaces, LaunchingPlaces, ActingPlaces
  <1>6. Continues(c, "idle", NoState)
    BY <1>0, <1>2, <1>3, <1>4, <1>5 DEF Continues
  <1>7. /\ file' \in PlaneRecord /\ DOMAIN proc' = Instances
        /\ \A i \in Instances : DOMAIN proc'[i] = Keys
        /\ \A i \in Instances, j \in Keys : proc'[i][j] = "up" => proc[i][j] = "up"
        /\ file'.state \notin {"none", "stopped"} /\ SoundRecord(file', proc')
    BY <1>2, <1>3, <1>f
  <1>8. /\ stopFailed' = [stopFailed EXCEPT ![c] = stopFailed[c]]
        /\ cursor' = [cursor EXCEPT ![c] = cursor[c]]
    BY <1>3, <1>s
  <1>9. NoState \in PlaneRecord
    BY NoStateRecord
  <1>10. mem' = [mem EXCEPT ![c] = NoState] /\ ppc' = [ppc EXCEPT ![c] = "idle"]
    BY <1>3
  <1> QED
    BY <1>4, <1>5, <1>6, <1>7, <1>8, <1>9, <1>10, <1>c, <1>s, PlaneKeeps

\* The manager looks at the lock and finds it taken, or free.
LEMMA AttachKeeps ==
    ASSUME PlaneInv, NEW c \in Invocations, LockTaken(c) \/ AttachPlane(c)
    PROVE  PlaneInv'
  <1>f. /\ PlaneTypes /\ SoundRecord(file, proc) /\ file \in PlaneRecord
        /\ DOMAIN proc = Instances /\ \A i \in Instances : DOMAIN proc[i] = Keys
        /\ file.state \in {"none", "stopped"} => AllStopped(file)
        /\ stopFailed[c] => ppc[c] = "stopping"
    BY PlaneFacts
  <1>0. ppc[c] \in {"started", "polling"} /\ ~Acting(c)
    BY DEF LockTaken, AttachPlane, Acting, ActingPlaces, LaunchingPlaces
  <1>s. /\ stopFailed = [stopFailed EXCEPT ![c] = stopFailed[c]]
        /\ cursor = [cursor EXCEPT ![c] = cursor[c]] /\ cursor[c] \in 0..Len(Components)
        /\ mem = [mem EXCEPT ![c] = mem[c]]
        /\ mem[c] \in PlaneRecord /\ stopFailed[c] \in BOOLEAN
    BY <1>f, PlaneSame
  <1>1. PICK l \in {"exited", "polling"} : ppc' = [ppc EXCEPT ![c] = l]
    BY DEF LockTaken, AttachPlane, PlaneGoto
  <1>2. /\ file' = file /\ lock' = lock /\ proc' = proc /\ mem' = mem
        /\ cursor' = cursor /\ stopFailed' = stopFailed
    BY DEF LockTaken, AttachPlane
  <1>3. ~stopFailed[c]
    BY <1>0, <1>f
  <1>4. /\ l \in PlanePlaces /\ l \notin LaunchingPlaces /\ l \notin ActingPlaces
        /\ l # "idle" /\ l # "stopping"
    BY DEF PlanePlaces, LaunchingPlaces, ActingPlaces
  <1>5. LooksOn(c, l)
    BY <1>0, <1>2, <1>4 DEF LooksOn
  <1>6. /\ file' \in PlaneRecord /\ DOMAIN proc' = Instances
        /\ \A i \in Instances : DOMAIN proc'[i] = Keys
        /\ \A i \in Instances, j \in Keys : proc'[i][j] = "up" => proc[i][j] = "up"
        /\ file'.state \in {"none", "stopped"} => AllStopped(file')
        /\ SoundRecord(file', proc')
    BY <1>2, <1>f
  <1>7. /\ stopFailed' = [stopFailed EXCEPT ![c] = stopFailed[c]]
        /\ cursor' = [cursor EXCEPT ![c] = cursor[c]] /\ mem' = [mem EXCEPT ![c] = mem[c]]
    BY <1>2, <1>s
  <1> QED
    BY <1>1, <1>3, <1>4, <1>5, <1>6, <1>7, <1>s, PlaneKeeps

\* A poll of the foreground manager.
LEMMA PollKeeps ==
    ASSUME PlaneInv, NEW c \in Invocations, c = Manager, PollPlane(c)
    PROVE  PlaneInv'
  <1>f. /\ PlaneTypes /\ SoundRecord(file, proc) /\ file \in PlaneRecord
        /\ DOMAIN proc = Instances /\ \A i \in Instances : DOMAIN proc[i] = Keys
        /\ file.state \in {"none", "stopped"} => AllStopped(file)
        /\ file.inst \in Nat
        /\ stopFailed[c] => ppc[c] = "stopping"
    BY PlaneFacts
  <1>0. ppc[c] = "polling" /\ ~Acting(c) /\ lock = "none"
    BY DEF PollPlane, Acting, ActingPlaces, LaunchingPlaces
  <1>s. /\ stopFailed = [stopFailed EXCEPT ![c] = stopFailed[c]]
        /\ cursor = [cursor EXCEPT ![c] = cursor[c]] /\ cursor[c] \in 0..Len(Components)
        /\ mem = [mem EXCEPT ![c] = mem[c]] /\ ppc = [ppc EXCEPT ![c] = ppc[c]]
        /\ mem[c] \in PlaneRecord /\ stopFailed[c] \in BOOLEAN
    BY <1>f, PlaneSame
  <1>1. PICK s : s = IF Over(file) THEN file ELSE Observed(file)
    OBVIOUS
  <1>2. /\ s \in PlaneRecord /\ s.inst = file.inst /\ SoundRecord(s, proc)
        /\ s.state \in {"none", "stopped"} => AllStopped(s)
    BY <1>1, <1>f, ObservedUpdate, ObservedSound
  <1>3. PICK m : m = [s EXCEPT !.state = "error"]
    OBVIOUS
  <1>4. m \in PlaneRecord /\ m.inst = file.inst /\ m.state = "error" /\ m.comps = s.comps
    <2>1. "error" \in StateWords
      BY DEF StateWords
    <2> QED
      BY <1>2, <1>3, <2>1, StateUpdate
  <1>5. /\ file' = s /\ lock' = lock /\ proc' = proc
        /\ cursor' = cursor /\ stopFailed' = stopFailed
        /\ \/ ppc' = ppc /\ mem' = mem
           \/ ppc' = [ppc EXCEPT ![c] = "degraded"] /\ mem' = [mem EXCEPT ![c] = m]
    BY <1>1, <1>3 DEF PollPlane, Put, PlaneGoto
  <1>6. ~stopFailed[c]
    BY <1>0, <1>f
  <1>7. /\ "degraded" \in PlanePlaces /\ "degraded" \notin LaunchingPlaces
        /\ "degraded" \in ActingPlaces
        /\ "polling" \in PlanePlaces /\ "polling" \notin LaunchingPlaces
        /\ "polling" \notin ActingPlaces
    BY DEF PlanePlaces, LaunchingPlaces, ActingPlaces
  <1>8. /\ file' \in PlaneRecord /\ DOMAIN proc' = Instances
        /\ \A i \in Instances : DOMAIN proc'[i] = Keys
        /\ \A i \in Instances, j \in Keys : proc'[i][j] = "up" => proc[i][j] = "up"
        /\ file'.state \in {"none", "stopped"} => AllStopped(file')
        /\ SoundRecord(file', proc')
    BY <1>2, <1>5, <1>f
  <1>9. /\ stopFailed' = [stopFailed EXCEPT ![c] = stopFailed[c]]
        /\ cursor' = [cursor EXCEPT ![c] = cursor[c]]
    BY <1>5, <1>s
  <1>10. ppc[Manager] # "idle"
    BY <1>0
  <1>11. CASE ppc' = ppc /\ mem' = mem
    <2>1. ppc' = [ppc EXCEPT ![c] = "polling"] /\ mem' = [mem EXCEPT ![c] = mem[c]]
      BY <1>0, <1>11, <1>s
    <2>2. Enters(c, "polling", mem[c])
      BY <1>0, <1>2, <1>5, <1>7, <1>f, SMTT(30) DEF Enters
    <2> QED
      BY <1>6, <1>7, <1>8, <1>9, <1>10, <1>s, <2>1, <2>2, PlaneKeeps
  <1>12. CASE ppc' = [ppc EXCEPT ![c] = "degraded"] /\ mem' = [mem EXCEPT ![c] = m]
    <2>1. Enters(c, "degraded", m)
      BY <1>0, <1>2, <1>4, <1>5, <1>7, <1>f, SMTT(30) DEF Enters
    <2>2. SoundRecord(m, proc')
      <3>1. SoundRecord(m, proc)
        BY <1>2, <1>4 DEF SoundRecord
      <3> QED
        BY <1>5, <3>1
    <2> QED
      BY <1>4, <1>6, <1>7, <1>8, <1>9, <1>10, <1>12, <1>s, <2>1, <2>2, PlaneKeeps
  <1> QED
    BY <1>5, <1>11, <1>12

\* The foreground manager writes down that its plane is degraded.
LEMMA WriteDegradedKeeps ==
    ASSUME PlaneInv, NEW c \in Invocations, c = Manager, WriteDegraded(c)
    PROVE  PlaneInv'
  <1>f. /\ PlaneTypes
        /\ Acting(c) => SoundRecord(mem[c], proc)
        /\ DOMAIN proc = Instances /\ \A i \in Instances : DOMAIN proc[i] = Keys
        /\ stopFailed[c] => ppc[c] = "stopping"
        /\ Acting(c) /\ ppc[c] # "stopping" => mem[c].state \notin {"none", "stopped"}
    BY PlaneFacts
  <1>0. ppc[c] = "degraded" /\ Acting(c)
    BY DEF WriteDegraded, Acting, ActingPlaces
  <1>s. /\ stopFailed = [stopFailed EXCEPT ![c] = stopFailed[c]]
        /\ mem = [mem EXCEPT ![c] = mem[c]]
        /\ mem[c] \in PlaneRecord /\ stopFailed[c] \in BOOLEAN
    BY <1>f, PlaneSame
  <1>1. /\ file' = mem[c] /\ lock' = lock /\ proc' = proc /\ mem' = mem /\ stopFailed' = stopFailed
        /\ ppc' = [ppc EXCEPT ![c] = "stopping"]
        /\ cursor' = [cursor EXCEPT ![c] = Len(Components)]
    BY DEF WriteDegraded, PlaneGoto, AtComponent
  <1>2. ~stopFailed[c] /\ mem[c].state \notin {"none", "stopped"} /\ SoundRecord(mem[c], proc)
    BY <1>0, <1>f
  <1>3. /\ "stopping" \in PlanePlaces /\ "stopping" \notin LaunchingPlaces
        /\ "stopping" \in ActingPlaces /\ Len(Components) \in 0..Len(Components)
        /\ \A j \in Keys : ~(j > Len(Components))
    BY PlaneAssumption, SMTT(30) DEF PlanePlaces, LaunchingPlaces, ActingPlaces, Keys
  <1>4. Continues(c, "stopping", mem[c]) \/ ContinuesAlone(c, "stopping", mem[c])
    BY <1>0, <1>1, <1>3 DEF Continues, ContinuesAlone
  <1>5. /\ file' \in PlaneRecord /\ DOMAIN proc' = Instances
        /\ \A i \in Instances : DOMAIN proc'[i] = Keys
        /\ \A i \in Instances, j \in Keys : proc'[i][j] = "up" => proc[i][j] = "up"
        /\ file'.state \notin {"none", "stopped"}
        /\ SoundRecord(file', proc') /\ SoundRecord(mem[c], proc')
    BY <1>1, <1>2, <1>f, <1>s
  <1>6. /\ stopFailed' = [stopFailed EXCEPT ![c] = stopFailed[c]]
        /\ mem' = [mem EXCEPT ![c] = mem[c]]
    BY <1>1, <1>s
  <1>7. ppc[Manager] # "idle"
    BY <1>0
  <1>8. /\ ppc' = [ppc EXCEPT ![c] = "stopping"]
        /\ cursor' = [cursor EXCEPT ![c] = Len(Components)]
        /\ mem[c] \in PlaneRecord /\ stopFailed[c] \in BOOLEAN
        /\ mem[c].state # "none" /\ ~stopFailed[c]
    BY <1>1, <1>2, <1>s
  <1> QED
    BY <1>3, <1>4, <1>5, <1>6, <1>7, <1>8, PlaneKeeps

\* An invocation is killed, whatever it was doing.
LEMMA KillKeeps ==
    ASSUME PlaneInv, NEW c \in Invocations, Kill(c)
    PROVE  PlaneInv'
  <1>f. /\ PlaneTypes /\ SoundRecord(file, proc) /\ file \in PlaneRecord
        /\ DOMAIN proc = Instances /\ \A i \in Instances : DOMAIN proc[i] = Keys
        /\ file.state \in {"none", "stopped"} => AllStopped(file)
        /\ Acting(c) => lock = c \/ (c = Manager /\ ppc[c] \in {"degraded", "stopping"})
    BY PlaneFacts
  <1>1. /\ file' = file /\ proc' = proc /\ mem' = [mem EXCEPT ![c] = NoState]
        /\ lock' = IF lock = c THEN "none" ELSE lock
        /\ ppc' = [ppc EXCEPT ![c] = "killed"]
        /\ cursor' = [cursor EXCEPT ![c] = 0]
        /\ stopFailed' = [stopFailed EXCEPT ![c] = FALSE]
    BY DEF Kill, PlaneGoto, Put
  <1>2. /\ "killed" \in PlanePlaces /\ "killed" \notin LaunchingPlaces
        /\ "killed" \notin ActingPlaces /\ 0 \in 0..Len(Components) /\ NoState \in PlaneRecord
    BY NoStateRecord, PlaneAssumption, SMTT(30) DEF PlanePlaces, LaunchingPlaces, ActingPlaces
  <1>3. \/ Continues(c, "killed", NoState) \/ ContinuesAlone(c, "killed", NoState)
        \/ LooksOn(c, "killed")
    <2>1. CASE Acting(c) /\ lock = c
      BY <1>1, <1>2, <2>1 DEF Continues
    <2>2. CASE Acting(c) /\ lock # c
      BY <1>1, <1>2, <1>f, <2>2 DEF ContinuesAlone
    <2>3. CASE ~Acting(c)
      BY <1>1, <1>2, <2>3 DEF LooksOn
    <2> QED
      BY <2>1, <2>2, <2>3
  <1>4. /\ file' \in PlaneRecord /\ DOMAIN proc' = Instances
        /\ \A i \in Instances : DOMAIN proc'[i] = Keys
        /\ \A i \in Instances, j \in Keys : proc'[i][j] = "up" => proc[i][j] = "up"
        /\ file'.state \in {"none", "stopped"} => AllStopped(file')
        /\ SoundRecord(file', proc')
    BY <1>1, <1>f
  <1>5. PICK b \in BOOLEAN : b = FALSE
    BY Zenon
  <1>6. stopFailed' = [stopFailed EXCEPT ![c] = b] /\ ~b
    BY <1>1, <1>5, Zenon
  <1>7. /\ mem' = [mem EXCEPT ![c] = NoState] /\ ppc' = [ppc EXCEPT ![c] = "killed"]
        /\ cursor' = [cursor EXCEPT ![c] = 0]
    BY <1>1
  <1> QED
    BY <1>2, <1>3, <1>4, <1>5, <1>6, <1>7, PlaneKeeps

\* The end of a stop, failed or not.
LEMMA EndStopKeeps ==
    ASSUME PlaneInv, NEW c \in Invocations, EndStop(c)
    PROVE  PlaneInv'
  <1>f. /\ PlaneTypes
        /\ Acting(c) => SoundRecord(mem[c], proc)
        /\ DOMAIN proc = Instances /\ \A i \in Instances : DOMAIN proc[i] = Keys
        /\ Acting(c) => lock = c \/ (c = Manager /\ ppc[c] \in {"degraded", "stopping"})
    BY PlaneFacts
  <1>0. ppc[c] = "stopping" /\ Acting(c) /\ cursor[c] = 0
    BY DEF EndStop, Acting, ActingPlaces
  <1>s. /\ cursor = [cursor EXCEPT ![c] = cursor[c]] /\ cursor[c] \in 0..Len(Components)
        /\ mem[c] \in PlaneRecord
    BY <1>f, PlaneSame
  <1>w. ~stopFailed[c] => AllStopped(mem[c])
    <2>1. ~stopFailed[c] => \A k \in Keys : k > 0 => mem[c].comps[k].st \in {"none", "stopped"}
      BY <1>0, Zenon DEF PlaneInv, StopsAreWhole
    <2>2. \A k \in Keys : k > 0
      BY PlaneAssumption, SMTT(30) DEF Keys
    <2> QED
      BY <2>1, <2>2 DEF AllStopped
  <1>1. PICK s : s = IF mem[c].state = "error" THEN mem[c]
                     ELSE [mem[c] EXCEPT !.state = IF stopFailed[c] THEN "error" ELSE "stopped"]
    OBVIOUS
  <1>2. /\ s \in PlaneRecord /\ s.inst = mem[c].inst /\ s.comps = mem[c].comps
        /\ s.state \in {"none", "stopped"} => ~stopFailed[c]
    <2>1. "error" \in StateWords /\ "stopped" \in StateWords
      BY DEF StateWords
    <2>2. PICK v \in {"error", "stopped"} : /\ v = IF stopFailed[c] THEN "error" ELSE "stopped"
                                            /\ stopFailed[c] => v = "error"
      OBVIOUS
    <2>3. /\ [mem[c] EXCEPT !.state = v] \in PlaneRecord
          /\ [mem[c] EXCEPT !.state = v].inst = mem[c].inst
          /\ [mem[c] EXCEPT !.state = v].state = v
          /\ [mem[c] EXCEPT !.state = v].comps = mem[c].comps
      BY <1>s, <2>1, StateUpdate, ZenonT(60)
    <2>4. CASE mem[c].state = "error"
      BY <1>1, <1>s, <2>4
    <2>5. CASE mem[c].state # "error"
      <3>1. s = [mem[c] EXCEPT !.state = v]
        BY <1>1, <2>2, <2>5
      <3> QED
        BY <2>2, <2>3, <3>1
    <2> QED
      BY <2>4, <2>5
  <1>3. PICK m : m = IF c = Manager THEN mem[c] ELSE NoState
    OBVIOUS
  <1>4. PICK l : l = IF c = Manager THEN "exited" ELSE "idle"
    OBVIOUS
  <1>5. /\ file' = s /\ proc' = proc /\ mem' = [mem EXCEPT ![c] = m]
        /\ lock' = IF lock = c THEN "none" ELSE lock
        /\ ppc' = [ppc EXCEPT ![c] = l] /\ cursor' = cursor
        /\ stopFailed' = [stopFailed EXCEPT ![c] = FALSE]
    BY <1>1, <1>3, <1>4 DEF EndStop, PlaneGoto, Put
  <1>6. /\ l \in PlanePlaces /\ l \notin LaunchingPlaces /\ l \notin ActingPlaces
        /\ m \in PlaneRecord /\ (c = Manager => l # "idle") /\ l # "stopping"
    BY <1>3, <1>4, <1>s, NoStateRecord DEF PlanePlaces, LaunchingPlaces, ActingPlaces
  <1>7. Continues(c, l, m) \/ ContinuesAlone(c, l, m)
    <2>1. CASE lock = c
      BY <1>0, <1>2, <1>5, <1>6, <2>1 DEF Continues
    <2>2. CASE lock # c
      BY <1>0, <1>2, <1>5, <1>6, <1>f, <2>2 DEF ContinuesAlone
    <2> QED
      BY <2>1, <2>2
  <1>8. SoundRecord(s, proc)
    BY <1>0, <1>2, <1>f DEF SoundRecord
  <1>9. s.state \in {"none", "stopped"} => AllStopped(s)
    BY <1>2, <1>w DEF AllStopped
  <1>10. /\ file' \in PlaneRecord /\ DOMAIN proc' = Instances
         /\ \A i \in Instances : DOMAIN proc'[i] = Keys
         /\ \A i \in Instances, j \in Keys : proc'[i][j] = "up" => proc[i][j] = "up"
         /\ file'.state \in {"none", "stopped"} => AllStopped(file')
         /\ SoundRecord(file', proc')
    BY <1>2, <1>5, <1>8, <1>9, <1>f
  <1>11. /\ cursor' = [cursor EXCEPT ![c] = cursor[c]] /\ mem' = [mem EXCEPT ![c] = m]
         /\ ppc' = [ppc EXCEPT ![c] = l]
    BY <1>5, <1>s
  <1>12. PICK b \in BOOLEAN : b = FALSE
    BY Zenon
  <1>13. stopFailed' = [stopFailed EXCEPT ![c] = b] /\ ~b
    BY <1>5, <1>12, Zenon
  <1>14. cursor[c] \in 0..Len(Components) /\ b \in BOOLEAN
    BY <1>12, <1>s
  <1> QED
    BY <1>6, <1>7, <1>10, <1>11, <1>13, <1>14, PlaneKeeps

\* What the probe of a component with a pid says of its process.
LEMMA ProbeTells ==
    ASSUME NEW s, NEW k \in Keys, s.comps[k].pid
    PROVE  proc[s.inst][k] = "up" => Probe(s, k) \in {"alive", "unknown"}
  <1>1. Probe(s, k) = IF ~reach THEN "unknown"
                      ELSE CASE proc[s.inst][k] = "up" -> "alive"
                             [] proc[s.inst][k] = "gone" -> "dead"
                             [] proc[s.inst][k] = "reused" -> "identity-mismatch"
    BY Zenon DEF Probe
  <1> QED
    BY <1>1

\* Only a recorded process can be found alive.
LEMMA AliveHasPid ==
    ASSUME NEW s, NEW k \in Keys, Probe(s, k) \in {"alive", "unknown"}
    PROVE  s.comps[k].pid
  BY DEF Probe

\* A component is asked to stop, and may refuse or not answer.
LEMMA StopComponentKeeps ==
    ASSUME PlaneInv, NEW c \in Invocations, StopComponent(c)
    PROVE  PlaneInv'
  <1>f. /\ PlaneTypes /\ SoundRecord(file, proc) /\ file \in PlaneRecord
        /\ Acting(c) => SoundRecord(mem[c], proc)
        /\ DOMAIN proc = Instances /\ \A i \in Instances : DOMAIN proc[i] = Keys
        /\ file.state \in {"none", "stopped"} => AllStopped(file)
        /\ Acting(c) => lock = c \/ (c = Manager /\ ppc[c] \in {"degraded", "stopping"})
        /\ ppc[Manager] = "idle" /\ Acting(c) =>
              mem[c].inst = file.inst /\ \A k \in Keys : mem[c].comps[k].pid = file.comps[k].pid
    BY PlaneFacts
  <1>0. ppc[c] = "stopping" /\ Acting(c) /\ cursor[c] > 0
    BY DEF StopComponent, Acting, ActingPlaces
  <1>s. /\ stopFailed = [stopFailed EXCEPT ![c] = stopFailed[c]]
        /\ ppc = [ppc EXCEPT ![c] = ppc[c]] /\ mem = [mem EXCEPT ![c] = mem[c]]
        /\ cursor[c] \in 0..Len(Components) /\ mem[c] \in PlaneRecord /\ stopFailed[c] \in BOOLEAN
    BY <1>f, PlaneSame
  <1>k. /\ cursor[c] \in Keys /\ cursor[c] - 1 \in 0..Len(Components)
        /\ \A j \in Keys : j > cursor[c] - 1 => j = cursor[c] \/ j > cursor[c]
    BY <1>0, <1>s, PlaneAssumption, SMTT(30) DEF Keys
  <1>w. /\ ~stopFailed[c] => \A j \in Keys : j > cursor[c] => mem[c].comps[j].st \in {"none", "stopped"}
        /\ mem[c].state # "none"
    BY <1>0, Zenon DEF PlaneInv, StopsAreWhole
  <1>1. /\ file' = file /\ lock' = lock /\ ppc' = ppc
        /\ cursor' = [cursor EXCEPT ![c] = cursor[c] - 1]
    BY DEF StopComponent, AtComponent
  <1>2. /\ "stopped" \in ComponentWords /\ "error" \in ComponentWords
        /\ mem[c] \in PlaneRecord /\ cursor[c] \in Keys
    BY <1>k, <1>s DEF ComponentWords
  <1>2e. \E m \in PlaneRecord :
              /\ m = [mem[c] EXCEPT !.comps[cursor[c]].st = "error"]
              /\ m.inst = mem[c].inst /\ m.state = mem[c].state
              /\ m.comps[cursor[c]].st = "error"
              /\ m.comps[cursor[c]].pid = mem[c].comps[cursor[c]].pid
              /\ \A l \in Keys \ {cursor[c]} : m.comps[l] = mem[c].comps[l]
    <2>1. PICK s, k : s = mem[c] /\ k = cursor[c]
      OBVIOUS
    <2>2. s \in PlaneRecord /\ k \in Keys /\ "error" \in ComponentWords
      BY <1>2, <2>1
    <2>3. \E m \in PlaneRecord :
              /\ m = [s EXCEPT !.comps[k].st = "error"]
              /\ m.inst = s.inst /\ m.state = s.state
              /\ m.comps[k].st = "error" /\ m.comps[k].pid = s.comps[k].pid
              /\ \A l \in Keys \ {k} : m.comps[l] = s.comps[l]
      BY <2>2, ComponentUpdate, SMTT(30)
    <2> QED
      BY <2>1, <2>3, Zenon
  <1>2s. \E m \in PlaneRecord :
              /\ m = [mem[c] EXCEPT !.comps[cursor[c]].st = "stopped"]
              /\ m.inst = mem[c].inst /\ m.state = mem[c].state
              /\ m.comps[cursor[c]].st = "stopped"
              /\ m.comps[cursor[c]].pid = mem[c].comps[cursor[c]].pid
              /\ \A l \in Keys \ {cursor[c]} : m.comps[l] = mem[c].comps[l]
    <2>1. PICK s, k : s = mem[c] /\ k = cursor[c]
      OBVIOUS
    <2>2. s \in PlaneRecord /\ k \in Keys /\ "stopped" \in ComponentWords
      BY <1>2, <2>1
    <2>3. \E m \in PlaneRecord :
              /\ m = [s EXCEPT !.comps[k].st = "stopped"]
              /\ m.inst = s.inst /\ m.state = s.state
              /\ m.comps[k].st = "stopped" /\ m.comps[k].pid = s.comps[k].pid
              /\ \A l \in Keys \ {k} : m.comps[l] = s.comps[l]
      BY <2>2, ComponentUpdate, SMTT(30)
    <2> QED
      BY <2>1, <2>3, Zenon
  <1>p. SoundRecord(mem[c], proc)
    BY <1>0, <1>f
  \* What the five cases have in common.
  <1>3. ASSUME NEW m \in PlaneRecord, NEW b \in BOOLEAN,
               mem' = [mem EXCEPT ![c] = m], stopFailed' = [stopFailed EXCEPT ![c] = b],
               m.inst = mem[c].inst, m.state = mem[c].state,
               m.comps[cursor[c]].pid = mem[c].comps[cursor[c]].pid,
               \A l \in Keys \ {cursor[c]} : m.comps[l] = mem[c].comps[l],
               m.comps[cursor[c]].st = "none" => mem[c].comps[cursor[c]].st = "none",
               b \/ (~stopFailed[c] /\ m.comps[cursor[c]].st \in {"none", "stopped"}),
               m.comps[cursor[c]].st = "stopped" /\ m.comps[cursor[c]].pid =>
                  proc'[m.inst][cursor[c]] # "up",
               DOMAIN proc' = Instances, \A i \in Instances : DOMAIN proc'[i] = Keys,
               \A i \in Instances, j \in Keys : proc'[i][j] = "up" => proc[i][j] = "up"
        PROVE  PlaneInv'
    <2>1. ppc' = [ppc EXCEPT ![c] = "stopping"]
      BY <1>0, <1>1, <1>s
    <2>2. "stopping" \in PlanePlaces /\ "stopping" \in ActingPlaces /\ "stopping" \notin LaunchingPlaces
      BY DEF PlanePlaces, ActingPlaces, LaunchingPlaces
    <2>3. Continues(c, "stopping", m) \/ ContinuesAlone(c, "stopping", m)
      <3>1. CASE lock = c
        BY <1>0, <1>1, <1>3, <2>2, <3>1 DEF Continues
      <3>2. CASE lock # c
        BY <1>0, <1>1, <1>3, <1>f, <2>2, <3>2 DEF ContinuesAlone
      <3> QED
        BY <3>1, <3>2
    <2>4. SoundRecord(file, proc') /\ SoundRecord(mem[c], proc')
      BY <1>3, <1>f, <1>p, SoundStays, SMTT(30)
    <2>5. SoundRecord(m, proc')
      BY <1>3, <2>4, SMTT(30) DEF SoundRecord
    <2>6. SoundRecord(file', proc') /\ file' \in PlaneRecord
          /\ (file'.state \in {"none", "stopped"} => AllStopped(file'))
      BY <1>1, <1>f, <2>4
    <2>7. ~b => \A j \in Keys : j > cursor[c] - 1 => m.comps[j].st \in {"none", "stopped"}
      <3>1. ASSUME ~b, NEW j \in Keys, j > cursor[c] - 1
            PROVE  m.comps[j].st \in {"none", "stopped"}
        <4>1. CASE j = cursor[c]
          BY <1>3, <3>1, <4>1
        <4>2. CASE j > cursor[c]
          <5>1. mem[c].comps[j].st \in {"none", "stopped"}
            BY <1>3, <1>w, <3>1, <4>2, ZenonT(60)
          <5>2. j # cursor[c]
            BY <1>k, <4>2, PlaneAssumption, SMTT(30) DEF Keys
          <5> QED
            BY <1>3, <5>1, <5>2
        <4> QED
          BY <1>k, <3>1, <4>1, <4>2
      <3> QED
        BY <3>1
    <2>8. ppc[Manager] = "idle" =>
             m.inst = file'.inst /\ \A j \in Keys : m.comps[j].pid = file'.comps[j].pid
      <3>1. \A j \in Keys : m.comps[j].pid = mem[c].comps[j].pid
        BY <1>3
      <3> QED
        BY <1>0, <1>1, <1>3, <1>f, <3>1, ZenonT(60)
    <2>9. m.state # "none" /\ cursor[c] - 1 \in 0..Len(Components)
          /\ cursor' = [cursor EXCEPT ![c] = cursor[c] - 1]
      BY <1>1, <1>3, <1>k, <1>w
    <2> QED
      BY <1>3, <2>1, <2>2, <2>3, <2>5, <2>6, <2>7, <2>8, <2>9, PlaneKeeps, ZenonT(60)
  <1>4. CASE /\ cursor[c] \notin Present(mem[c])
             /\ UNCHANGED <<mem, proc, stopFailed>>
    <2>1. mem[c].comps[cursor[c]].st = "none"
      BY <1>4, <1>k DEF Present
    <2>2. mem' = [mem EXCEPT ![c] = mem[c]] /\ stopFailed' = [stopFailed EXCEPT ![c] = stopFailed[c]]
      BY <1>4, <1>s
    <2>3. /\ DOMAIN proc' = Instances /\ \A i \in Instances : DOMAIN proc'[i] = Keys
          /\ \A i \in Instances, j \in Keys : proc'[i][j] = "up" => proc[i][j] = "up"
      BY <1>4, <1>f
    <2>4. stopFailed[c] \/ (~stopFailed[c] /\ mem[c].comps[cursor[c]].st \in {"none", "stopped"})
      BY <2>1
    <2>5. ~(mem[c].comps[cursor[c]].st = "stopped")
      BY <2>1
    <2> QED
      BY <1>3, <1>s, <2>2, <2>3, <2>4, <2>5
  <1>5. CASE /\ mem' = [mem EXCEPT ![c] = [mem[c] EXCEPT !.comps[cursor[c]].st = "error"]]
             /\ stopFailed' = [stopFailed EXCEPT ![c] = TRUE] /\ proc' = proc
    <2>1. PICK m \in PlaneRecord :
              /\ m = [mem[c] EXCEPT !.comps[cursor[c]].st = "error"]
              /\ m.inst = mem[c].inst /\ m.state = mem[c].state
              /\ m.comps[cursor[c]].st = "error"
              /\ m.comps[cursor[c]].pid = mem[c].comps[cursor[c]].pid
              /\ \A l \in Keys \ {cursor[c]} : m.comps[l] = mem[c].comps[l]
      BY <1>2e
    <2>2. PICK b \in BOOLEAN : b = TRUE
      BY Zenon
    <2>3. stopFailed' = [stopFailed EXCEPT ![c] = b] /\ b
      BY <1>5, <2>2, Zenon
    <2>4. mem' = [mem EXCEPT ![c] = m]
      BY <1>5, <2>1
    <2>5. /\ DOMAIN proc' = Instances /\ \A i \in Instances : DOMAIN proc'[i] = Keys
          /\ \A i \in Instances, j \in Keys : proc'[i][j] = "up" => proc[i][j] = "up"
      BY <1>5, <1>f
    <2> QED
      BY <1>3, <2>1, <2>2, <2>3, <2>4, <2>5
  <1>6. CASE /\ mem' = [mem EXCEPT ![c] = [mem[c] EXCEPT !.comps[cursor[c]].st = "stopped"]]
             /\ stopFailed' = stopFailed
             /\ \/ /\ proc' = proc
                   /\ Probe(mem[c], cursor[c]) \in {"missing", "dead", "identity-mismatch"}
                \/ /\ proc' = [proc EXCEPT ![mem[c].inst][cursor[c]] = "gone"]
                   /\ Probe(mem[c], cursor[c]) = "alive"
    <2>1. PICK m \in PlaneRecord :
              /\ m = [mem[c] EXCEPT !.comps[cursor[c]].st = "stopped"]
              /\ m.inst = mem[c].inst /\ m.state = mem[c].state
              /\ m.comps[cursor[c]].st = "stopped"
              /\ m.comps[cursor[c]].pid = mem[c].comps[cursor[c]].pid
              /\ \A l \in Keys \ {cursor[c]} : m.comps[l] = mem[c].comps[l]
      BY <1>2s
    <2>2. stopFailed' = [stopFailed EXCEPT ![c] = stopFailed[c]]
      BY <1>6, <1>s
    <2>3. mem' = [mem EXCEPT ![c] = m]
      BY <1>6, <2>1
    <2>4. /\ DOMAIN proc' = Instances /\ \A i \in Instances : DOMAIN proc'[i] = Keys
          /\ \A i \in Instances, j \in Keys : proc'[i][j] = "up" => proc[i][j] = "up"
          /\ m.comps[cursor[c]].pid => proc'[m.inst][cursor[c]] # "up"
      <3>1. CASE /\ proc' = proc
                 /\ Probe(mem[c], cursor[c]) \in {"missing", "dead", "identity-mismatch"}
        <4>1. mem[c].comps[cursor[c]].pid => proc[mem[c].inst][cursor[c]] # "up"
          BY <1>k, <3>1, ProbeTells
        <4> QED
          BY <1>f, <2>1, <3>1, <4>1
      <3>2. CASE /\ proc' = [proc EXCEPT ![mem[c].inst][cursor[c]] = "gone"]
                 /\ Probe(mem[c], cursor[c]) = "alive"
        <4>1. mem[c].comps[cursor[c]].pid
          BY <1>k, <3>2, AliveHasPid
        <4>2. mem[c].inst \in Instances
          BY <1>k, <1>p, <4>1 DEF SoundRecord
        <4>3. PICK row : row = [proc[mem[c].inst] EXCEPT ![cursor[c]] = "gone"]
          OBVIOUS
        <4>4. /\ DOMAIN row = Keys /\ row[cursor[c]] = "gone"
              /\ \A j \in Keys \ {cursor[c]} : row[j] = proc[mem[c].inst][j]
          BY <1>f, <1>k, <4>2, <4>3
        <4>5. proc' = [proc EXCEPT ![mem[c].inst] = row]
          BY <3>2, <4>3
        <4>6. /\ DOMAIN proc' = Instances /\ proc'[mem[c].inst] = row
              /\ \A i \in Instances \ {mem[c].inst} : proc'[i] = proc[i]
          BY <1>f, <4>2, <4>5
        <4>7. \A i \in Instances : DOMAIN proc'[i] = Keys
          BY <1>f, <4>4, <4>6
        <4>8. \A i \in Instances, j \in Keys : proc'[i][j] = "up" => proc[i][j] = "up"
          BY <4>4, <4>6, ZenonT(60)
        <4>9. proc'[m.inst][cursor[c]] # "up"
          BY <2>1, <4>4, <4>6
        <4> QED
          BY <4>6, <4>7, <4>8, <4>9, ZenonT(60)
      <3> QED
        BY <1>6, <3>1, <3>2
    <2>5. stopFailed[c] \/ (~stopFailed[c] /\ m.comps[cursor[c]].st \in {"none", "stopped"})
      BY <2>1
    <2> QED
      BY <1>3, <1>s, <2>1, <2>2, <2>3, <2>4, <2>5
  <1>7. \/ /\ cursor[c] \notin Present(mem[c])
           /\ UNCHANGED <<mem, proc, stopFailed>>
        \/ /\ mem' = [mem EXCEPT ![c] = [mem[c] EXCEPT !.comps[cursor[c]].st = "error"]]
           /\ stopFailed' = [stopFailed EXCEPT ![c] = TRUE] /\ proc' = proc
        \/ /\ mem' = [mem EXCEPT ![c] = [mem[c] EXCEPT !.comps[cursor[c]].st = "stopped"]]
           /\ stopFailed' = stopFailed
           /\ \/ /\ proc' = proc
                 /\ Probe(mem[c], cursor[c]) \in {"missing", "dead", "identity-mismatch"}
              \/ /\ proc' = [proc EXCEPT ![mem[c].inst][cursor[c]] = "gone"]
                 /\ Probe(mem[c], cursor[c]) = "alive"
    BY DEF StopComponent, Put
  <1> QED
    BY <1>4, <1>5, <1>6, <1>7

\* Processes end, nodes come and go.
LEMMA SurroundingsKeep ==
    ASSUME PlaneInv, ProcessEnds \/ NodeChanges \/ UNCHANGED pvars
    PROVE  PlaneInv'
  <1>i. /\ PlaneTypes /\ RecordsSound /\ LaunchIsNew /\ LockedOrDegraded
        /\ StopsAreWhole /\ CopiesAgree
    BY DEF PlaneInv
  <1>1. /\ file' = file /\ lock' = lock /\ ppc' = ppc /\ mem' = mem /\ cursor' = cursor
        /\ stopFailed' = stopFailed
    BY DEF ProcessEnds, NodeChanges, pvars
  <1>2. /\ DOMAIN proc' = Instances /\ \A i \in Instances : DOMAIN proc'[i] = Keys
        /\ \A i \in Instances, k \in Keys : proc'[i][k] = "up" => proc[i][k] = "up"
    <2>0. DOMAIN proc = Instances /\ \A i \in Instances : DOMAIN proc[i] = Keys
      BY <1>i DEF PlaneTypes
    <2>1. CASE proc' = proc
      BY <2>0, <2>1
    <2>2. ASSUME NEW i \in Instances, NEW k \in Keys, NEW v \in {"gone", "reused"},
                 proc' = [proc EXCEPT ![i][k] = v]
          PROVE  <1>2!1
      <3>1. PICK row : row = [proc[i] EXCEPT ![k] = v]
        OBVIOUS
      <3>2. DOMAIN row = Keys /\ row[k] = v /\ \A j \in Keys \ {k} : row[j] = proc[i][j]
        BY <2>0, <3>1
      <3>3. proc' = [proc EXCEPT ![i] = row]
        BY <2>2, <3>1
      <3>4. /\ DOMAIN proc' = Instances /\ proc'[i] = row
            /\ \A h \in Instances \ {i} : proc'[h] = proc[h]
        BY <2>0, <3>3
      <3> QED
        BY <2>0, <3>2, <3>4
    <2>3. \/ proc' = proc
          \/ \E i \in Instances, k \in Keys, v \in {"gone", "reused"} : proc' = [proc EXCEPT ![i][k] = v]
      BY DEF ProcessEnds, NodeChanges, pvars
    <2> QED
      BY <2>1, <2>2, <2>3, SMTT(30)
  <1>3. \A d \in Invocations : (Acting(d)' <=> Acting(d)) /\ (Launching(d)' <=> Launching(d))
    BY <1>1 DEF Acting, Launching
  <1>4. PlaneTypes'
    BY <1>1, <1>2, <1>3, <1>i DEF PlaneTypes
  <1>5. RecordsSound'
    <2>1. SoundRecord(file, proc')
      BY <1>2, <1>i, SoundStays, SMTT(30) DEF RecordsSound
    <2>2. ASSUME NEW d \in Invocations, Acting(d)
          PROVE  SoundRecord(mem[d], proc')
      <3>1. SoundRecord(mem[d], proc)
        BY <1>i, <2>2 DEF RecordsSound
      <3> QED
        BY <1>2, <3>1, SoundStays, SMTT(30)
    <2> QED
      BY <1>1, <1>3, <2>1, <2>2 DEF RecordsSound
  <1>6. LaunchIsNew'
    BY <1>1, <1>3, <1>i DEF LaunchIsNew
  <1>7. LockedOrDegraded'
    BY <1>1, <1>3, <1>i DEF LockedOrDegraded, Invocations
  <1>8. StopsAreWhole'
    BY <1>1, <1>3, <1>i, Zenon DEF StopsAreWhole, AllStopped
  <1>9. CopiesAgree'
    BY <1>1, <1>3, <1>i DEF CopiesAgree, Invocations
  <1> QED
    BY <1>4, <1>5, <1>6, <1>7, <1>8, <1>9, ZenonT(60) DEF PlaneInv

\* Every step of every invocation keeps the invariant.
LEMMA PlaneStep ==
    PlaneInv /\ [PlaneNext]_pvars => PlaneInv'
  <1> SUFFICES ASSUME PlaneInv, [PlaneNext]_pvars
               PROVE  PlaneInv'
    OBVIOUS
  <1>m. Manager \in Invocations /\ Callers \subseteq Invocations
    BY DEF Invocations
  <1>1. ASSUME NEW c \in Callers, Stop(c) \/ Status(c) \/ EndStatus(c)
        PROVE  PlaneInv'
    BY <1>1, <1>m, StopFromKeeps, StatusKeeps, EndStatusKeeps DEF Stop
  <1>2. ASSUME NEW c \in Invocations, StartPlane(c) \/ StartSteps(c) \/ StopSteps(c) \/ Kill(c)
        PROVE  PlaneInv'
    BY <1>2, StartKeeps, AddKeeps, LaunchKeeps, RecordKeeps, FailingKeeps, StopComponentKeeps,
       EndStopKeeps, KillKeeps, ZenonT(60) DEF StartSteps, StopSteps
  <1>3. ASSUME ManagerSteps(Manager)
        PROVE  PlaneInv'
    BY <1>3, <1>m, AttachKeeps, PollKeeps, WriteDegradedKeeps, StopFromKeeps, ZenonT(60) DEF ManagerSteps, Signalled
  <1>4. ASSUME ProcessEnds \/ NodeChanges \/ UNCHANGED pvars
        PROVE  PlaneInv'
    BY <1>4, SurroundingsKeep
  <1> QED
    BY <1>1, <1>2, <1>3, <1>4 DEF PlaneNext

\* Before the first manager, what an invocation writes from its copy has the
\* pids of the file.
LEMMA WrittenBack ==
    ASSUME PlaneInv, NEW c \in Invocations, Acting(c), ppc[Manager] = "idle", NEW s,
           s.inst = mem[c].inst, \A k \in Keys : mem[c].comps[k].pid => s.comps[k].pid,
           NEW i, NEW k \in Keys, Recorded(i, k), file' = s
    PROVE  Recorded(i, k)'
  <1>1. mem[c].inst = file.inst /\ mem[c].comps[k].pid = file.comps[k].pid
    BY PlaneFacts
  <1> QED
    BY <1>1 DEF Recorded

\* start may replace a state only when nothing of it runs.
LEMMA ReplacedIsGone ==
    ASSUME PlaneInv, NEW c \in Invocations, StartPlane(c), NEW i, NEW k \in Keys, Recorded(i, k)
    PROVE  proc'[i][k] # "up"
  <1>1. /\ proc' = proc /\ file.inst = i /\ file.comps[k].pid
        /\ file.state \notin {"none", "stopped"} => ~Active(file)
    BY DEF StartPlane, Recorded
  <1>2. /\ SoundRecord(file, proc)
        /\ file.state \in {"none", "stopped"} => AllStopped(file)
    BY PlaneFacts
  <1>3. /\ file.comps[k].st # "none"
        /\ file.comps[k].st = "stopped" => proc[i][k] # "up"
    BY <1>1, <1>2 DEF SoundRecord
  <1>4. CASE file.state \in {"none", "stopped"}
    BY <1>1, <1>2, <1>3, <1>4 DEF AllStopped
  <1>5. CASE file.state \notin {"none", "stopped"}
    <2>1. file.comps[k].st = "stopped" \/ Probe(file, k) \notin {"alive", "unknown"}
      BY <1>1, <1>3, <1>5 DEF Active, Present
    <2>2. proc[i][k] = "up" => Probe(file, k) \in {"alive", "unknown"}
      BY <1>1, ProbeTells
    <2> QED
      BY <1>1, <1>3, <2>1, <2>2
  <1> QED
    BY <1>4, <1>5

\* The state file tells the truth of the processes: what start may replace
\* has nothing left alive, and every other writer keeps the pids.
LEMMA RecordIsKept ==
    ASSUME PlaneInv, [PlaneNext]_pvars, ppc[Manager] = "idle",
           NEW i \in Instances, NEW k \in Keys, Recorded(i, k), proc'[i][k] = "up"
    PROVE  Recorded(i, k)'
  <1>m. Manager \in Invocations /\ Callers \subseteq Invocations /\ Manager \notin Callers
    BY PlaneAssumption DEF Invocations
  <1>t. \A c \in Invocations : mem[c] \in PlaneRecord
    BY DEF PlaneInv, PlaneTypes
  <1>1. CASE file' = file
    BY <1>1 DEF Recorded
  <1>2. ASSUME NEW c \in Invocations, StartPlane(c)
        PROVE  FALSE
    BY <1>2, ReplacedIsGone
  <1>3. ASSUME NEW c \in Invocations, AddRecord(c)
        PROVE  Recorded(i, k)'
    <2>1. Acting(c) /\ Launching(c)
      BY <1>3 DEF AddRecord, Acting, ActingPlaces, Launching, LaunchingPlaces
    <2>2. mem[c] \in PlaneRecord /\ cursor[c] \in Keys
      BY <1>t, <2>1 DEF PlaneInv, PlaneTypes
    <2>0. PICK r, n : r = mem[c] /\ n = cursor[c]
      OBVIOUS
    <2>3. PICK s \in PlaneRecord :
             /\ s = [r EXCEPT !.comps[n].st = "starting"]
             /\ s.inst = r.inst /\ s.state = r.state
             /\ s.comps[n].st = "starting" /\ s.comps[n].pid = r.comps[n].pid
             /\ \A l \in Keys \ {n} : s.comps[l] = r.comps[l]
      <3>1. "starting" \in ComponentWords /\ r \in PlaneRecord /\ n \in Keys
        BY <2>0, <2>2 DEF ComponentWords
      <3> QED
        BY <3>1, ComponentUpdate, SMTT(30)
    <2>4. file' = s
      BY <1>3, <2>0, <2>3, Zenon DEF AddRecord
    <2>5. s.inst = mem[c].inst /\ \A l \in Keys : mem[c].comps[l].pid => s.comps[l].pid
      BY <2>0, <2>3, ZenonT(60)
    <2> QED
      BY <2>1, <2>4, <2>5, WrittenBack
  <1>4. ASSUME NEW c \in Invocations, RecordPid(c)
        PROVE  Recorded(i, k)'
    <2>1. Acting(c) /\ Launching(c)
      BY <1>4 DEF RecordPid, Acting, ActingPlaces, Launching, LaunchingPlaces
    <2>2. mem[c] \in PlaneRecord /\ cursor[c] \in Keys
      BY <1>t, <2>1 DEF PlaneInv, PlaneTypes
    <2>0. PICK r, n : r = mem[c] /\ n = cursor[c]
      OBVIOUS
    <2>3. PICK s \in PlaneRecord :
             /\ s = [r EXCEPT !.comps[n] = [st |-> "ready", pid |-> TRUE]]
             /\ s.inst = r.inst /\ s.state = r.state
             /\ s.comps[n].st = "ready" /\ s.comps[n].pid
             /\ \A l \in Keys \ {n} : s.comps[l] = r.comps[l]
      <3>1. r \in PlaneRecord /\ n \in Keys
        BY <2>0, <2>2
      <3> QED
        BY <3>1, ReadyUpdate
    <2>4. PICK t : t = [s EXCEPT !.state = "ready"]
      OBVIOUS
    <2>5. t.inst = s.inst /\ t.comps = s.comps
      <3>1. "ready" \in StateWords
        BY DEF StateWords
      <3> QED
        BY <2>3, <2>4, <3>1, StateUpdate
    <2>6. file' = file \/ file' = s \/ file' = t
      BY <1>4, <2>0, <2>3, <2>4 DEF RecordPid
    <2>7. s.inst = mem[c].inst /\ \A l \in Keys : mem[c].comps[l].pid => s.comps[l].pid
      BY <2>0, <2>3, SMTT(30)
    <2>8. t.inst = mem[c].inst /\ \A l \in Keys : mem[c].comps[l].pid => t.comps[l].pid
      BY <2>5, <2>7
    <2> QED
      BY <1>1, <2>1, <2>6, <2>7, <2>8, WrittenBack
  <1>5. ASSUME NEW c \in Invocations, EndStop(c)
        PROVE  Recorded(i, k)'
    <2>1. Acting(c)
      BY <1>5 DEF EndStop, Acting, ActingPlaces
    <2>2. PICK v \in {"error", "stopped"} : v = IF stopFailed[c] THEN "error" ELSE "stopped"
      OBVIOUS
    <2>3. PICK t : t = [mem[c] EXCEPT !.state = v]
      OBVIOUS
    <2>4. t.inst = mem[c].inst /\ t.comps = mem[c].comps
      <3>1. v \in StateWords
        BY DEF StateWords
      <3> QED
        BY <1>t, <2>3, <3>1, StateUpdate
    <2>5. file' = mem[c] \/ file' = t
      BY <1>5, <2>2, <2>3 DEF EndStop
    <2> QED
      BY <2>1, <2>4, <2>5, WrittenBack
  <1>6. ASSUME NEW c \in Callers, EndStatus(c)
        PROVE  Recorded(i, k)'
    <2>1. Acting(c)
      BY <1>6 DEF EndStatus, Acting, ActingPlaces
    <2>2. PICK t : t = Observed(mem[c])
      OBVIOUS
    <2>3. t.inst = mem[c].inst /\ \A l \in Keys : t.comps[l].pid = mem[c].comps[l].pid
      BY <1>m, <1>t, <2>2, ObservedUpdate
    <2>4. file' = t
      BY <1>6, <2>2 DEF EndStatus
    <2> QED
      BY <1>m, <2>1, <2>3, <2>4, WrittenBack
  <1>7. ~PollPlane(Manager) /\ ~WriteDegraded(Manager) /\ ~LockTaken(Manager)
        /\ ~AttachPlane(Manager) /\ ~Signalled(Manager)
    BY DEF PollPlane, WriteDegraded, LockTaken, AttachPlane, Signalled, StopFrom
  <1>8. ASSUME NEW c \in Invocations, LaunchComponent(c) \/ Failing(c) \/ StopComponent(c) \/ Kill(c)
        PROVE  file' = file
    BY <1>8 DEF LaunchComponent, Failing, StopComponent, Kill
  <1>9. ASSUME NEW c \in Callers, Stop(c) \/ Status(c)
        PROVE  file' = file
    BY <1>9 DEF Stop, StopFrom, Status
  <1>10. ProcessEnds \/ NodeChanges \/ UNCHANGED pvars => file' = file
    BY DEF ProcessEnds, NodeChanges, pvars
  <1>11. ASSUME NEW c \in Invocations, StartSteps(c) \/ StopSteps(c)
         PROVE  Recorded(i, k)'
    BY <1>1, <1>3, <1>4, <1>5, <1>8, <1>11 DEF StartSteps, StopSteps
  <1> QED
    BY <1>1, <1>2, <1>6, <1>7, <1>8, <1>9, <1>10, <1>11 DEF PlaneNext, ManagerSteps

\* ServicePlane: what the state file calls stopped does not run, and as long
\* as no foreground manager is involved no invocation takes away the record
\* of a process that runs, for any number of components, invocations and
\* instances (start, stop, status and _recorded_instance_active).
THEOREM StateFileTellsTheTruth == PlaneSpec => RecordsTrue
  <1>1. PlaneInv => StoppedIsGone
    BY DEF PlaneInv, RecordsSound, SoundRecord, StoppedIsGone
  <1>2. PlaneInv /\ [PlaneNext]_pvars =>
           [ppc[Manager] = "idle" =>
              \A i \in Instances, k \in Keys :
                 Recorded(i, k) /\ proc'[i][k] = "up" => Recorded(i, k)']_pvars
    BY RecordIsKept
  <1>3. PlaneInit => PlaneInv
    BY PlaneInitially
  <1> QED
    BY <1>1, <1>2, <1>3, PlaneStep, PTL DEF PlaneSpec, RecordsTrue, RecordKept
=============================================================================
