------------------------------ MODULE MCRuntime ------------------------------
(***************************************************************************)
(* What sets a run up and keeps it going, each part on its own: the scene  *)
(* says which one moves, the others stay in one of their initial states.   *)
(* The service plane has two scenes: the command line alone, on nodes that *)
(* come and go, and the foreground manager.                                *)
(***************************************************************************)
EXTENDS RuntimeSetup, ShimSessions, ServicePlane, DirectoryRegistration

VARIABLE scene

RoleSeq == <<"directory", "qpm">>
CompSeq == <<"prte-dvm", "qpm">>
ReservationOfOpener == [o1 |-> "r1", o2 |-> "r1", o3 |-> "r2"]
Keyed == {{"r1", "r2"}}

IdleSessions ==
    /\ via = "qdmi" /\ family = "iqm"
    /\ environ = [key |-> "operator", bill |-> "operator"]

MCInit ==
    /\ scene \in {"setup", "sessions", "cli", "manager", "registration"}
    /\ SetupInit /\ PlaneInit
    /\ \/ scene = "sessions" /\ SessionsInit
       \/ scene # "sessions" /\ IdleSessions /\ SessionsInit
    /\ \/ scene = "registration" /\ RegistrationInit
       \/ scene # "registration" /\ mode = "local" /\ RegistrationInit

\* The command line alone, or a manager on nodes that answer.
PlaneScene ==
    /\ PlaneNext
    /\ scene = "cli" => ppc'[Manager] = "idle"
    /\ scene = "manager" => reach' /\ \A c \in Callers : ppc'[c] # "killed"

MCNext ==
    /\ UNCHANGED scene
    /\ \/ /\ scene = "setup" /\ SetupNext
          /\ UNCHANGED <<svars, pvars, dvars>>
       \/ /\ scene = "sessions" /\ SessionsNext
          /\ UNCHANGED <<uvars, pvars, dvars>>
       \/ /\ scene \in {"cli", "manager"} /\ PlaneScene
          /\ UNCHANGED <<uvars, svars, dvars>>
       \/ /\ scene = "registration" /\ RegistrationNext
          /\ UNCHANGED <<uvars, svars, pvars>>

MCSpec == MCInit /\ [][MCNext]_<<scene, uvars, svars, pvars, dvars>>
=============================================================================
