----------------------------- MODULE MCProgress -----------------------------
(***************************************************************************)
(* Five components that owe progress, each on its own: the scene says      *)
(* which one moves, the others stay in their initial states, where nothing *)
(* they owe is enabled (a runner's first step is, so what the workers owe  *)
(* is asked for in their own scene).  The service plane has two scenes:    *)
(* the command line alone, on nodes that come and go, and the foreground   *)
(* manager.                                                                *)
(***************************************************************************)
EXTENDS OorDrain, QRCWorkers, ServicePlane, DirectoryRegistration, ShimJobs

CONSTANTS k1, k2

VARIABLE scene

CompSeq == <<"prte-dvm", "qpm">>
CapsDef == [run_circuit |-> <<"qrmi", "qdmi">>]
NamesDef == {[c \in ShimCircuits |-> IF c = k2 THEN "qdmi" ELSE NoLib]}

Scenes == {"drain", "workers", "cli", "manager", "registration", "jobs"}

MCInit ==
    /\ scene \in Scenes
    /\ DrainInit /\ WorkersInit /\ PlaneInit /\ JobsInit
    /\ RegistrationInit /\ (scene = "registration" \/ mode = "local")

\* The command line alone, or a manager on nodes that answer.
PlaneScene ==
    /\ PlaneNext
    /\ scene = "cli" => ppc'[Manager] = "idle"
    /\ scene = "manager" => reach' /\ \A c \in Callers : ppc'[c] # "killed"

MCNext ==
    /\ UNCHANGED scene
    /\ \/ /\ scene = "drain" /\ DrainNext
          /\ UNCHANGED <<wvars, pvars, dvars, jvars>>
       \/ /\ scene = "workers" /\ WorkersNext
          /\ UNCHANGED <<ovars, pvars, dvars, jvars>>
       \/ /\ scene \in {"cli", "manager"} /\ PlaneScene
          /\ UNCHANGED <<ovars, wvars, dvars, jvars>>
       \/ /\ scene = "registration" /\ RegistrationNext
          /\ UNCHANGED <<ovars, wvars, pvars, jvars>>
       \/ /\ scene = "jobs" /\ JobsNext
          /\ UNCHANGED <<ovars, wvars, pvars, dvars>>

MCSpec ==
    /\ MCInit /\ [][MCNext]_<<scene, ovars, wvars, pvars, dvars, jvars>>
    /\ \A w \in Workers : WF_wvars(scene = "workers" /\ Runner(w))
    /\ \A c \in Circuits : WF_wvars(scene = "workers" /\ Expire(c))
    /\ WF_wvars(scene = "workers" /\ Wake)
    /\ DrainFairness /\ PlaneFairness /\ RegistrationFairness /\ JobsFairness
=============================================================================
