----------------------------- MODULE MCServices -----------------------------
(***************************************************************************)
(* The parts of a running QPM service, each on its own: the scene says     *)
(* which one moves, the others stay in their initial states.  Tasks,       *)
(* completion records and circuits share their model values, so that one   *)
(* permutation serves all of them.                                         *)
(***************************************************************************)
EXTENDS QPMController, QPMCompletion, QRCWorkers, EventDelivery

VARIABLE scene

Symmetry == Permutations(Tasks)

\* A client that asked for one task of a reservation and one without a
\* reservation that asked for both.
ReservationOf == [k1 |-> "v1", k2 |-> NoReservation]
RegistrationSet ==
    {[client |-> "c1", evtype |-> "result", reservation |-> "v1", only |-> {"k1"}],
     [client |-> "c2", evtype |-> "result", reservation |-> NoReservation,
      only |-> {"k1", "k2"}]}

MCInit ==
    /\ scene \in {"controller", "completion", "workers", "events"}
    /\ Init /\ CompletionInit /\ WorkersInit
    /\ \/ scene = "events" /\ EventsInit
       \/ scene # "events" /\ provider = "fake" /\ EventsInit

MCNext ==
    /\ UNCHANGED scene
    /\ \/ /\ scene = "controller" /\ Next
          /\ UNCHANGED <<qvars, wvars, evvars>>
       \/ /\ scene = "completion" /\ CompletionNext
          /\ UNCHANGED <<cvars, wvars, evvars>>
       \/ /\ scene = "workers" /\ WorkersNext
          /\ UNCHANGED <<cvars, qvars, evvars>>
       \/ /\ scene = "events" /\ EventsNext
          /\ UNCHANGED <<cvars, qvars, wvars>>

MCSpec == MCInit /\ [][MCNext]_<<scene, cvars, qvars, wvars, evvars>>
=============================================================================
