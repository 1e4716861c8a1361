--------------------------- MODULE MCReservations ---------------------------
(***************************************************************************)
(* What the QPM keeps of its reservations, each part on its own: the       *)
(* reservations themselves, the ids they are given, and the configuration  *)
(* they are admitted under.  Two scenes keep the reservations' state space *)
(* small: reservations that lapse and are closed together while the        *)
(* service runs on, and one reservation under a shutdown or a refused      *)
(* binding.                                                                *)
(***************************************************************************)
EXTENDS QPMReservations, ReservationSequence, AdmissionConfig, TLC

VARIABLE scene

WithinScene ==
    CASE scene = "sweep" ->
            mode' = "none" /\ \A r \in Reservations : bound'[r] \in {"none", "secret"}
      [] scene = "stop" ->
            /\ \A r \in Reservations :
                  r > 1 => ledger'[r] = "none" /\ r \notin closing'
            /\ Cardinality({t \in QTasks : state'[t] # "none"}) <= 1

\* What a pending entry that outlives the grant of a hold leads to is the
\* subject of the stale_pending run, and kept out here.
NoStaleEntry == pending' \cap holds' = {}

MCInit ==
    /\ scene \in {"sweep", "stop", "ids", "config"}
    /\ ReservationInit /\ SequenceInit /\ AConfigInit

MCNext ==
    /\ UNCHANGED scene
    /\ \/ /\ scene \in {"sweep", "stop"}
          /\ ReservationNext /\ WithinScene /\ NoStaleEntry
          /\ UNCHANGED <<svars, avars>>
       \/ scene = "ids" /\ SequenceNext /\ UNCHANGED <<rvars, avars>>
       \/ scene = "config" /\ AConfigNext /\ UNCHANGED <<rvars, svars>>

MCSpec ==
    MCInit /\ [][MCNext]_<<rvars, svars, avars, scene>> /\ ReservationFairness
=============================================================================
