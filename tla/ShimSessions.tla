----------------------------- MODULE ShimSessions -----------------------------
(***************************************************************************)
(* The provider sessions of the shim's drivers (drivers/qrmi_driver.py     *)
(* _qpu and evict_reservation, drivers/qdmi_driver.py _backend and         *)
(* evict_reservation): one per reservation, opened by whichever circuit    *)
(* thread needs it first, with the settings resolved for the reservation's *)
(* credential, and dropped when the reservation ends.                      *)
(*                                                                         *)
(* A setting is modelled by whose it is: a reservation's, the operator's   *)
(* (the environment the service was started with), the service's own user  *)
(* or the device's configuration.  The provider libraries are external.    *)
(***************************************************************************)
EXTENDS Naturals, FiniteSets

CONSTANTS
    SessionReservations,
    Openers,        \* circuit threads
    WorksFor,       \* thread |-> its reservation
    KeyedSets,      \* choices of the reservations whose credential has a key
    Billed,         \* reservations whose credential names a CRN or project
    MaxBuilt        \* bound: sessions opened for one reservation

\* A reservation id is none of the words for where else a setting comes from.
ASSUME SessionAssumption ==
    /\ WorksFor \in [Openers -> SessionReservations]
    /\ SessionReservations \cap {"unset", "operator", "service", "device"} = {}

VARIABLES
    keyed,     \* the reservations whose credential carries a key
    via,       \* "config" (qrmi with from_config), "env" (without) or "qdmi"
    family,    \* "iqm", "ibm" or "pasqal"
    environ,   \* [key, bill]: whose settings the process environment holds
    opened,    \* reservation |-> its cached session, or NoSession
    target,    \* reservations whose target() payload is cached
    tableGen,  \* reservation |-> generation of its construction lock
    guard,     \* locks that are held
    wpc,       \* thread |-> where it is
    wlock,     \* thread |-> the lock it took out of the table
    wset,      \* thread |-> the settings it opens with
    wuse,      \* thread |-> the session it uses
    evicting,  \* reservation |-> "no", "drop" or "dropped": evict_reservation
    built      \* reservation |-> sessions opened while it lasted

svars == <<keyed, via, family, environ, opened, target, tableGen, guard, wpc, wlock,
           wset, wuse, evicting, built>>

NoSetting == "unset"
NoSession == [key |-> NoSetting, bill |-> NoSetting]
NoLock == <<"none", 0>>
EnvLock == <<"env", 0>>

-----------------------------------------------------------------------------
(* Which settings a session opens with.                                    *)

Or(a, b) == IF a = NoSetting THEN b ELSE a

\* _access: the credential's, else the operator's (QFW_API_KEY), else the
\* device-access entry of the service's user.
Access(r) == [key |-> IF r \in keyed THEN r ELSE "service",
              bill |-> IF r \in Billed THEN r ELSE NoSetting]

\* _identifies_caller: within a reservation only a key does.
IdentifiesCaller(r) == r \in keyed

\* _iqm_isa_settings: IQM bills nothing.
IqmSettings(r) ==
    [key |-> IF IdentifiesCaller(r) THEN Access(r).key
             ELSE Or(environ.key, "service"),
     bill |-> NoSetting]

\* _ibm_settings and _object_storage_settings: a caller's settings replace
\* what the environment holds, and clear what the caller does not supply.
IbmSettings(r) ==
    [key |-> IF IdentifiesCaller(r) THEN Access(r).key
             ELSE Or(environ.key, "service"),
     bill |-> IF IdentifiesCaller(r) THEN Or(Access(r).bill, "device")
              ELSE Or(environ.bill, Or(Access(r).bill, "device"))]

\* _pasqal_cloud_settings: a caller's token goes with no other login.
PasqalSettings(r) ==
    [key |-> IF r \in keyed THEN r ELSE Or(environ.key, "service"),
     bill |-> IF r \in keyed THEN Or(Access(r).bill, "device")
              ELSE Or(Access(r).bill, Or(environ.bill, "device"))]

\* _resource_config, _ensure_resource_env and the QDMI profiles' access.
Settings(r) ==
    CASE family = "iqm" -> IqmSettings(r)
      [] family = "ibm" -> IbmSettings(r)
      [] OTHER -> PasqalSettings(r)

-----------------------------------------------------------------------------
SessionsInit ==
    /\ via \in {"config", "env", "qdmi"} /\ family \in {"iqm", "ibm", "pasqal"}
    /\ \E who \in {NoSetting, "operator"} : environ = [key |-> who, bill |-> who]
    /\ keyed \in KeyedSets
    /\ opened = [r \in SessionReservations |-> NoSession] /\ target = {}
    /\ tableGen = [r \in SessionReservations |-> 1] /\ guard = {}
    /\ wpc = [w \in Openers |-> "new"]
    /\ wlock = [w \in Openers |-> NoLock]
    /\ wset = [w \in Openers |-> NoSession]
    /\ wuse = [w \in Openers |-> NoSession]
    /\ evicting = [r \in SessionReservations |-> "no"]
    /\ built = [r \in SessionReservations |-> 0]

At(w, from, to) == wpc[w] = from /\ wpc' = [wpc EXCEPT ![w] = to]

\* The lock that construction for r, and its eviction, go through.
LockFor(r) == IF via = "qdmi" THEN <<"all", 0>> ELSE <<r, tableGen[r]>>

\* A circuit starts while its reservation lasts.
StartWork(w) ==
    /\ At(w, "new", "look") /\ evicting[WorksFor[w]] = "no"
    /\ UNCHANGED <<keyed, via, family, environ, opened, target, tableGen, guard, wlock,
                   wset, wuse, evicting, built>>

\* _qpu, _backend: a cached session is used; otherwise the settings are
\* resolved (from_config resolves them here) and the lock is looked up.
LookUp(w) ==
    LET r == WorksFor[w] IN
    /\ wpc[w] = "look"
    /\ IF opened[r] # NoSession
       THEN /\ wuse' = [wuse EXCEPT ![w] = opened[r]]
            /\ wpc' = [wpc EXCEPT ![w] = "use"] /\ UNCHANGED <<wlock, wset>>
       ELSE /\ wlock' = [wlock EXCEPT ![w] = IF via = "env" THEN EnvLock ELSE LockFor(r)]
            /\ wset' = [wset EXCEPT ![w] = IF via = "config" THEN Settings(r) ELSE @]
            /\ wpc' = [wpc EXCEPT ![w] = "enter"] /\ UNCHANGED wuse
    /\ UNCHANGED <<keyed, via, family, environ, opened, target, tableGen, guard, evicting, built>>

\* the construction is not serialised
EnterFree(w) ==
    /\ At(w, "enter", "again")
    /\ UNCHANGED <<keyed, via, family, environ, opened, target, tableGen, guard, wlock,
                   wset, wuse, evicting, built>>

Enter(w) ==
    /\ At(w, "enter", "again") /\ wlock[w] \notin guard
    /\ guard' = guard \cup {wlock[w]}
    /\ UNCHANGED <<keyed, via, family, environ, opened, target, tableGen, wlock, wset,
                   wuse, evicting, built>>

\* the cache is not looked at again under the lock
IsOpenNever(w) == FALSE

IsOpen(w) == opened[WorksFor[w]] # NoSession

\* Under the lock: another thread may have opened the session meanwhile.
\* Without from_config the settings are written to the environment now.
LookAgain(w) ==
    LET r == WorksFor[w] IN
    /\ wpc[w] = "again"
    /\ IF IsOpen(w)
       THEN /\ wuse' = [wuse EXCEPT ![w] = opened[r]]
            /\ guard' = guard \ {wlock[w]} /\ wset' = [wset EXCEPT ![w] = NoSession]
            /\ wpc' = [wpc EXCEPT ![w] = "use"] /\ UNCHANGED environ
       ELSE /\ IF via = "env" /\ family # "pasqal"
               THEN environ' = Settings(r) /\ UNCHANGED wset
               ELSE /\ wset' = [wset EXCEPT ![w] = IF via = "qdmi" THEN Settings(r) ELSE @]
                    /\ UNCHANGED environ
            /\ wpc' = [wpc EXCEPT ![w] = "open"] /\ UNCHANGED <<wuse, guard>>
    /\ UNCHANGED <<keyed, via, family, opened, target, tableGen, wlock, evicting, built>>

\* The library opens the session, from the settings it was handed or from the
\* environment, or refuses; without from_config Pasqal is always refused.
Open(w) ==
    LET r == WorksFor[w]
        s == IF via = "env" THEN environ ELSE wset[w]
    IN /\ wpc[w] = "open"
       /\ guard' = guard \ {wlock[w]} /\ wlock' = [wlock EXCEPT ![w] = NoLock]
       /\ wset' = [wset EXCEPT ![w] = NoSession]
       /\ \/ /\ ~(via = "env" /\ family = "pasqal") /\ built[r] < MaxBuilt
             /\ opened' = [opened EXCEPT ![r] = s]
             /\ wuse' = [wuse EXCEPT ![w] = s]
             /\ built' = [built EXCEPT ![r] = IF evicting[r] = "no" THEN @ + 1 ELSE @]
             /\ wpc' = [wpc EXCEPT ![w] = "use"]
          \/ /\ wpc' = [wpc EXCEPT ![w] = "over"] /\ UNCHANGED <<opened, wuse, built>>
       /\ UNCHANGED <<keyed, via, family, environ, target, tableGen, evicting>>

\* A call through the session (QRMI's IQM and IBM runs read the target first),
\* after which the thread asks for the session again or ends.
Use(w) ==
    /\ wpc[w] = "use"
    /\ \E next \in {"look", "over"} : wpc' = [wpc EXCEPT ![w] = next]
    /\ target' = IF via = "qdmi" \/ family = "pasqal" THEN target
                 ELSE target \cup {WorksFor[w]}
    /\ wuse' = [wuse EXCEPT ![w] = NoSession]
    /\ UNCHANGED <<keyed, via, family, environ, opened, tableGen, guard, wlock, wset,
                   evicting, built>>

\* evict_reservation: under the lock the session and the target are dropped,
\* and then, for QRMI, the lock itself leaves the table.
EvictReservation(r) ==
    /\ evicting[r] = "no" /\ LockFor(r) \notin guard
    /\ opened' = [opened EXCEPT ![r] = NoSession]
    /\ target' = target \ {r}
    /\ evicting' = [evicting EXCEPT ![r] = "drop"]
    /\ UNCHANGED <<keyed, via, family, environ, tableGen, guard, wpc, wlock, wset, wuse, built>>

DropLock(r) ==
    /\ evicting[r] = "drop"
    /\ evicting' = [evicting EXCEPT ![r] = "dropped"]
    /\ tableGen' = IF via = "qdmi" THEN tableGen ELSE [tableGen EXCEPT ![r] = @ + 1]
    /\ UNCHANGED <<keyed, via, family, environ, opened, target, guard, wpc, wlock, wset,
                   wuse, built>>

SessionsNext ==
    \/ \E w \in Openers : StartWork(w) \/ LookUp(w) \/ Enter(w) \/ LookAgain(w)
                          \/ Open(w) \/ Use(w)
    \/ \E r \in SessionReservations : EvictReservation(r) \/ DropLock(r)

SessionsSpec == SessionsInit /\ [][SessionsNext]_svars

-----------------------------------------------------------------------------
\* A circuit whose reservation carries a key runs on a session opened with
\* that key and billed to no other reservation; with from_config no circuit
\* ever runs on a session opened for another reservation.
SessionIsOwn ==
    \A w \in Openers : wpc[w] = "use" =>
        LET r == WorksFor[w]
            others == SessionReservations \ {r}
        IN /\ r \in keyed => wuse[w].key = r /\ wuse[w].bill \notin others
           /\ via # "env" => wuse[w].key \notin others /\ wuse[w].bill \notin others

\* While its reservation lasts, at most one session is opened for it.
OneSession == \A r \in SessionReservations : built[r] <= 1

\* A reservation has one session, and its circuits run on no other's.
SessionsOwned ==
    SessionIsOwn /\ OneSession
=============================================================================
