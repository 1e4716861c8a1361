--------------------------- MODULE AdmissionProofs ---------------------------
(***************************************************************************)
(* What QPMReservations promises of the reservations and their credentials,*)
(* for any number of reservations, tasks and threads, and AdmissionConfig  *)
(* of the configuration they are admitted under, for any number of         *)
(* administrators and any profiles and policies.                           *)
(***************************************************************************)
EXTENDS QPMReservations, AdmissionConfig, WellFoundedInduction, TLAPS

\* No administrator has read a version that is not out yet: with it, a version
\* that is raised is one nobody has read.
ReadsArePast ==
    /\ versions \in [profile : Nat, policy : Nat]
    /\ unrepaired \in BOOLEAN
    /\ DOMAIN read = Admins
    /\ \A a \in Admins : read[a].version \in 0 .. versions.policy

AConfigInv == ReadsArePast /\ VersionNamesConfig /\ LibraryInForce

\* The configuration a service starts with is agreed.
LEMMA AConfigInitially == AConfigInit => AConfigInv
<1>. SUFFICES ASSUME AConfigInit PROVE AConfigInv
  OBVIOUS
<1>1. /\ versions.policy = 0 /\ versions \in [profile : Nat, policy : Nat]
      /\ \A a \in Admins : read[a].version = 0 /\ read[a].config = config
      /\ DOMAIN read = Admins
  BY DEF AConfigInit
<1>2. unrepaired \in BOOLEAN /\ libProfile = profile /\ config = NoConfig
  BY DEF AConfigInit
<1>. QED BY <1>1, <1>2 DEF AConfigInv, ReadsArePast, VersionNamesConfig,
                           LibraryInForce

\* An update that succeeds raises the version and leaves library and controller
\* with the same profile, whether or not it had to be registered; one that
\* fails leaves them apart only if it also says so.
LEMMA ApplyKeeps ==
    ASSUME AConfigInv, NEW a \in Admins, NEW c, NEW checked \in BOOLEAN,
           NEW done \in 0..3, NEW fails \in 0..3,
           Apply(a, c, checked, done, fails), UNCHANGED read
    PROVE  AConfigInv'
<1>1. CASE done = 3 /\ versions' # versions
  <2>1. /\ versions.policy \in Nat /\ versions.profile \in Nat
        /\ versions' = [profile |-> versions.profile
                            + (IF ProfileUnder(NormalConfig(c)) # profile THEN 1 ELSE 0),
                        policy |-> versions.policy + 1]
    BY <1>1 DEF Apply, Bump, BumpBoth, AConfigInv, ReadsArePast
  <2>2. unrepaired' = (unrepaired /\ libProfile' # profile')
    BY <1>1 DEF Apply
  <2>3. ReadsArePast' /\ VersionNamesConfig'
    BY <2>1, <2>2 DEF AConfigInv, ReadsArePast, VersionNamesConfig
  <2>4. ~unrepaired => libProfile' = profile'
    BY <1>1 DEF Apply, Registered, AConfigInv, LibraryInForce
  <2>5. config' # NoConfig => libPolicy' = config'.policy
    BY <1>1 DEF Apply
  <2>6. LibraryInForce'
    BY <2>2, <2>4, <2>5 DEF LibraryInForce, AConfigInv, ReadsArePast
  <2>. QED BY <2>3, <2>6 DEF AConfigInv
<1>2. CASE ~(done = 3 /\ versions' # versions)
  <2>1. done # 3
    BY <1>2 DEF Apply, Bump, BumpBoth, AConfigInv, ReadsArePast
  <2>2. /\ Restore(done, NormalConfig(c), fails)
        /\ UNCHANGED <<profile, config, versions>>
    BY <2>1 DEF Apply
  <2>3. unrepaired' \in BOOLEAN /\ (~unrepaired' => ~unrepaired)
    BY <2>2 DEF Restore, AConfigInv, ReadsArePast
  <2>4. ReadsArePast' /\ VersionNamesConfig'
    BY <2>2, <2>3 DEF AConfigInv, ReadsArePast, VersionNamesConfig
  <2>5. ASSUME ~unrepaired' PROVE libProfile' = profile
    <3>0. ~(done >= 1 /\ (IF config = NoConfig \/ profile = NoProfile
                          THEN 0 ELSE fails) < 3)
      BY <2>2, <2>5, Zenon DEF Restore
    <3>1. done = 0 \/ (config # NoConfig /\ profile # NoProfile /\ fails = 3)
      BY <3>0
    <3>2. CASE done = 0
      BY <2>2, <2>3, <2>5, <3>2 DEF Restore, Registered, AConfigInv, LibraryInForce
    <3>3. CASE config # NoConfig /\ profile # NoProfile /\ fails = 3
      BY <2>2, <3>3 DEF Restore
    <3>. QED BY <3>1, <3>2, <3>3
  <2>6. ASSUME ~unrepaired', config # NoConfig PROVE libPolicy' = config.policy
    BY <2>2, <2>3, <2>6 DEF Restore, AConfigInv, LibraryInForce
  <2>7. LibraryInForce'
    BY <2>2, <2>5, <2>6 DEF LibraryInForce
  <2>. QED BY <2>4, <2>7 DEF AConfigInv
<1>. QED BY <1>1, <1>2

\* Every call of an administrator, refused or not, keeps it so.
LEMMA AConfigStep == AConfigInv /\ [AConfigNext]_avars => AConfigInv'
<1>. SUFFICES ASSUME AConfigInv, [AConfigNext]_avars PROVE AConfigInv'
  OBVIOUS
<1>1. ASSUME NEW a \in Admins, SetAdmissionPolicy(a) PROVE AConfigInv'
  BY <1>1, ApplyKeeps DEF SetAdmissionPolicy
<1>2. ASSUME NEW a \in Admins, GetAdmissionPolicy(a) PROVE AConfigInv'
  BY <1>2 DEF GetAdmissionPolicy, AConfigInv, ReadsArePast, VersionNamesConfig,
              LibraryInForce
<1>3. ASSUME NEW a \in Admins, ConfigureDeviceProfile(a) PROVE AConfigInv'
  BY <1>3 DEF ConfigureDeviceProfile, AConfigInv, ReadsArePast,
              VersionNamesConfig, LibraryInForce
<1>4. ASSUME NEW a \in Admins, ReadCurrent(a) PROVE AConfigInv'
  BY <1>4 DEF ReadCurrent, AConfigInv, ReadsArePast, VersionNamesConfig,
              LibraryInForce
<1>5. ASSUME NEW a \in Admins, Reapply(a) PROVE AConfigInv'
  <2>1. CASE UNCHANGED <<profile, config, versions, libProfile, libPolicy, unrepaired>>
    BY <1>5, <2>1 DEF Reapply, AConfigInv, ReadsArePast, VersionNamesConfig,
                      LibraryInForce
  <2>2. ASSUME NEW done \in 0..3, NEW fails \in 0..3,
               Apply(a, current[a], FALSE, done, fails)
        PROVE  AConfigInv'
    BY <1>5, <2>2, ApplyKeeps DEF Reapply
  <2>. QED BY <1>5, <2>1, <2>2 DEF Reapply
<1>6. CASE UNCHANGED avars
  BY <1>6 DEF avars, AConfigInv, ReadsArePast, VersionNamesConfig, LibraryInForce
<1>. QED BY <1>1, <1>2, <1>3, <1>4, <1>5, <1>6 DEF AConfigNext

\* Through any sequence of updates, failing library calls and restores of
\* set_admission_policy and configure_device_profile, a version names one
\* configuration, and the library applies what the controller reports unless a
\* failed update was left unrepaired.
THEOREM ConfigurationIsAgreed == AConfigSpec => []ConfigurationAgrees
<1>1. AConfigInv => ConfigurationAgrees
  BY DEF AConfigInv, ConfigurationAgrees
<1>. QED BY <1>1, AConfigInitially, AConfigStep, PTL DEF AConfigSpec
-----------------------------------------------------------------------------
Started == {"CREATED", "PENDING", "HELD", "SELECTED", "SUBMITTED"} \cup Ended
Records == {"none", "fallback", "secret", "nosecret"}
Entries == [rsv : Reservations, rec : Records]

ReservationTypes ==
    /\ ledger \in [Reservations -> {"none", "active", "over"}]
    /\ bound \in [Reservations -> {"none", "refused", "secret", "nosecret"}]
    /\ metadata \in [Reservations -> {"none", "secret", "nosecret"}]
    /\ credential \in [Reservations -> Records]
    /\ cq \in [Reservations -> {"none", "open", "terminal"}]
    /\ granted \subseteq Reservations
    /\ cleanup \subseteq Entries
    /\ taking \in [Drainers -> SUBSET Entries]
    /\ released \in [Reservations -> 0..1]
    /\ state \in [QTasks -> {"none", "validated", "checked"} \cup Started]
    /\ carried \in [QTasks -> Records]
    /\ DOMAIN of = QTasks
    /\ known \subseteq QTasks

\* Usage is held by known tasks only, and whatever is at a provider holds
\* usage: a close, which looks at holds, sees every run there is.
WorkSound ==
    /\ inflight \subseteq holds /\ holds \subseteq known /\ pending \subseteq known
    /\ \A t \in QTasks :
          /\ state[t] # "none" => of[t] \in Reservations /\ ledger[of[t]] # "none"
          /\ t \in known \/ carried[t] # "none" => state[t] \in Started
          /\ t \in known /\ state[t] \in {"HELD", "SELECTED"} => t \in holds
    /\ AccountedWhileActive

\* What is cached for a reservation is what it was bound to, while it lasts.
BindingSound ==
    /\ \A r \in Reservations :
          /\ ledger[r] = "none" =>
                /\ bound[r] = "none" /\ metadata[r] = "none"
                /\ credential[r] = "none" /\ r \notin granted
          /\ credential[r] \in Materials => bound[r] = credential[r]
          /\ credential[r] = "fallback" => bound[r] # "secret"
          /\ ledger[r] = "active" /\ bound[r] = "secret" => metadata[r] = "secret"
    /\ NoDowngrade /\ EndedLeavesNothing

Given(r) == ledger[r] = "over" \/ mode \in {"clearing", "done"}

\* A bound material is in one place only, the credential map, the cleanup
\* queue, one drainer's hands or back at its provider, and it leaves the map
\* only at the end of its reservation or of the service.
OnItsWay(e) ==
    /\ e.rec = bound[e.rsv] /\ released[e.rsv] = 0
    /\ credential[e.rsv] \notin Materials /\ Given(e.rsv)
InOnePlace ==
    /\ \A e \in cleanup : e.rec \in Materials => OnItsWay(e)
    /\ \A c \in Drainers : \A e \in taking[c] : e.rec \in Materials =>
          /\ OnItsWay(e) /\ e \notin cleanup
          /\ \A d \in Drainers : e \in taking[d] => d = c
    /\ \A r \in Reservations :
          released[r] > 0 => credential[r] \notin Materials /\ Given(r)

StopSound ==
    /\ service = "running" => mode = "none"
    /\ mode = "clearing" => service = "stopping"
    /\ mode = "done" <=> service = "stopped"
    /\ mode \in {"clearing", "done"} =>
          \A r \in Reservations : credential[r] \notin Materials

ReservationInv ==
    ReservationTypes /\ WorkSound /\ BindingSound /\ InOnePlace /\ StopSound

USE Zenon

\* A service that starts has no reservation and no work.
LEMMA ReservationInitially == ReservationInit => ReservationInv
<1>. SUFFICES ASSUME ReservationInit PROVE ReservationInv
  OBVIOUS
<1>. USE DEF ReservationInit
<1>1. ReservationTypes
  BY SMTT(30) DEF ReservationTypes, Records
<1>2. WorkSound
  BY DEF WorkSound, AccountedWhileActive
<1>3. BindingSound
  BY DEF BindingSound, Materials, NoDowngrade, EndedLeavesNothing
<1>4. InOnePlace
  BY SMTT(30) DEF InOnePlace
<1>5. StopSound
  BY DEF StopSound, Materials
<1>. QED BY <1>1, <1>2, <1>3, <1>4, <1>5 DEF ReservationInv

\* The sequence's next id is one the library has not seen.
LEMMA NextIdIsNew ==
    ASSUME \E r \in Reservations : ledger[r] = "none"
    PROVE  NextId \in Reservations /\ ledger[NextId] = "none"
<1>. DEFINE T == {r \in Reservations : ledger[r] = "none"}
<1>1. PICK r \in T : \A q \in T : ~(<<q, r>> \in OpToRel(<, Nat))
  BY NatLessThanWellFounded, WFMin, ReservationIds, T \subseteq Nat, T # {}
<1>2. \A q \in Reservations : q < r => ledger[q] # "none"
  BY <1>1, ReservationIds DEF OpToRel
<1>. QED BY <1>1, <1>2 DEF NextId

\* The close of the reservations in R leaves no hold of theirs behind unless
\* it waits for a run, and then the library is not told.
LEMMA CloseWorkLeaves ==
    ASSUME ReservationInv, NEW R \in SUBSET Reservations, NEW stopped,
           CloseWork(R, stopped)
    PROVE  /\ inflight' \subseteq holds' /\ holds' \subseteq holds
           /\ pending' \subseteq pending
           /\ Settled(R) => \A t \in holds' : of[t] \notin R
           /\ state' \in [QTasks -> {"none", "validated", "checked"} \cup Started]
           /\ \A t \in QTasks :
                 \/ state'[t] = state[t] /\ (t \in holds' <=> t \in holds)
                 \/ t \in known /\ state'[t] = "CANCELLED"
           /\ UNCHANGED <<of, known, carried>>
<1>. DEFINE kept == {t \in Touched(R) : AtProvider(t) /\ t \notin stopped}
            gone == Touched(R) \ kept
<1>. USE DEF ReservationInv
<1>1. /\ holds' = holds \ gone /\ inflight' = inflight \ gone
      /\ state' = Set(state, gone, "CANCELLED") /\ pending' \subseteq pending
      /\ UNCHANGED <<of, known, carried>>
      /\ awaiting' = [r \in Reservations |->
             IF r \in R
             THEN {t \in awaiting[r] \cup {u \in kept : of[u] = r} : ~Resolved(t)}
             ELSE awaiting[r]]
  BY DEF CloseWork
<1>2. Touched(R) \subseteq known /\ \A t \in holds : of[t] \in R => t \in Touched(R)
  BY DEF Touched, WorkSound
<1>3. ASSUME Settled(R), NEW t \in holds', of[t] \in R PROVE FALSE
  <2>1. t \in kept
    BY <1>1, <1>2, <1>3
  <2>2. ~Resolved(t)
    BY <1>3 DEF Resolved
  <2>3. t \in awaiting'[of[t]]
    BY <1>1, <1>3, <2>1, <2>2
  <2>. QED BY <1>3, <2>3 DEF Settled
<1>4. state' = [t \in QTasks |-> IF t \in gone THEN "CANCELLED" ELSE state[t]]
  BY <1>1 DEF Set, ReservationTypes
<1>5. /\ state' \in [QTasks -> {"none", "validated", "checked"} \cup Started]
      /\ \A t \in QTasks :
            \/ state'[t] = state[t] /\ (t \in holds' <=> t \in holds)
            \/ t \in known /\ state'[t] = "CANCELLED"
  BY <1>1, <1>2, <1>4 DEF ReservationTypes, Started, Ended
<1>. QED BY <1>1, <1>3, <1>5 DEF WorkSound

\* A record that leaves the credential map is queued once for cleanup.
LEMMA RemovalKeeps ==
    ASSUME ReservationInv, NEW R \in SUBSET Reservations, RemoveCredentials(R),
           UNCHANGED <<bound, taking, released>>,
           \A r \in Reservations : Given(r) => Given(r)',
           \A r \in R : Given(r)'
    PROVE  /\ credential' = [r \in Reservations |->
                                IF r \in R THEN "none" ELSE credential[r]]
           /\ cleanup' \subseteq Entries /\ InOnePlace'
<1>. USE DEF ReservationInv
<1>1. /\ credential' = [r \in Reservations |-> IF r \in R THEN "none" ELSE credential[r]]
      /\ cleanup' = cleanup \cup {[rsv |-> r, rec |-> credential[r]] : r \in R}
  BY DEF RemoveCredentials, Set, ReservationTypes
<1>2. cleanup' \subseteq Entries
  BY <1>1, SMTT(30) DEF ReservationTypes, Entries
<1>3. \A r \in Reservations : credential'[r] \in Materials => credential[r] \in Materials
  BY <1>1 DEF Materials
<1>4. ASSUME NEW e \in Entries, e.rec \in Materials, OnItsWay(e) PROVE OnItsWay(e)'
  BY <1>1, <1>3, <1>4 DEF OnItsWay, Entries
<1>5. ASSUME NEW r \in R, NEW e, e = [rsv |-> r, rec |-> credential[r]],
             e.rec \in Materials
      PROVE  OnItsWay(e)' /\ \A c \in Drainers : e \notin taking[c]
  <2>1. released[r] = 0
    BY <1>5, SMTT(30) DEF InOnePlace, ReservationTypes
  <2>2. credential'[r] = "none" /\ Given(r)' /\ bound[r] = credential[r]
    BY <1>1, <1>5 DEF BindingSound
  <2>3. e.rsv = r /\ e.rec = credential[r]
    BY <1>5
  <2>4. OnItsWay(e)'
    BY <2>1, <2>2, <2>3 DEF OnItsWay, Materials
  <2>5. \A c \in Drainers : e \notin taking[c]
    BY <1>5, <2>3 DEF OnItsWay, InOnePlace
  <2>. QED BY <2>4, <2>5
<1>6. InOnePlace'
  <2>1. ASSUME NEW e \in cleanup', e.rec \in Materials PROVE OnItsWay(e)'
    <3>1. CASE e \in cleanup
      BY <1>4, <2>1, <3>1 DEF InOnePlace, ReservationTypes
    <3>2. CASE e \notin cleanup
      <4>1. PICK r \in R : e = [rsv |-> r, rec |-> credential[r]]
        BY <1>1, <3>2
      <4>. QED BY <1>5, <2>1, <4>1
    <3>. QED BY <3>1, <3>2
  <2>2. ASSUME NEW c \in Drainers, NEW e \in taking[c], e.rec \in Materials
        PROVE  OnItsWay(e)' /\ e \notin cleanup'
    <3>1. e \in Entries /\ OnItsWay(e) /\ e \notin cleanup
      BY <2>2 DEF InOnePlace, ReservationTypes
    <3>2. ASSUME e \in cleanup' PROVE FALSE
      <4>1. PICK r \in R : e = [rsv |-> r, rec |-> credential[r]]
        BY <1>1, <3>1, <3>2
      <4>. QED BY <1>5, <2>2, <4>1
    <3>. QED BY <1>4, <2>2, <3>1, <3>2
  <2>3. ASSUME NEW r \in Reservations, released[r] > 0
        PROVE  credential'[r] \notin Materials /\ Given(r)'
    BY <1>3, <2>3 DEF InOnePlace
  <2>. QED BY <2>1, <2>2, <2>3 DEF InOnePlace
<1>. QED BY <1>1, <1>2, <1>6

\* A reservation that ends in the library passes its record to the cleanup
\* queue and keeps nothing.
LEMMA EndLedgerKeeps ==
    ASSUME ReservationInv, NEW R \in SUBSET Reservations,
           \A r \in R : ledger[r] = "active",
           EndLedger(R), UNCHANGED <<granted, bound, taking, released, mode>>
    PROVE  /\ ledger' = [r \in Reservations |-> IF r \in R THEN "over" ELSE ledger[r]]
           /\ credential' = [r \in Reservations |-> IF r \in R THEN "none" ELSE credential[r]]
           /\ metadata' = [r \in Reservations |-> IF r \in R THEN "none" ELSE metadata[r]]
           /\ cq' = [r \in Reservations |-> IF r \in R THEN "terminal" ELSE cq[r]]
           /\ cleanup' \subseteq Entries /\ InOnePlace'
<1>1. /\ ledger' = [r \in Reservations |-> IF r \in R THEN "over" ELSE ledger[r]]
      /\ metadata' = [r \in Reservations |-> IF r \in R THEN "none" ELSE metadata[r]]
      /\ cq' = [r \in Reservations |-> IF r \in R THEN "terminal" ELSE cq[r]]
      /\ RemoveCredentials(R)
  BY DEF EndLedger, Set, ReservationTypes, ReservationInv
<1>2. /\ \A r \in Reservations : Given(r) => Given(r)'
      /\ \A r \in R : Given(r)'
  BY <1>1 DEF Given
<1>. QED BY <1>1, <1>2, RemovalKeeps

\* A step that leaves the ledger, the bindings and the cleanup alone has only
\* the tasks to answer for.
LEMMA OnlyTasksChange ==
    ASSUME ReservationInv, WorkSound',
           UNCHANGED <<ledger, granted, bound, bindVars, cleanup, taking, released,
                       service, mode, carried>>,
           state' \in [QTasks -> {"none", "validated", "checked"} \cup Started],
           DOMAIN of' = QTasks, known' \subseteq QTasks,
           \A t \in QTasks : carried[t] # "none" => of'[t] = of[t]
    PROVE  ReservationInv'
<1>. USE DEF ReservationInv, bindVars
<1>1. ReservationTypes'
  BY DEF ReservationTypes
<1>2. NoDowngrade'
  BY ZenonT(60) DEF BindingSound, NoDowngrade, ReservationTypes
<1>3. BindingSound'
  BY <1>2 DEF BindingSound, EndedLeavesNothing
<1>4. InOnePlace' /\ StopSound'
  BY ZenonT(60) DEF InOnePlace, OnItsWay, Given, StopSound
<1>. QED BY <1>1, <1>3, <1>4

\* Closing the work of some reservations, whether or not they end with it.
LEMMA CloseKeeps ==
    ASSUME ReservationInv, NEW R \in SUBSET Reservations, NEW stopped,
           CloseWork(R, stopped),
           \/ /\ Settled(R) /\ \A r \in R : ledger[r] = "active"
              /\ EndLedger(R)
           \/ UNCHANGED <<ledger, bindVars, cleanup>>,
           UNCHANGED <<granted, bound, taking, released, service, mode>>
    PROVE  ReservationInv'
<1>. USE DEF ReservationInv
<1>0. /\ inflight' \subseteq holds' /\ holds' \subseteq holds
      /\ pending' \subseteq pending
      /\ Settled(R) => \A t \in holds' : of[t] \notin R
      /\ state' \in [QTasks -> {"none", "validated", "checked"} \cup Started]
      /\ \A t \in QTasks :
            \/ state'[t] = state[t] /\ (t \in holds' <=> t \in holds)
            \/ t \in known /\ state'[t] = "CANCELLED"
      /\ UNCHANGED <<of, known, carried>>
  BY CloseWorkLeaves
<1>1. \A t \in QTasks :
          /\ t \in known => state[t] \in Started
          /\ state'[t] # "none" => state[t] # "none"
  BY <1>0 DEF WorkSound, Started, Ended
<1>2. \A t \in QTasks :
          /\ t \in known' \/ carried'[t] # "none" => state'[t] \in Started
          /\ t \in known' /\ state'[t] \in {"HELD", "SELECTED"} => t \in holds'
  BY <1>0, <1>1 DEF WorkSound, Started, Ended
<1>3. CASE UNCHANGED <<ledger, bindVars, cleanup>>
  <2>1. WorkSound'
    BY <1>0, <1>1, <1>2, <1>3 DEF WorkSound, AccountedWhileActive
  <2>. QED BY <1>0, <1>3, <2>1, OnlyTasksChange DEF ReservationTypes
<1>4. CASE Settled(R) /\ (\A r \in R : ledger[r] = "active") /\ EndLedger(R)
  <2>1. /\ ledger' = [r \in Reservations |-> IF r \in R THEN "over" ELSE ledger[r]]
        /\ credential' = [r \in Reservations |-> IF r \in R THEN "none" ELSE credential[r]]
        /\ metadata' = [r \in Reservations |-> IF r \in R THEN "none" ELSE metadata[r]]
        /\ cq' = [r \in Reservations |-> IF r \in R THEN "terminal" ELSE cq[r]]
        /\ cleanup' \subseteq Entries /\ InOnePlace'
    BY <1>4, EndLedgerKeeps
  <2>2. ReservationTypes'
    BY <1>0, <2>1 DEF ReservationTypes, Records
  <2>3. WorkSound'
    <3>1. \A t \in QTasks : state'[t] # "none" =>
              of'[t] \in Reservations /\ ledger'[of'[t]] # "none"
      BY <1>0, <1>1, <2>1 DEF WorkSound
    <3>2. AccountedWhileActive'
      BY <1>0, <1>1, <1>4, <2>1 DEF WorkSound, AccountedWhileActive, ReservationTypes,
                                    Started, Ended
    <3>3. /\ holds' \subseteq known' /\ inflight' \subseteq holds'
          /\ pending' \subseteq known'
      BY <1>0 DEF WorkSound
    <3>. QED BY <1>2, <3>1, <3>2, <3>3 DEF WorkSound
  <2>4. BindingSound'
    <3>1. NoDowngrade'
      BY <1>0 DEF BindingSound, NoDowngrade
    <3>2. EndedLeavesNothing'
      BY <2>1 DEF BindingSound, EndedLeavesNothing, ReservationTypes
    <3>3. \A r \in Reservations :
             /\ ledger'[r] = "none" =>
                   /\ bound'[r] = "none" /\ metadata'[r] = "none"
                   /\ credential'[r] = "none" /\ r \notin granted'
             /\ credential'[r] \in Materials => bound'[r] = credential'[r]
             /\ credential'[r] = "fallback" => bound'[r] # "secret"
             /\ ledger'[r] = "active" /\ bound'[r] = "secret" => metadata'[r] = "secret"
      BY <1>4, <2>1 DEF BindingSound, Materials
    <3>. QED BY <3>1, <3>2, <3>3 DEF BindingSound
  <2>5. StopSound'
    BY <2>1 DEF StopSound, Materials
  <2>. QED BY <2>1, <2>2, <2>3, <2>4, <2>5
<1>. QED BY <1>3, <1>4

\* A release or a cancel of one reservation.
LEMMA ReleaseKeeps ==
    ASSUME ReservationInv, NEW c, NEW r \in Reservations, ReleaseAdmission(c, r)
    PROVE  ReservationInv'
<1>1. PICK stopped : CloseReservation(r, stopped)
  BY DEF ReleaseAdmission
<1>2. UNCHANGED <<granted, bound, taking, released, service, mode>>
  BY DEF ReleaseAdmission, serviceVars
<1>3. CASE Settled({r}) /\ ledger[r] = "active"
  BY <1>1, <1>2, <1>3, CloseKeeps DEF CloseReservation
<1>4. CASE ~(Settled({r}) /\ ledger[r] = "active")
  BY <1>1, <1>2, <1>4, CloseKeeps DEF CloseReservation
<1>. QED BY <1>3, <1>4

\* The sweep of the reservations that have lapsed.
LEMMA FindExpiredKeeps ==
    ASSUME ReservationInv, NEW c, NEW r, FindExpired(c, r)
    PROVE  ReservationInv'
<1>. DEFINE R == {q \in Reservations : Lapsed(q)}
<1>1. PICK stopped : CloseExpired(r, stopped)
  BY DEF FindExpired
<1>2. UNCHANGED <<granted, bound, taking, released, service, mode>>
  BY DEF FindExpired, serviceVars
<1>3. R \in SUBSET Reservations /\ \A q \in R : ledger[q] = "active"
  BY DEF Lapsed
<1>4. CASE Settled(R)
  BY <1>1, <1>2, <1>3, <1>4, CloseKeeps DEF CloseExpired
<1>5. CASE ~Settled(R)
  BY <1>1, <1>2, <1>3, <1>5, CloseKeeps DEF CloseExpired
<1>. QED BY <1>4, <1>5

\* A new id has nothing of an earlier reservation: no task names it, nothing is
\* cached, queued or given back for it.
LEMMA GrantKeeps ==
    ASSUME ReservationInv, AcceptsReservations,
           NEW r \in Reservations, ledger[r] = "none",
           NEW l \in {"active", "over"}, ledger' = [ledger EXCEPT ![r] = l],
           NEW b \in {"refused", "secret", "nosecret"},
           bound' = [bound EXCEPT ![r] = b],
           \/ b = "refused" /\ UNCHANGED <<granted, bindVars>>
           \/ /\ b \in Materials /\ l = "active"
              /\ granted' = granted \cup {r}
              /\ metadata' = [metadata EXCEPT ![r] = b]
              /\ credential' = [credential EXCEPT ![r] = b]
              /\ cq' = [cq EXCEPT ![r] = "open"],
           UNCHANGED <<cleanup, taking, released, workVars, service, mode>>
    PROVE  ReservationInv'
<1>. USE DEF ReservationInv, bindVars, workVars, Materials
<1>0. mode = "none"
  BY DEF AcceptsReservations, StopSound
<1>1. ReservationTypes'
  BY SMTT(30) DEF ReservationTypes, Records
<1>2. WorkSound'
  <2>1. \A t \in QTasks : state[t] # "none" =>
            of[t] \in Reservations /\ ledger'[of[t]] # "none"
    BY DEF WorkSound, ReservationTypes
  <2>2. \A t \in holds : ledger'[of[t]] = "active"
    BY SMTT(30) DEF WorkSound, ReservationTypes, AccountedWhileActive
  <2>. QED BY <2>1, <2>2 DEF WorkSound, AccountedWhileActive
<1>3. BindingSound'
  <2>1. NoDowngrade'
    <3>1. \A t \in QTasks : carried[t] = "fallback" => of[t] \in Reservations /\ of[t] # r
      BY DEF WorkSound, Started, Ended
    <3>. QED BY <3>1, ZenonT(60) DEF BindingSound, NoDowngrade, ReservationTypes
  <2>2. EndedLeavesNothing'
    BY SMTT(30) DEF BindingSound, EndedLeavesNothing, ReservationTypes
  <2>3. \A q \in Reservations :
           /\ ledger'[q] = "none" =>
                 /\ bound'[q] = "none" /\ metadata'[q] = "none"
                 /\ credential'[q] = "none" /\ q \notin granted'
           /\ credential'[q] \in Materials => bound'[q] = credential'[q]
           /\ credential'[q] = "fallback" => bound'[q] # "secret"
           /\ ledger'[q] = "active" /\ bound'[q] = "secret" => metadata'[q] = "secret"
    BY SMTT(30) DEF BindingSound, ReservationTypes
  <2>. QED BY <2>1, <2>2, <2>3 DEF BindingSound
<1>4. InOnePlace'
  <2>1. ASSUME NEW q \in Reservations, Given(q)
        PROVE  Given(q)' /\ q # r /\ bound'[q] = bound[q] /\ credential'[q] = credential[q]
    BY <1>0, <2>1 DEF Given, ReservationTypes
  <2>2. ASSUME NEW e \in Entries, e.rec \in Materials, OnItsWay(e) PROVE OnItsWay(e)'
    BY <2>1, <2>2 DEF OnItsWay, Entries
  <2>. QED BY <2>1, <2>2 DEF InOnePlace, ReservationTypes
<1>5. StopSound'
  BY <1>0 DEF StopSound
<1>. QED BY <1>1, <1>2, <1>3, <1>4, <1>5

\* A reservation that is granted.
LEMMA ReserveKeeps ==
    ASSUME ReservationInv, NEW m \in Materials, ReserveAdmission(m)
    PROVE  ReservationInv'
BY NextIdIsNew, GrantKeeps DEF ReserveAdmission, Materials, serviceVars, cleanupVars

\* A reservation whose binding is refused.
LEMMA RejectKeeps ==
    ASSUME ReservationInv, NEW out \in {"over", "active"}, RejectBinding(out)
    PROVE  ReservationInv'
BY NextIdIsNew, GrantKeeps DEF RejectBinding, serviceVars, cleanupVars

\* A credential handed out, made on the spot or not, is one its reservation
\* may use.
LEMMA HandOutGives ==
    ASSUME ReservationInv, NEW r \in Reservations, HandOut(r)
    PROVE  /\ credential' \in [Reservations -> Records]
           /\ credential'[r] # "none"
           /\ credential'[r] = "fallback" => bound[r] # "secret"
           /\ \A q \in Reservations :
                 \/ credential'[q] = credential[q]
                 \/ /\ q = r /\ credential[q] = "none" /\ credential'[q] = "fallback"
                    /\ bound[q] # "secret"
BY ZenonT(60) DEF ReservationInv, HandOut, MayFallBack, BindingSound, ReservationTypes,
       Records, Lapsed

\* A task that is checked, or sent out, with what its reservation has.
LEMMA HandOutKeeps ==
    ASSUME ReservationInv, NEW t \in QTasks, state[t] \in {"validated", "SELECTED"},
           HandOut(of[t]),
           \/ /\ state' = [state EXCEPT ![t] = "checked"]
              /\ state[t] = "validated" /\ UNCHANGED carried
           \/ /\ carried' = [carried EXCEPT ![t] = credential'[of[t]]]
              /\ state[t] = "SELECTED" /\ UNCHANGED state,
           UNCHANGED <<of, holds, pending, inflight, known, ledger, granted, bound,
                       metadata, cq, cleanup, taking, released, service, mode>>
    PROVE  ReservationInv'
<1>. USE DEF ReservationInv
<1>0. of[t] \in Reservations /\ ledger[of[t]] = "active"
  BY DEF WorkSound, HandOut
<1>1. /\ credential' \in [Reservations -> Records]
      /\ credential'[of[t]] # "none"
      /\ credential'[of[t]] = "fallback" => bound[of[t]] # "secret"
      /\ \A q \in Reservations :
            \/ credential'[q] = credential[q]
            \/ /\ q = of[t] /\ credential[q] = "none" /\ credential'[q] = "fallback"
               /\ bound[q] # "secret"
  BY <1>0, HandOutGives
<1>2. ReservationTypes'
  BY <1>0, <1>1, SMTT(30) DEF ReservationTypes, Records
<1>3. WorkSound'
  BY SMTT(30) DEF WorkSound, ReservationTypes, AccountedWhileActive, Started, Ended
<1>4. NoDowngrade'
  BY <1>0, <1>1, SMTT(30) DEF BindingSound, NoDowngrade, ReservationTypes
<1>5. EndedLeavesNothing'
  BY <1>0, <1>1 DEF BindingSound, EndedLeavesNothing, ReservationTypes
<1>6. BindingSound'
  BY <1>0, <1>1, <1>4, <1>5 DEF BindingSound, Materials
<1>7. InOnePlace'
  <2>1. \A q \in Reservations :
            credential[q] \notin Materials => credential'[q] \notin Materials
    BY <1>1 DEF Materials
  <2>2. ASSUME NEW e \in Entries, OnItsWay(e) PROVE OnItsWay(e)'
    BY <2>1, <2>2 DEF OnItsWay, Entries, Given
  <2>. QED BY <2>1, <2>2 DEF InOnePlace, ReservationTypes, Given
<1>8. StopSound'
  BY <1>1 DEF StopSound, Materials
<1>. QED BY <1>2, <1>3, <1>6, <1>7, <1>8

\* What the library answers about usage becomes a hold of an active
\* reservation's task only.
LEMMA AnswerKeeps ==
    ASSUME ReservationInv, NEW t \in QTasks, NEW a \in {"accepted", "delayed", "rejected"},
           t \in known, NEW d \in {"PENDING", state[t]}, UsageAnswer(t, a, d),
           pending' \subseteq pending \cup {t}
    PROVE  ReservationInv'
<1>. USE DEF ReservationInv
<1>0. /\ UNCHANGED <<of, inflight, known, carried, ledger, granted, bound, bindVars,
                     cleanup, taking, released, service, mode>>
      /\ \A u \in holds' : u \in holds \/ (u = t /\ ledger[of[t]] = "active")
      /\ holds \subseteq holds' /\ (a = "accepted" => t \in holds')
  BY DEF UsageAnswer, Answers, ledgerVars, cleanupVars, serviceVars
<1>1. state[t] \in Started /\ t \in DOMAIN state
  BY DEF WorkSound, ReservationTypes
<1>2. PICK s \in Started : /\ state' = [state EXCEPT ![t] = s]
                           /\ s \in {"HELD", "SELECTED"} => a = "accepted" \/ s = state[t]
  <2>1. CASE a = "accepted"
    BY <2>1 DEF UsageAnswer, Started
  <2>2. CASE a = "delayed"
    BY <1>1, <2>2 DEF UsageAnswer, Started, Ended
  <2>3. CASE a = "rejected"
    BY <2>3, SMTT(30) DEF UsageAnswer, Started, Ended
  <2>. QED BY <2>1, <2>2, <2>3
<1>3. state' \in [QTasks -> {"none", "validated", "checked"} \cup Started]
  BY <1>2 DEF ReservationTypes
<1>4. WorkSound'
  <2>1. /\ inflight' \subseteq holds' /\ holds' \subseteq known'
        /\ pending' \subseteq known' /\ AccountedWhileActive'
    BY <1>0 DEF WorkSound, AccountedWhileActive
  <2>2. ASSUME NEW u \in QTasks
        PROVE  /\ state'[u] # "none" => of'[u] \in Reservations /\ ledger'[of'[u]] # "none"
               /\ u \in known' \/ carried'[u] # "none" => state'[u] \in Started
               /\ u \in known' /\ state'[u] \in {"HELD", "SELECTED"} => u \in holds'
    BY <1>0, <1>1, <1>2 DEF WorkSound, ReservationTypes, Started, Ended
  <2>. QED BY <2>1, <2>2 DEF WorkSound
<1>. QED BY <1>0, <1>3, <1>4, OnlyTasksChange DEF ReservationTypes

\* A task's step that changes its own state, and its hold only by giving it up
\* together with its place at the provider.
LEMMA MoveKeeps ==
    ASSUME ReservationInv, NEW t \in QTasks,
           NEW s \in {"none", "validated", "checked"} \cup Started,
           state' = [state EXCEPT ![t] = s],
           inflight' \subseteq holds', holds' \subseteq holds, known' \subseteq QTasks,
           \A u \in QTasks \ {t} : /\ u \in holds <=> u \in holds'
                                   /\ u \in known' => u \in known,
           holds' \subseteq known', pending' \subseteq known',
           s # "none" => of[t] \in Reservations /\ ledger[of[t]] # "none",
           t \in known' \/ carried[t] # "none" => s \in Started,
           t \in known' /\ s \in {"HELD", "SELECTED"} => t \in holds',
           UNCHANGED <<of, carried, ledger, granted, bound, bindVars, cleanup, taking,
                       released, service, mode>>
    PROVE  ReservationInv'
<1>. USE DEF ReservationInv
<1>1. state' \in [QTasks -> {"none", "validated", "checked"} \cup Started]
  BY DEF ReservationTypes
<1>2. WorkSound'
  <2>1. AccountedWhileActive'
    BY DEF WorkSound, AccountedWhileActive
  <2>2. ASSUME NEW u \in QTasks
        PROVE  /\ state'[u] # "none" => of'[u] \in Reservations /\ ledger'[of'[u]] # "none"
               /\ u \in known' \/ carried'[u] # "none" => state'[u] \in Started
               /\ u \in known' /\ state'[u] \in {"HELD", "SELECTED"} => u \in holds'
    <3>1. CASE u = t
      BY <3>1 DEF ReservationTypes
    <3>2. CASE u # t
      BY <3>2 DEF WorkSound, ReservationTypes
    <3>. QED BY <3>1, <3>2
  <2>. QED BY <2>1, <2>2 DEF WorkSound
<1>. QED BY <1>1, <1>2, OnlyTasksChange DEF ReservationTypes

\* Every step of a task.
LEMMA TaskStepKeeps ==
    ASSUME ReservationInv, NEW t \in QTasks, TaskStep(t)
    PROVE  ReservationInv'
<1>. USE DEF ReservationInv, ledgerVars, bindVars, cleanupVars, serviceVars, closeVars
<1>0. /\ \A u \in QTasks :
            /\ state[u] # "none" => of[u] \in Reservations /\ ledger[of[u]] # "none"
            /\ u \in known \/ carried[u] # "none" => state[u] \in Started
            /\ u \in known /\ state[u] \in {"HELD", "SELECTED"} => u \in holds
      /\ inflight \subseteq holds /\ holds \subseteq known /\ known \subseteq QTasks
      /\ pending \subseteq known
      /\ {"none", "validated", "checked"} \cap Started = {}
  BY DEF WorkSound, ReservationTypes, Started, Ended
<1>1. ASSUME NEW c, NEW r \in Reservations, ValidateReservation(c, t, r)
      PROVE  ReservationInv'
  <2>1. CASE FindExpired(c, r)
    BY <2>1, FindExpiredKeeps
  <2>2. CASE ~FindExpired(c, r)
    <3>1. /\ state[t] = "none" /\ ledger[r] = "active"
          /\ state' = [state EXCEPT ![t] = "validated"] /\ of' = [of EXCEPT ![t] = r]
          /\ UNCHANGED <<holds, pending, inflight, known, carried, ledger, granted, bound,
                         bindVars, cleanup, taking, released, service, mode>>
      BY <1>1, <2>2 DEF ValidateReservation
    <3>2. t \notin known /\ t \notin holds /\ carried[t] = "none"
      BY <1>0, <3>1
    <3>3. /\ state' \in [QTasks -> {"none", "validated", "checked"} \cup Started]
          /\ DOMAIN of' = QTasks
          /\ \A u \in QTasks : carried[u] # "none" => of'[u] = of[u]
      BY <3>1, <3>2 DEF ReservationTypes
    <3>4. WorkSound'
      BY <1>0, <3>1, <3>2 DEF WorkSound, ReservationTypes, AccountedWhileActive
    <3>. QED BY <3>1, <3>3, <3>4, OnlyTasksChange DEF ReservationTypes
  <2>. QED BY <2>1, <2>2
<1>2. ASSUME NEW c, CheckCredential(c, t) PROVE ReservationInv'
  <2>1. CASE FindExpired(c, of[t])
    BY <2>1, FindExpiredKeeps
  <2>2. CASE ~FindExpired(c, of[t])
    BY <1>2, <2>2, HandOutKeeps DEF CheckCredential
  <2>. QED BY <2>1, <2>2
<1>3. CASE TurnAway(t)
  BY <1>0, <1>3, MoveKeeps DEF TurnAway
<1>4. CASE CreateCircuit(t)
  BY <1>0, <1>4, MoveKeeps DEF CreateCircuit, Started
<1>5. ASSUME NEW a \in {"accepted", "delayed", "rejected"}, AuthorizeCapacityHold(t, a)
      PROVE  ReservationInv'
  BY <1>5, AnswerKeeps DEF AuthorizeCapacityHold
<1>6. ASSUME NEW a \in {"accepted", "delayed", "rejected"}, NEW c,
             RetryPendingCapacity(c, t, a)
      PROVE  ReservationInv'
  <2>1. CASE FindExpired(c, of[t])
    BY <2>1, FindExpiredKeeps
  <2>2. CASE /\ t \in known /\ UsageAnswer(t, a, state[t])
             /\ pending' = IF a = "delayed" THEN pending ELSE pending \ {t}
    BY <2>2, AnswerKeeps
  <2>3. CASE /\ state' = IF state[t] \in Ended THEN state ELSE [state EXCEPT ![t] = "FAILED"]
             /\ UNCHANGED <<of, holds, inflight, handle, known, circuits,
                            carried, ledgerVars, bindVars, closeVars,
                            cleanupVars, serviceVars>>
             /\ t \in pending /\ pending' = pending \ {t}
    <3>1. CASE state[t] \in Ended
      BY <1>0, <2>3, <3>1, OnlyTasksChange DEF WorkSound, AccountedWhileActive, ReservationTypes
    <3>2. CASE state[t] \notin Ended
      BY <1>0, <2>3, <3>2, MoveKeeps DEF Started, Ended
    <3>. QED BY <3>1, <3>2
  <2>. QED BY <1>6, <2>1, <2>2, <2>3 DEF RetryPendingCapacity
<1>7. CASE SelectTask(t)
  BY <1>0, <1>7, MoveKeeps DEF SelectTask, Started
<1>8. ASSUME NEW c, AttachCredential(c, t) PROVE ReservationInv'
  <2>1. CASE FindExpired(c, of[t])
    BY <2>1, FindExpiredKeeps
  <2>2. CASE ~FindExpired(c, of[t])
    BY <1>8, <2>2, HandOutKeeps DEF AttachCredential
  <2>. QED BY <2>1, <2>2
<1>9. CASE StartSubmission(t)
  BY <1>0, <1>9, MoveKeeps DEF StartSubmission, MayStart, Started
<1>10. CASE BindHandle(t)
  <2>1. WorkSound'
    BY <1>10 DEF BindHandle, WorkSound, AccountedWhileActive
  <2>. QED BY <1>10, <2>1, OnlyTasksChange DEF BindHandle, ReservationTypes
<1>11. ASSUME NEW outcome \in {"COMPLETED", "FAILED"}, FinishTask(t, outcome)
       PROVE  ReservationInv'
  BY <1>0, <1>11, MoveKeeps DEF FinishTask, Started, Ended
<1>. QED BY <1>1, <1>2, <1>3, <1>4, <1>5, <1>6, <1>7, <1>8, <1>9, <1>10, <1>11
         DEF TaskStep

\* A reservation that the library ended by itself.
LEMMA ReconcileKeeps ==
    ASSUME ReservationInv, ReconcileRuntimeState PROVE ReservationInv'
<1>. DEFINE stale == {t \in holds : ledger[of[t]] # "active" /\ ~AtProvider(t)}
            gone == {t \in known \ circuits :
                        t \in pending \/ Set(state, stale, "FAILED")[t] \in Ended}
<1>. USE DEF ReservationInv
<1>1. /\ holds' = holds \ (stale \cup gone) /\ inflight' = inflight \ (stale \cup gone)
      /\ known' = known \ gone /\ pending' = {t \in pending : t \in known'}
      /\ state' = Set(state, stale, "FAILED")
      /\ UNCHANGED <<of, carried, ledgerVars, bindVars, cleanupVars, serviceVars>>
  BY DEF ReconcileRuntimeState
<1>2. stale = {}
  BY DEF WorkSound, AccountedWhileActive
<1>3. state' = state
  BY <1>1, <1>2 DEF Set, ReservationTypes
<1>4. WorkSound'
  BY <1>1, <1>2, <1>3 DEF WorkSound, AccountedWhileActive, ledgerVars
<1>. QED BY <1>1, <1>3, <1>4, OnlyTasksChange
         DEF ReservationTypes, ledgerVars, cleanupVars, serviceVars

\* A thread that takes the cleanup queue over.
LEMMA TakeKeeps ==
    ASSUME ReservationInv, NEW c \in Drainers, TakeCleanup(c) PROVE ReservationInv'
<1>. USE DEF ReservationInv
<1>1. /\ taking' = [taking EXCEPT ![c] = cleanup] /\ cleanup' = {}
      /\ UNCHANGED <<released, ledgerVars, bindVars, workVars, serviceVars>>
  BY DEF TakeCleanup, SwapQueue
<1>. USE DEF ledgerVars, bindVars, workVars, serviceVars
<1>2. ReservationTypes'
  BY <1>1 DEF ReservationTypes
<1>3. WorkSound' /\ BindingSound' /\ StopSound'
  BY <1>1 DEF WorkSound, BindingSound, StopSound, AccountedWhileActive, NoDowngrade,
              EndedLeavesNothing
<1>4. \A e : OnItsWay(e)' <=> OnItsWay(e)
  BY <1>1 DEF OnItsWay, Given
<1>5. \A d \in Drainers : taking'[d] = IF d = c THEN cleanup ELSE taking[d]
  BY <1>1 DEF ReservationTypes
<1>6. InOnePlace'
  BY <1>1, <1>4, <1>5, SMTT(30) DEF InOnePlace, Given
<1>. QED BY <1>2, <1>3, <1>6

\* A credential that is given back outside the lock.
LEMMA CleanKeeps ==
    ASSUME ReservationInv, NEW c \in Drainers, NEW e \in taking[c], CleanOne(c, e)
    PROVE  ReservationInv'
<1>. USE DEF ReservationInv
<1>1. /\ taking' = [taking EXCEPT ![c] = @ \ {e}]
      /\ UNCHANGED <<cleanup, ledgerVars, bindVars, workVars, serviceVars>>
      /\ e \in Entries
  BY DEF CleanOne, ReservationTypes
<1>. USE DEF ledgerVars, bindVars, workVars, serviceVars
<1>2. \A d \in Drainers : taking'[d] = IF d = c THEN taking[c] \ {e} ELSE taking[d]
  BY <1>1 DEF ReservationTypes
<1>3. WorkSound' /\ BindingSound' /\ StopSound'
  BY <1>1 DEF WorkSound, BindingSound, StopSound, AccountedWhileActive, NoDowngrade,
              EndedLeavesNothing
<1>4. CASE e.rec \notin Materials
  <2>1. released' = released
    BY <1>4 DEF CleanOne
  <2>2. ReservationTypes'
    BY <1>1, <2>1 DEF ReservationTypes
  <2>3. \A f : OnItsWay(f)' <=> OnItsWay(f)
    BY <1>1, <2>1 DEF OnItsWay, Given
  <2>4. InOnePlace'
    BY <1>1, <1>2, <2>1, <2>3, SMTT(30) DEF InOnePlace, Given
  <2>. QED BY <1>3, <2>2, <2>4
<1>5. CASE e.rec \in Materials
  <2>1. /\ OnItsWay(e) /\ e \notin cleanup /\ e.rsv \in Reservations
        /\ \A d \in Drainers : e \in taking[d] => d = c
    BY <1>1, <1>5 DEF InOnePlace, Entries
  <2>2. released' = [released EXCEPT ![e.rsv] = 1]
    BY <1>5, <2>1, SMTT(30) DEF CleanOne, OnItsWay, ReservationTypes
  <2>3. ReservationTypes'
    BY <1>1, <2>1, <2>2, SMTT(30) DEF ReservationTypes
  <2>4. ASSUME NEW f \in Entries, f.rec \in Materials, OnItsWay(f), f # e
        PROVE  OnItsWay(f)'
    <3>1. f.rsv # e.rsv
      BY <1>1, <1>5, <2>1, <2>4, SMTT(30) DEF OnItsWay, Entries
    <3>. QED BY <1>1, <2>2, <2>4, <3>1 DEF OnItsWay, Given, ReservationTypes, Entries
  <2>5. \A f \in cleanup : f \in Entries /\ f # e
    BY <2>1 DEF ReservationTypes
  <2>6. \A d \in Drainers : \A f \in taking'[d] : f \in taking[d] /\ f \in Entries /\ f # e
    BY <1>2, <2>1 DEF ReservationTypes
  <2>7. \A r \in Reservations :
            released'[r] > 0 => credential'[r] \notin Materials /\ Given(r)'
    BY <1>1, <2>1, <2>2, ZenonT(60) DEF InOnePlace, OnItsWay, Given, ReservationTypes
  <2>8. InOnePlace'
    BY <1>1, <1>2, <2>4, <2>5, <2>6, <2>7 DEF InOnePlace
  <2>. QED BY <1>3, <2>3, <2>8
<1>. QED BY <1>4, <1>5

\* Every step of a shutdown, in each of its modes.
LEMMA ShutdownKeeps ==
    ASSUME ReservationInv, service # "stopped", Shutdown PROVE ReservationInv'
<1>. USE DEF ReservationInv, ledgerVars, bindVars, cleanupVars, workVars
<1>1. ASSUME \/ \E how \in {"graceful", "timed", "cancel"} : BeginShutdown(how)
             \/ EndGrace
      PROVE  ReservationInv'
  <2>1. /\ UNCHANGED <<ledgerVars, bindVars, cleanupVars, workVars>>
        /\ service' \notin {"running", "stopped", "stopping"}
        /\ mode' \in {"graceful", "timed", "cancel", "cancelling"}
        /\ mode \notin {"clearing", "done"}
    BY <1>1 DEF BeginShutdown, EndGrace, StopSound
  <2>2. ReservationTypes' /\ WorkSound' /\ BindingSound'
    BY <2>1 DEF ReservationTypes, WorkSound, BindingSound, AccountedWhileActive,
                NoDowngrade, EndedLeavesNothing
  <2>3. InOnePlace' /\ StopSound'
    BY <2>1, ZenonT(60) DEF InOnePlace, OnItsWay, Given, StopSound
  <2>. QED BY <2>2, <2>3
<1>2. ASSUME NEW t \in QTasks, CancelActive(t) PROVE ReservationInv'
  <2>1. UNCHANGED <<ledgerVars, bindVars, cleanupVars, service, mode>>
    BY <1>2 DEF CancelActive
  <2>2. CASE UNCHANGED workVars
    <3>1. WorkSound'
      BY <2>1, <2>2 DEF WorkSound, AccountedWhileActive
    <3>. QED BY <2>1, <2>2, <3>1, OnlyTasksChange DEF ReservationTypes
  <2>3. CASE /\ t \in known /\ pending' = pending \ {t} /\ holds' = holds \ {t}
             /\ inflight' = inflight \ {t}
             /\ state' = [state EXCEPT ![t] = "CANCELLED"]
             /\ UNCHANGED <<of, handle, known, circuits, carried>>
    BY <2>1, <2>3, MoveKeeps DEF WorkSound, ReservationTypes, Started, Ended
  <2>. QED BY <1>2, <2>2, <2>3 DEF CancelActive
<1>3. CASE ClearCredentials
  <2>. DEFINE R == {r \in Reservations : credential[r] # "none"}
  <2>1. /\ RemoveCredentials(R) /\ mode' = "clearing" /\ service' = "stopping"
        /\ UNCHANGED <<ledgerVars, metadata, cq, taking, released, workVars>>
    BY <1>3 DEF ClearCredentials
  <2>2. \A r \in Reservations : Given(r)'
    BY <2>1 DEF Given
  <2>3. /\ credential' = [r \in Reservations |-> IF r \in R THEN "none" ELSE credential[r]]
        /\ cleanup' \subseteq Entries /\ InOnePlace'
    BY <2>1, <2>2, RemovalKeeps
  <2>4. \A r \in Reservations : credential'[r] = "none"
    BY <2>3
  <2>5. ReservationTypes'
    BY <2>1, <2>3 DEF ReservationTypes, Records
  <2>6. WorkSound'
    BY <2>1 DEF WorkSound, AccountedWhileActive
  <2>7. BindingSound'
    BY <2>1, <2>4 DEF BindingSound, NoDowngrade, EndedLeavesNothing, Materials,
                      ReservationTypes
  <2>8. StopSound'
    BY <2>1, <2>4 DEF StopSound, Materials
  <2>. QED BY <2>3, <2>5, <2>6, <2>7, <2>8
<1>4. CASE StopService
  <2>1. /\ UNCHANGED <<ledgerVars, bindVars, cleanupVars, workVars>>
        /\ service' = "stopped" /\ mode' = "done" /\ mode = "clearing"
    BY <1>4 DEF StopService
  <2>2. ReservationTypes' /\ WorkSound' /\ BindingSound'
    BY <2>1, ZenonT(60) DEF ReservationTypes, WorkSound, BindingSound, AccountedWhileActive,
                NoDowngrade, EndedLeavesNothing
  <2>3. InOnePlace' /\ StopSound'
    BY <2>1 DEF InOnePlace, OnItsWay, Given, StopSound
  <2>. QED BY <2>2, <2>3
<1>. QED BY <1>1, <1>2, <1>3, <1>4 DEF Shutdown

\* Every step of every thread keeps the invariant of the reservations.
LEMMA ReservationStep ==
    ReservationInv /\ [ReservationNext]_rvars => ReservationInv'
<1>. SUFFICES ASSUME ReservationInv, [ReservationNext]_rvars PROVE ReservationInv'
  OBVIOUS
<1>. USE DEF ledgerVars, bindVars, cleanupVars, workVars, serviceVars
<1>1. ASSUME UNCHANGED <<ledger, granted, bound, bindVars, cleanupVars, workVars,
                         service, mode>>
      PROVE  ReservationInv'
  <2>1. WorkSound'
    BY <1>1 DEF ReservationInv, WorkSound, AccountedWhileActive
  <2>. QED BY <1>1, <2>1, OnlyTasksChange DEF ReservationInv, ReservationTypes
<1>2. ASSUME NEW r \in Reservations, Lapse(r) \/ RenewAdmission(r) PROVE ReservationInv'
  BY <1>1, <1>2 DEF Lapse, RenewAdmission
<1>3. CASE ResumeScheduler
  BY <1>1, <1>3 DEF ResumeScheduler
<1>4. CASE UNCHANGED rvars
  BY <1>1, <1>4 DEF rvars
<1>5. CASE ReservationNext
  BY <1>2, <1>3, <1>5, ReserveKeeps, RejectKeeps, ReleaseKeeps, TaskStepKeeps,
     ReconcileKeeps, TakeKeeps, CleanKeeps, ShutdownKeeps
     DEF ReservationNext
<1>. QED BY <1>4, <1>5

\* So it holds throughout.
LEMMA ReservationInvariant == ReservationSpec => []ReservationInv
BY ReservationInitially, ReservationStep, PTL DEF ReservationSpec

\* However reservations lapse, are renewed, released, cancelled and swept
\* together, one ends in the library only when no task of its own holds usage.
THEOREM HoldsAreAccountedWhileActive == ReservationSpec => []AccountedWhileActive
<1>1. ReservationInv => AccountedWhileActive
  BY DEF ReservationInv, WorkSound
<1>. QED BY <1>1, ReservationInvariant, PTL

\* Whichever threads close, drain and shut down at once, a credential outlives
\* every run that carries it, is given back once and is in no map afterwards,
\* and no task of a reservation bound to a secret runs without it.
THEOREM CredentialsAreSound == ReservationSpec => []CredentialsSound
<1>1. ReservationInv => CredentialsSound
  <2>. SUFFICES ASSUME ReservationInv PROVE CredentialsSound
    OBVIOUS
  <2>. USE DEF ReservationInv
  <2>1. CredentialOutlivesUse
    <3>1. ASSUME NEW t \in inflight, released[of[t]] > 0
          PROVE  mode \in {"clearing", "done"}
      <4>1. t \in known /\ ledger[of[t]] = "active"
        BY <3>1 DEF WorkSound, AccountedWhileActive
      <4>2. of[t] \in Reservations
        BY <4>1 DEF WorkSound, ReservationTypes, Started, Ended
      <4>. QED BY <3>1, <4>1, <4>2 DEF InOnePlace, Given
    <3>. QED BY <3>1 DEF CredentialOutlivesUse
  <2>2. ReleasedOnce
    BY SMTT(30) DEF ReleasedOnce, ReservationTypes
  <2>3. EndedLeavesNothing /\ NoDowngrade
    BY DEF BindingSound
  <2>4. StoppedHoldsNoSecret
    BY DEF StopSound, StoppedHoldsNoSecret
  <2>. QED BY <2>1, <2>2, <2>3, <2>4 DEF CredentialsSound
<1>. QED BY <1>1, ReservationInvariant, PTL
=============================================================================
