------------------------- MODULE ProviderCredentials -------------------------
(***************************************************************************)
(* Whose credential a reservation runs with (services/util/device_access.py,*)
(* services/util/qpm/credentials.py, and the IQM client cache of           *)
(* services/svc_iqm_qpm/util_iqm.py).                                      *)
(*                                                                         *)
(* reserve_admission checks a credential, asks the admission core, and     *)
(* binds the credential; each of the two reads the device-access file and  *)
(* the credential database anew, and a site may edit both in between.  A   *)
(* job outside a reservation resolves its device by itself, from the same  *)
(* files.  Both ways are written here as they are in the code, one on      *)
(* select_qpu and select_user_record, so that they can be compared.        *)
(***************************************************************************)
EXTENDS Naturals, FiniteSets, Sequences, SequencesExt

CONSTANTS
    Configs,       \* device-access files: [qpus, providers], where
                   \* qpus is a sequence of [id, maker, pdev, aliases, db, ref]
                   \* and providers maps a name to [type, db, path]
    StartDb,       \* database |-> user |-> [enabled, devices], where devices
                   \* maps a device to [enabled, key]
    Handles,       \* database |-> credential handle |-> user
    Requests,      \* [user, handle, hint, device, maker, required]
    ServiceRequest, \* what the service itself asks for, outside a reservation
    MaxBound,      \* bound: reservations
    MaxEdits,      \* bound: edits of the files
    NotGiven

VARIABLES
    config,    \* the device-access file
    db,        \* the credential databases
    edits,
    bindState, \* reservation |-> "none", "checked", "bound", "refused", "closed"
    ask,       \* reservation |-> its request
    bond,      \* reservation |-> the bound credential
    iqmClients, \* IQMServiceClient._clients: cache key |-> credential
    used       \* reservation |-> credential its last circuit ran with

pcvars == <<config, db, edits, bindState, ask, bond, iqmClients, used>>

Held == 1 .. MaxBound
Refused == [user |-> NotGiven, key |-> 0, kind |-> "refused"]
NoSecret == [user |-> NotGiven, key |-> 0, kind |-> "none"]

CredentialsInit ==
    /\ config \in Configs
    /\ db = StartDb
    /\ edits = 0
    /\ bindState = [r \in Held |-> "none"]
    /\ ask \in [Held -> Requests]
    /\ bond = [r \in Held |-> Refused]
    /\ iqmClients = [r \in Held |-> Refused]
    /\ used = [r \in Held |-> Refused]

FirstThat(s, Test(_)) ==
    IF \E i \in DOMAIN s : Test(s[i])
    THEN <<s[CHOOSE i \in DOMAIN s : Test(s[i]) /\ \A j \in 1 .. i - 1 : ~Test(s[j])]>>
    ELSE <<>>

-----------------------------------------------------------------------------
(* device_access.py                                                        *)

Given(a, b) == IF a # NotGiven THEN a ELSE b

\* select_qpu: the device when none is named, the only one of its maker
OnlyDevice(c, maker) ==
    LET ours == SelectSeq(c.qpus, LAMBDA q : maker \in {NotGiven, q.maker})
    IN IF Len(ours) = 1 THEN ours ELSE <<>>

\* select_qpu: the device by its id, else by another name of it
NamedDevice(c, name) ==
    LET exact == FirstThat(c.qpus, LAMBDA q : q.id = name)
    IN IF exact # <<>> THEN exact
       ELSE FirstThat(c.qpus, LAMBDA q : name = q.pdev \/ name \in q.aliases)

\* _credential_provider_config: a name that is not defined is a file provider.
ProviderOf(c, q) ==
    IF q.ref \in DOMAIN c.providers THEN c.providers[q.ref]
    ELSE [type |-> "file", db |-> NotGiven, path |-> NotGiven]

\* Seeded fault: the database of a named credential provider is not looked up.
SelectedDbOwn(c, q) == q.db

\* select_qpu: the database a selected device comes with
SelectedDb(c, q) == Given(q.db, Given(ProviderOf(c, q).db, ProviderOf(c, q).path))

\* select_qpu: <<>> or the device
SelectQpu(c, maker, name) ==
    LET found == IF name = NotGiven THEN OnlyDevice(c, maker) ELSE NamedDevice(c, name)
    IN SelectSeq(found, LAMBDA q : /\ maker \in {NotGiven, q.maker}
                                   /\ {q.db, q.ref} # {NotGiven})

\* Seeded fault: an entry counts for a user who is switched off.
EntitledEntryAnyUser(record, q) ==
    FirstThat(<<q.id, q.pdev>>, LAMBDA k : k \in DOMAIN record.devices)

\* _entitled_device_record: the first entry found decides, even against itself.
EntitledEntry(record, q) ==
    IF ~record.enabled THEN <<>>
    ELSE SelectSeq(FirstThat(<<q.id, q.pdev>>, LAMBDA k : k \in DOMAIN record.devices),
                   LAMBDA k : record.devices[k].enabled)

\* get_api_key_from_user_record; 0 is a missing or empty key
ApiKey(record, q) ==
    IF EntitledEntry(record, q) = <<>> THEN 0
    ELSE record.devices[Head(EntitledEntry(record, q))].key

\* _credential_record_candidates: whose record may be used, in order
RecordCandidates(d, a) ==
    LET byHandle == IF a.handle \in DOMAIN Handles[d] THEN Handles[d][a.handle]
                    ELSE NotGiven
    IN SelectSeq(<<byHandle, a.hint, a.handle, a.user>>, LAMBDA u : u \in DOMAIN db[d])

\* select_user_record
SelectUserRecord(d, a, q) ==
    FirstThat(RecordCandidates(d, a), LAMBDA u : ApiKey(db[d][u], q) # 0)

\* select_entitled_record
SelectEntitledRecord(d, a, q) ==
    FirstThat(RecordCandidates(d, a), LAMBDA u : EntitledEntry(db[d][u], q) # <<>>)

KeyFrom(d, a, q) ==
    LET u == SelectUserRecord(d, a, q) IN
    IF u = <<>> THEN Refused
    ELSE [user |-> Head(u), key |-> ApiKey(db[d][Head(u)], q), kind |-> "secret"]

EntitlementFrom(d, a, q) ==
    LET u == SelectEntitledRecord(d, a, q) IN
    IF u = <<>> THEN Refused ELSE [user |-> Head(u), key |-> 0, kind |-> "entitled"]

\* _credentials_without_a_database
WithoutDatabase(c, q) ==
    IF q.ref \in DOMAIN c.providers /\ ProviderOf(c, q).type = "no-secret" THEN NoSecret
    ELSE Refused

\* resolve_device_access, for a job outside a reservation
ResolveDeviceAccess(c, a) ==
    LET found == SelectQpu(c, a.maker, a.device)
        q == Head(found)
        d == SelectedDb(c, q)
    IN IF found = <<>> THEN Refused
       ELSE IF ProviderOf(c, q).type = "entitlement"
            THEN IF d = NotGiven THEN Refused ELSE EntitlementFrom(d, a, q)
       ELSE IF d = NotGiven THEN WithoutDatabase(c, q) ELSE KeyFrom(d, a, q)

-----------------------------------------------------------------------------
(* credentials.py                                                          *)

\* _selected_device: a maker that does not fit is dropped when a device is named.
SelectedDevice(c, a) ==
    LET found == SelectQpu(c, a.maker, a.device) IN
    IF found = <<>> /\ a.device # NotGiven THEN SelectQpu(c, NotGiven, a.device)
    ELSE found

\* FileCredentialProvider._credential_db_path
ProviderDb(c, q) == Given(ProviderOf(c, q).db, Given(ProviderOf(c, q).path, SelectedDb(c, q)))

\* provider_for_request with the provider's validate or bind.  A plugin provider
\* is the site's own code.
BindingFor(c, a) ==
    LET found == SelectedDevice(c, a)
        q == Head(found)
        d == ProviderDb(c, q)
        type == ProviderOf(c, q).type
    IN IF ~a.required THEN NoSecret
       ELSE IF found = <<>> \/ d = NotGiven THEN Refused
       ELSE IF type = "file" THEN KeyFrom(d, a, q)
       ELSE IF type = "entitlement" THEN EntitlementFrom(d, a, q)
       ELSE Refused

\* reserve_admission: validate_reservation_credential
CheckEligible(r) ==
    /\ bindState[r] = "none"
    /\ bindState' = [bindState EXCEPT ![r] =
           IF BindingFor(config, ask[r]) = Refused THEN "refused" ELSE "checked"]
    /\ UNCHANGED <<config, db, edits, ask, bond, iqmClients, used>>

\* ... and, once the core has accepted, _bind_provider_credential_locked. A
\* binding that fails gives the reservation back; the core may also reject.
BindCredential(r) ==
    /\ bindState[r] = "checked"
    /\ \/ LET b == BindingFor(config, ask[r]) IN
          /\ bindState' = [bindState EXCEPT ![r] = IF b = Refused THEN "refused" ELSE "bound"]
          /\ bond' = [bond EXCEPT ![r] = b]
       \/ bindState' = [bindState EXCEPT ![r] = "refused"] /\ UNCHANGED bond
    /\ UNCHANGED <<config, db, edits, ask, iqmClients, used>>

-----------------------------------------------------------------------------
(* util_iqm.py                                                             *)

\* Seeded fault: one client for all.
CacheKeyShared(r) == 1

\* _credential_cache_key: a circuit's credential names its reservation.
CacheKey(r) == r

\* load_iqm_service_config: the reservation's key, or the service's own when it
\* has none.  The endpoint and key of the process environment are left out.
ServiceConfig(r) ==
    IF bond[r].key # 0 THEN bond[r] ELSE ResolveDeviceAccess(config, ServiceRequest)

\* run_circuit: the client is cached before the circuit is built and submitted.
RunWithClient(r) ==
    /\ bindState[r] = "bound"
    /\ LET k == CacheKey(r)
           c == IF iqmClients[k] # Refused THEN iqmClients[k] ELSE ServiceConfig(r)
       IN /\ c # Refused
          /\ iqmClients' = [iqmClients EXCEPT ![k] = c]
          /\ used' = [used EXCEPT ![r] = c]
    /\ UNCHANGED <<config, db, edits, bindState, ask, bond>>

\* The reservation is closed and evict_reservation drops its client.
EvictClient(r) ==
    /\ bindState[r] = "bound"
    /\ bindState' = [bindState EXCEPT ![r] = "closed"]
    /\ bond' = [bond EXCEPT ![r] = Refused]
    /\ iqmClients' = [iqmClients EXCEPT ![CacheKey(r)] = Refused]
    /\ UNCHANGED <<config, db, edits, ask, used>>

-----------------------------------------------------------------------------
(* The site edits its files.                                               *)

EditDb ==
    /\ edits < MaxEdits
    /\ edits' = edits + 1
    /\ \E d \in DOMAIN db : \E u \in DOMAIN db[d] :
          \/ db' = [db EXCEPT ![d][u].enabled = ~@]
          \/ \E k \in DOMAIN db[d][u].devices :
                \/ db' = [db EXCEPT ![d][u].devices[k].enabled = ~@]
                \/ db' = [db EXCEPT ![d][u].devices[k].key = IF @ = 0 THEN 9 ELSE 0]
    /\ UNCHANGED <<config, bindState, ask, bond, iqmClients, used>>

EditConfig ==
    /\ edits < MaxEdits
    /\ edits' = edits + 1
    /\ config' \in Configs \ {config}
    /\ UNCHANGED <<db, bindState, ask, bond, iqmClients, used>>

CredentialsNext ==
    \/ \E r \in Held : CheckEligible(r)
    \/ \E r \in Held : BindCredential(r)
    \/ \E r \in Held : RunWithClient(r)
    \/ \E r \in Held : EvictClient(r)
    \/ EditDb
    \/ EditConfig

CredentialsSpec == CredentialsInit /\ [][CredentialsNext]_pcvars

-----------------------------------------------------------------------------
\* A key that is bound to a reservation stood, when it was bound, in an enabled
\* record and an enabled entry for the device that was asked for, and not only
\* when it was checked (_bind_provider_credential_locked after
\* validate_reservation_credential).
BoundIsEntitled ==
    [][\A r \in Held :
          (bond'[r] # bond[r] /\ bond'[r].key # 0) =>
              \E i \in DOMAIN config.qpus, d \in DOMAIN db :
                  LET q == config.qpus[i]
                      u == bond'[r].user
                  IN /\ ask[r].device \in {q.id, q.pdev, NotGiven} \cup q.aliases
                     /\ u \in DOMAIN db[d]
                     /\ db[d][u].enabled
                     /\ \E k \in {q.id, q.pdev} \cap DOMAIN db[d][u].devices :
                           /\ db[d][u].devices[k].enabled
                           /\ db[d][u].devices[k].key = bond'[r].key]_pcvars

\* For a device that names one source of credentials, a reservation and a job
\* outside one get the same credential, or are both turned away (select_qpu:
\* "every consumer sees one shape"; without it the latter found no database).
\* A no-secret provider is the exception: only the job outside may use it.
SameOutsideReservation ==
    \A r \in Held :
        LET found == SelectQpu(config, ask[r].maker, ask[r].device) IN
        (ask[r].required /\ found # <<>>) =>
            LET q == Head(found) IN
            ((q.db = NotGiven) # (q.ref = NotGiven) /\ ProviderOf(config, q).type # "no-secret")
              => BindingFor(config, ask[r]) = ResolveDeviceAccess(config, ask[r])

\* The circuits of a reservation with a key of its own run with that key.
RunsWithOwnKey ==
    \A r \in Held :
        (bindState[r] = "bound" /\ bond[r].key # 0) => used[r] \in {Refused, bond[r]}

\* From the check to the run, a reservation's circuits use the key its request
\* names, and no other.
KeysFollowReservation ==
    BoundIsEntitled /\ [](SameOutsideReservation /\ RunsWithOwnKey)
=============================================================================
