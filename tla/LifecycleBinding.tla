--------------------------- MODULE LifecycleBinding ---------------------------
(***************************************************************************)
(* A client's managed binding to one QPM service                           *)
(* (service-apis/api_qpm_common, QPMLifecycleBinding).                     *)
(*                                                                         *)
(* The binding keeps the service record the directory last reported and    *)
(* one cached client per API.  Four kinds of thread work on it: application *)
(* threads that ask for a client (and connect on a miss), the event thread *)
(* that applies the directory's SERVICE_CONNECTED/DISCONNECTED callbacks,  *)
(* DEFw's worker that reports peers lost or ready, and the thread that     *)
(* binds to a directory (start(), then one recovery thread at a time).     *)
(* Every section the code runs under the binding's lock is one action.     *)
(*                                                                         *)
(* A service record is <<runtime, peer handle>>; a connection is           *)
(* <<runtime, epoch>>, dead once its runtime has exited or the link of its *)
(* epoch has been lost.  QPMd, directory and links are DEFw's (external).  *)
(***************************************************************************)
EXTENDS Naturals, Sequences, FiniteSets

CONSTANTS
    Clients,       \* application threads
    Apis,          \* API bindings of the service
    MaxRuntimes,   \* bound: QPMd processes
    MaxHandles,    \* bound: registrations in a directory
    MaxEpochs,     \* bound: losses of the direct connection
    MaxDirs        \* bound: directory processes

ASSUME BindingAssumption ==
    /\ "free" \notin Clients
    /\ MaxRuntimes \in Nat

None == <<0, 0>>

VARIABLES
    rt, drec, handle, epoch, dlife, subscribed,   \* the world (external)
    svcEvents, peerEvents,                        \* queues of DEFw callbacks
    bdir,       \* _directory: the directory process bound to, 0 when None
    bdirId,     \* _directory_runtime_id
    brec,       \* _service_record, None when unavailable
    bid,        \* <<_runtime_id, _peer_handle>>
    clients,    \* _clients: API |-> connection, or None
    binder,     \* the binding thread: [pc, dir, id, rec]
    connector,  \* holder of _connect_lock, or "free"
    call        \* application thread |-> [pc, api, want, snap, conn]

lvars == <<rt, drec, handle, epoch, dlife, subscribed, svcEvents, peerEvents,
           bdir, bdirId, brec, bid, clients, binder, connector, call>>

world   == <<rt, drec, handle, epoch, dlife>>
binding == <<bdir, bdirId, brec, bid, clients>>

Idle == [pc |-> "idle", api |-> "", want |-> 0, snap |-> None, conn |-> None]
Unbound == [pc |-> "off", dir |-> 0, id |-> 0, rec |-> None]

BindingInit ==
    /\ rt = 1 /\ drec = <<1, 1>> /\ handle = 1 /\ epoch = 1 /\ dlife = 1
    /\ subscribed = 0 /\ svcEvents = <<>> /\ peerEvents = <<>>
    /\ bdir = 0 /\ bdirId = 0 /\ brec = None /\ bid = None
    /\ clients = [a \in Apis |-> None]
    /\ binder = [Unbound EXCEPT !.pc = "bind", !.id = 1]
    /\ connector = "free"
    /\ call = [c \in Clients |-> Idle]

-----------------------------------------------------------------------------
\* The application's side: client(binding_name, expected_runtime_id).

\* _require_runtime_locked: the reservation's runtime is the bound one, and a
\* record is there.
RuntimeFits(want) == bid # None => bid[1] = want
Required(want) == RuntimeFits(want) /\ brec # None

Live(conn) == conn = <<rt, epoch>>

\* A first look in the cache; a miss goes on to connect.  The runtime is the
\* one the reservation was resolved for.
Ask(c, a, want) ==
    /\ call[c].pc = "idle"
    /\ Required(want)
    /\ call' = [call EXCEPT ![c] =
          IF clients[a] # None
          THEN [Idle EXCEPT !.api = a, !.want = want, !.conn = clients[a]]
          ELSE [Idle EXCEPT !.pc = "lock", !.api = a, !.want = want]]
    /\ UNCHANGED <<world, subscribed, svcEvents, peerEvents, binding, binder,
                   connector>>

\* Inside the connect lock: look again, and remember which runtime and peer
\* the connection is made for.
EnterUnlocked(c) ==
    /\ call[c].pc = "lock"
    /\ call' = [call EXCEPT ![c] =
          IF ~Required(@.want) THEN Idle
          ELSE IF clients[@.api] # None
          THEN [@ EXCEPT !.pc = "idle", !.conn = clients[call[c].api]]
          ELSE [@ EXCEPT !.pc = "connect", !.snap = brec]]
    /\ UNCHANGED <<world, subscribed, svcEvents, peerEvents, binding, binder,
                   connector>>

EnterConnect(c) ==
    /\ call[c].pc = "lock" /\ connector = "free"
    /\ call' = [call EXCEPT ![c] =
          IF ~Required(@.want) THEN Idle
          ELSE IF clients[@.api] # None
          THEN [@ EXCEPT !.pc = "idle", !.conn = clients[call[c].api]]
          ELSE [@ EXCEPT !.pc = "connect", !.snap = brec]]
    /\ connector' = IF call'[c].pc = "connect" THEN c ELSE "free"
    /\ UNCHANGED <<world, subscribed, svcEvents, peerEvents, binding, binder>>

Leave(c) == connector' = IF connector = c THEN "free" ELSE connector

\* connect_to_binding: reaches the recorded runtime if it still runs.
Connect(c) ==
    /\ call[c].pc = "connect"
    /\ IF call[c].snap[1] = rt
       THEN call' = [call EXCEPT ![c].pc = "cache", ![c].conn = <<rt, epoch>>]
            /\ UNCHANGED connector
       ELSE call' = [call EXCEPT ![c] = Idle] /\ Leave(c)
    /\ UNCHANGED <<world, subscribed, svcEvents, peerEvents, binding, binder>>

\* The connection is cached only if the binding is still to the same runtime
\* and peer.
CacheUnchecked(c) ==
    /\ call[c].pc = "cache"
    /\ clients' = [clients EXCEPT ![call[c].api] =
                     IF @ = None THEN call[c].conn ELSE @]
    /\ call' = [call EXCEPT ![c].pc = "idle", ![c].snap = None,
                            ![c].conn = clients'[call[c].api]]
    /\ Leave(c)
    /\ UNCHANGED <<world, subscribed, svcEvents, peerEvents, bdir, bdirId, brec,
                   bid, binder>>

Cache(c) ==
    /\ call[c].pc = "cache"
    /\ IF Required(call[c].want) /\ bid = call[c].snap
       THEN /\ clients' = [clients EXCEPT ![call[c].api] =
                             IF @ = None THEN call[c].conn ELSE @]
            /\ call' = [call EXCEPT ![c].pc = "idle", ![c].snap = None,
                                    ![c].conn = clients'[call[c].api]]
       ELSE call' = [call EXCEPT ![c] = Idle] /\ UNCHANGED clients
    /\ Leave(c)
    /\ UNCHANGED <<world, subscribed, svcEvents, peerEvents, bdir, bdirId, brec,
                   bid, binder>>

\* The application has used what it was given.
Forget(c) ==
    /\ call[c].pc = "idle" /\ call[c] # Idle
    /\ call' = [call EXCEPT ![c] = Idle]
    /\ UNCHANGED <<world, subscribed, svcEvents, peerEvents, binding, binder,
                   connector>>

-----------------------------------------------------------------------------
\* The binding thread: start(), or _recover_directory after a PEER_READY.

\* _bind_directory takes the directory DEFw now has, under the runtime id it
\* was started with.
Bind ==
    /\ binder.pc = "bind"
    /\ binder' = [binder EXCEPT !.pc = "register", !.dir = dlife]
    /\ bdir' = dlife /\ bdirId' = binder.id
    /\ UNCHANGED <<world, subscribed, svcEvents, peerEvents, brec, bid, clients,
                   connector, call>>

\* A failed attempt is repeated until the deadline; the callbacks it had
\* registered are taken back.
BindFails ==
    /\ \/ binder' = [binder EXCEPT !.pc = "bind", !.dir = 0, !.rec = None]
       \/ binder' = Unbound
    /\ subscribed' = IF binder.pc = "resolve" /\ binder.dir = dlife
                     THEN subscribed - 1 ELSE subscribed
    /\ UNCHANGED <<world, svcEvents, peerEvents, binding, connector, call>>

BindRegister ==
    /\ binder.pc = "register"
    /\ IF binder.dir = dlife
       THEN /\ subscribed' = subscribed + 1
            /\ binder' = [binder EXCEPT !.pc = "resolve"]
            /\ UNCHANGED <<world, svcEvents, peerEvents, binding, connector, call>>
       ELSE BindFails

BindResolve ==
    /\ binder.pc = "resolve"
    /\ IF binder.dir = dlife /\ drec # None
       THEN /\ binder' = [binder EXCEPT !.pc = "check", !.rec = drec]
            /\ UNCHANGED <<world, subscribed, svcEvents, peerEvents, binding,
                           connector, call>>
       ELSE BindFails

\* The directory is still the one bound to: keep the registrations.  If not,
\* the attempt fails without taking its callbacks back.
BindCheck ==
    /\ binder.pc = "check"
    /\ IF bdir = binder.dir
       THEN binder' = [binder EXCEPT !.pc = "install"]
       ELSE \/ binder' = [binder EXCEPT !.pc = "bind", !.dir = 0, !.rec = None]
            \/ binder' = Unbound
    /\ UNCHANGED <<world, subscribed, svcEvents, peerEvents, binding, connector,
                   call>>

\* _install_service_record, for the resolved record ...
BindInstall ==
    /\ binder.pc = "install"
    /\ brec' = binder.rec /\ bid' = binder.rec /\ bdirId' = binder.id
    /\ clients' = [a \in Apis |-> None]
    /\ binder' = Unbound
    /\ UNCHANGED <<world, subscribed, svcEvents, peerEvents, bdir, connector, call>>

-----------------------------------------------------------------------------
\* The event thread: _handle_service_event.

\* ... and for the record of a SERVICE_CONNECTED; a SERVICE_DISCONNECTED drops
\* the record only if it names the bound runtime and peer.  Events of another
\* directory than the one bound to are ignored.
HandleServiceEvent ==
    /\ svcEvents # <<>>
    /\ LET e == Head(svcEvents)
           ours == bdirId = 0 \/ e.dir = bdirId IN
       IF ours /\ e.type = "connected"
       THEN /\ brec' = e.rec /\ bid' = e.rec /\ bdirId' = e.dir
            /\ clients' = [a \in Apis |-> None]
       ELSE IF ours /\ e.rec = bid
       THEN /\ brec' = None /\ clients' = [a \in Apis |-> None]
            /\ UNCHANGED <<bid, bdirId>>
       ELSE UNCHANGED <<brec, bid, bdirId, clients>>
    /\ svcEvents' = Tail(svcEvents)
    /\ UNCHANGED <<world, subscribed, peerEvents, bdir, binder, connector, call>>

\* DEFw's worker: _handle_peer_event.  The loss of the QPM's own peer drops
\* the cached clients; the loss of the directory drops everything it told;
\* a directory that is ready starts a recovery unless one is running.
HandlePeerEvent ==
    /\ peerEvents # <<>>
    /\ LET e == Head(peerEvents) IN
       \/ /\ e.type = "qpm-lost"
          /\ clients' = IF e.id = bid[1] THEN [a \in Apis |-> None] ELSE clients
          /\ UNCHANGED <<bdir, bdirId, brec, bid, binder>>
       \/ /\ e.type = "dir-lost"
          /\ IF bdirId # 0 /\ bdirId # e.id
             THEN UNCHANGED <<bdir, brec, clients>>
             ELSE bdir' = 0 /\ brec' = None /\ clients' = [a \in Apis |-> None]
          /\ UNCHANGED <<bdirId, bid, binder>>
       \/ /\ e.type = "dir-ready"
          /\ binder' = IF binder.pc = "off"
                       THEN [Unbound EXCEPT !.pc = "bind", !.id = e.id] ELSE binder
          /\ UNCHANGED binding
    /\ peerEvents' = Tail(peerEvents)
    /\ UNCHANGED <<world, subscribed, svcEvents, connector, call>>

-----------------------------------------------------------------------------
\* The world: QPMd exits, restarts or re-registers; its direct connection to
\* the client drops; the directory restarts and forgets records and callbacks.

\* One callback for each registration the client holds.
Notify(type, rec) ==
    svcEvents' = svcEvents \o [i \in 1 .. subscribed |->
                                 [type |-> type, rec |-> rec, dir |-> dlife]]

RecordRemoved ==
    /\ drec # None
    /\ drec' = None
    /\ Notify("disconnected", drec)
    /\ UNCHANGED <<rt, handle, epoch, dlife, subscribed, peerEvents, binding,
                   binder, connector, call>>

Registers ==
    /\ drec = None /\ handle < MaxHandles
    /\ rt' \in {rt} \cup (IF rt < MaxRuntimes THEN {rt + 1} ELSE {})
    /\ handle' = handle + 1
    /\ drec' = <<rt', handle'>>
    /\ Notify("connected", drec')
    /\ UNCHANGED <<epoch, dlife, subscribed, peerEvents, binding, binder,
                   connector, call>>

ConnectionLost ==
    /\ epoch < MaxEpochs
    /\ epoch' = epoch + 1
    /\ peerEvents' = Append(peerEvents, [type |-> "qpm-lost", id |-> rt])
    /\ UNCHANGED <<rt, drec, handle, dlife, subscribed, svcEvents, binding,
                   binder, connector, call>>

DirectoryRestarted ==
    /\ dlife < MaxDirs
    /\ dlife' = dlife + 1
    /\ drec' = None /\ subscribed' = 0
    /\ peerEvents' = peerEvents \o << [type |-> "dir-lost", id |-> dlife],
                                      [type |-> "dir-ready", id |-> dlife'] >>
    /\ UNCHANGED <<rt, handle, epoch, svcEvents, binding, binder, connector, call>>

Binder == Bind \/ BindRegister \/ BindResolve \/ BindCheck \/ BindInstall

Caller(c) ==
    \/ \E a \in Apis, w \in 1 .. MaxRuntimes : Ask(c, a, w)
    \/ EnterConnect(c) \/ Connect(c) \/ Cache(c) \/ Forget(c)

BindingNext ==
    \/ Binder \/ HandleServiceEvent \/ HandlePeerEvent
    \/ \E c \in Clients : Caller(c)
    \/ RecordRemoved \/ Registers \/ ConnectionLost \/ DirectoryRestarted

BindingSpec == BindingInit /\ [][BindingNext]_lvars

-----------------------------------------------------------------------------

\* A client handed out under a reservation is a connection to the very QPMd
\* process that granted it, whatever restarts while it is looked up, connected
\* or cached (client(), _require_runtime_locked, _install_service_record).
HandedOutMatches ==
    \A c \in Clients :
        call[c].pc = "idle" /\ call[c].conn # None => call[c].conn[1] = call[c].want

\* Threads that miss the cache together make one connection: no two of them
\* are in connect_to_binding at once (the connect lock, QFw#176).
OneConnects ==
    \A c, d \in Clients :
        call[c].pc \in {"connect", "cache"} /\ call[d].pc \in {"connect", "cache"}
            => c = d

\* The threads of a program share one connection, to the process that granted
\* their reservation.
ConnectionsMatch ==
    HandedOutMatches /\ OneConnects
=============================================================================
