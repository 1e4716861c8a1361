---------------------------- MODULE ClientProofs ----------------------------
(***************************************************************************)
(* Proofs about the client side: the managed binding to one QPM service    *)
(* (LifecycleBinding), the batch of the Pulser connection                  *)
(* (PulserConnection) and the placements of the Backline QPM               *)
(* (BacklinePlacement).                                                    *)
(***************************************************************************)
EXTENDS LifecycleBinding, PulserConnection, BacklinePlacement, FiniteSetTheorems, TLAPS

-----------------------------------------------------------------------------
(* The managed binding.                                                    *)

Pairs == Nat \X Nat
CallSteps == {"idle", "lock", "connect", "cache"}
CallTypes == [pc : CallSteps, api : Apis \cup {""}, want : Nat, snap : Pairs, conn : Pairs]
BinderSteps == {"off", "bind", "register", "resolve", "check", "install"}
BinderTypes == [pc : BinderSteps, dir : Nat, id : Nat, rec : Pairs]
ServiceEvents == [type : {"connected", "disconnected"}, rec : Pairs, dir : Nat]
PeerEvents == [type : {"qpm-lost", "dir-lost", "dir-ready"}, id : Nat]

WorldTypes ==
    /\ rt \in Nat /\ drec \in Pairs /\ handle \in Nat /\ epoch \in Nat /\ dlife \in Nat
    /\ subscribed \in Nat
    /\ svcEvents \in Seq(ServiceEvents)
    /\ peerEvents \in Seq(PeerEvents)

BindingTypes ==
    /\ bdirId \in Nat /\ brec \in Pairs /\ bid \in Pairs
    /\ clients \in [Apis -> Pairs]
    /\ binder \in BinderTypes

CallsTyped ==
    /\ call \in [Clients -> CallTypes]
    /\ \A c \in Clients : call[c].pc # "idle" => call[c].api \in Apis

\* The callbacks the binding thread may take back are there.
SubscriptionHeld ==
    /\ binder.dir <= dlife
    /\ binder.pc = "resolve" /\ binder.dir = dlife => subscribed > 0

\* What is cached is a connection to the runtime the binding is to.
CacheMatches ==
    /\ brec # None => bid = brec
    /\ \A a \in Apis : clients[a] # None => bid # None /\ clients[a][1] = bid[1]

\* What a thread carries is of the runtime it looked up, or waits to be checked
\* against it.
CallMatches(c) ==
    /\ call[c].pc = "idle" /\ call[c].conn # None => call[c].conn[1] = call[c].want
    /\ call[c].pc = "cache" => call[c].conn[1] = call[c].snap[1]

\* Whoever connects holds the connect lock.
LockHeld ==
    \A c \in Clients : call[c].pc \in {"connect", "cache"} => connector = c

BindingInv ==
    /\ WorldTypes /\ BindingTypes /\ CallsTyped /\ SubscriptionHeld
    /\ CacheMatches /\ LockHeld
    /\ \A c \in Clients : CallMatches(c)

USE Zenon

\* The binding of a program that has just started is unbound, and no thread has
\* asked it for a client yet.
LEMMA BindingInitially == BindingInit => BindingInv
<1> SUFFICES ASSUME BindingInit PROVE BindingInv OBVIOUS
<1>1. WorldTypes
  BY SMTT(30) DEF BindingInit, WorldTypes, Pairs
<1>2. BindingTypes
  BY DEF BindingInit, BindingTypes, Pairs, BinderTypes, BinderSteps, Unbound, None
<1>3. CallsTyped
  BY DEF BindingInit, CallsTyped, CallTypes, CallSteps, Idle, None, Pairs
<1>4. SubscriptionHeld
  BY SMTT(30) DEF BindingInit, SubscriptionHeld, Unbound
<1>5. CacheMatches
  BY DEF BindingInit, CacheMatches
<1>6. LockHeld /\ \A c \in Clients : CallMatches(c)
  BY DEF BindingInit, LockHeld, CallMatches, Idle
<1> QED
  BY <1>1, <1>2, <1>3, <1>4, <1>5, <1>6 DEF BindingInv

\* A thread's own step, by what it leaves in its call and with the lock.
LEMMA CallUpdate ==
    ASSUME BindingInv, NEW c \in Clients, NEW r \in CallTypes,
           call' = [call EXCEPT ![c] = r],
           r.pc # "idle" => r.api \in Apis,
           r.pc = "idle" /\ r.conn # None => r.conn[1] = r.want,
           r.pc = "cache" => r.conn[1] = r.snap[1],
           r.pc \in {"connect", "cache"} => connector' = c,
           \A d \in Clients : d # c /\ connector = d => connector' = d
    PROVE  CallsTyped' /\ LockHeld' /\ \A d \in Clients : CallMatches(d)'
<1>1. call \in [Clients -> CallTypes] /\ \A d \in Clients : call[d].pc # "idle" => call[d].api \in Apis
  BY DEF BindingInv, CallsTyped
<1>2. /\ call' \in [Clients -> CallTypes]
      /\ call'[c] = r
      /\ \A d \in Clients : d # c => call'[d] = call[d]
  BY <1>1
<1>3. CallsTyped'
  BY <1>1, <1>2 DEF CallsTyped
<1>4. LockHeld'
  BY <1>2 DEF LockHeld, BindingInv
<1>5. ASSUME NEW d \in Clients PROVE CallMatches(d)'
  BY <1>2 DEF CallMatches, BindingInv
<1> QED
  BY <1>3, <1>4, <1>5

\* What is cached stays right while the binding stands and the cache only loses
\* connections.
LEMMA CacheLoses ==
    ASSUME CacheMatches, BindingTypes, UNCHANGED <<brec, bid>>,
           clients' \in {clients, [a \in Apis |-> None]}
    PROVE  CacheMatches' /\ clients' \in [Apis -> Pairs]
BY SMTT(30) DEF CacheMatches, BindingTypes, None, Pairs

\* A thread of the program keeps the invariant, wherever it is in client().
LEMMA CallerKeeps ==
    ASSUME BindingInv, NEW c \in Clients, Caller(c)
    PROVE  BindingInv'
<1> USE BindingAssumption
<1>t. /\ call \in [Clients -> CallTypes]
      /\ call[c] \in CallTypes
      /\ call[c].pc # "idle" => call[c].api \in Apis
  BY DEF BindingInv, CallsTyped
<1>p. /\ rt \in Nat /\ epoch \in Nat /\ brec \in Pairs /\ bid \in Pairs
      /\ clients \in [Apis -> Pairs]
      /\ None \in Pairs
  BY DEF BindingInv, WorldTypes, BindingTypes, None, Pairs
<1>i. Idle \in CallTypes /\ Idle.pc = "idle" /\ Idle.conn = None
  BY <1>p DEF Idle, CallTypes, CallSteps
<1>m. /\ brec # None => bid = brec
      /\ \A a \in Apis : clients[a] # None => bid # None /\ clients[a][1] = bid[1]
  BY DEF BindingInv, CacheMatches
<1>l. \A d \in Clients : call[d].pc \in {"connect", "cache"} => connector = d
  BY DEF BindingInv, LockHeld
<1>q. ASSUME UNCHANGED <<world, subscribed, svcEvents, peerEvents, binding, binder>>,
             CallsTyped' /\ LockHeld' /\ \A d \in Clients : CallMatches(d)'
      PROVE  BindingInv'
  <2>1. WorldTypes' /\ BindingTypes' /\ SubscriptionHeld' /\ CacheMatches'
    BY <1>q DEF BindingInv, world, binding, WorldTypes, BindingTypes, SubscriptionHeld,
       CacheMatches
  <2> QED
    BY <1>q, <2>1 DEF BindingInv
<1>1. ASSUME NEW a \in Apis, NEW w \in 1 .. MaxRuntimes, Ask(c, a, w) PROVE BindingInv'
  <2>1. PICK r : r = IF clients[a] # None
                     THEN [Idle EXCEPT !.api = a, !.want = w, !.conn = clients[a]]
                     ELSE [Idle EXCEPT !.pc = "lock", !.api = a, !.want = w]
    OBVIOUS
  <2>2. /\ call' = [call EXCEPT ![c] = r] /\ Required(w) /\ connector' = connector
        /\ UNCHANGED <<world, subscribed, svcEvents, peerEvents, binding, binder>>
    BY <1>1, <2>1 DEF Ask
  <2>w. w \in Nat
    BY SMTT(30)
  <2>3. r \in CallTypes
    BY <2>1, <2>w, <1>p DEF Idle, CallTypes, CallSteps
  <2>4. r.api = a /\ r.want = w /\ r.pc \in {"idle", "lock"}
    BY <2>1 DEF Idle
  <2>5. r.conn = clients[a]
    BY <2>1 DEF Idle
  <2>6. r.conn # None => r.conn[1] = r.want
    BY <2>2, <2>4, <2>5, <1>m DEF Required, RuntimeFits
  <2>7. CallsTyped' /\ LockHeld' /\ \A d \in Clients : CallMatches(d)'
    BY <2>2, <2>3, <2>4, <2>6, CallUpdate
  <2> QED
    BY <2>2, <2>7, <1>q
<1>2. ASSUME EnterConnect(c) PROVE BindingInv'
  <2>1. PICK r : r = IF ~Required(call[c].want) THEN Idle
                     ELSE IF clients[call[c].api] # None
                     THEN [call[c] EXCEPT !.pc = "idle", !.conn = clients[call[c].api]]
                     ELSE [call[c] EXCEPT !.pc = "connect", !.snap = brec]
    OBVIOUS
  <2>2. /\ call' = [call EXCEPT ![c] = r] /\ connector = "free" /\ call[c].pc = "lock"
        /\ connector' = IF call'[c].pc = "connect" THEN c ELSE "free"
        /\ UNCHANGED <<world, subscribed, svcEvents, peerEvents, binding, binder>>
    BY <1>2, <2>1, <1>t DEF EnterConnect
  <2>3. call[c].api \in Apis
    BY <2>2, <1>t
  <2>4. r \in CallTypes /\ r.pc \in {"idle", "connect"}
    BY <2>1, <2>3, <1>t, <1>p, <1>i DEF CallTypes, CallSteps
  <2>5. r.pc = "idle" /\ r.conn # None => r.conn[1] = r.want
    BY <2>1, <2>3, <1>t, <1>i, <1>m DEF Required, RuntimeFits, CallTypes
  <2>6. r.pc = "connect" => r.api \in Apis
    BY <2>1, <2>3, <1>t, <1>i DEF CallTypes
  <2>7. r.pc \in {"connect", "cache"} => connector' = c
    BY <2>2, <2>4, <1>t
  <2>8. \A d \in Clients : d # c /\ connector = d => connector' = d
    BY <2>2
  <2>9. CallsTyped' /\ LockHeld' /\ \A d \in Clients : CallMatches(d)'
    BY <2>2, <2>4, <2>5, <2>6, <2>7, <2>8, CallUpdate
  <2> QED
    BY <2>2, <2>9, <1>q
<1>3. ASSUME Connect(c) PROVE BindingInv'
  <2>1. /\ call[c].pc = "connect" /\ connector = c
        /\ UNCHANGED <<world, subscribed, svcEvents, peerEvents, binding, binder>>
    BY <1>3, <1>l DEF Connect
  <2>2. CASE call[c].snap[1] = rt
    <3>1. PICK r : r = [call[c] EXCEPT !.pc = "cache", !.conn = <<rt, epoch>>]
      OBVIOUS
    <3>2. call' = [call EXCEPT ![c] = r] /\ connector' = connector
      BY <1>3, <2>2, <3>1, <1>t DEF Connect
    <3>3. r \in CallTypes /\ r.pc = "cache" /\ r.api = call[c].api
      BY <3>1, <1>t, <1>p DEF CallTypes, CallSteps, Pairs
    <3>4. r.conn[1] = r.snap[1]
      BY <3>1, <2>2, <1>t DEF CallTypes
    <3>5. CallsTyped' /\ LockHeld' /\ \A d \in Clients : CallMatches(d)'
      BY <2>1, <3>2, <3>3, <3>4, <1>t, CallUpdate
    <3> QED
      BY <2>1, <3>5, <1>q
  <2>3. CASE call[c].snap[1] # rt
    <3>1. call' = [call EXCEPT ![c] = Idle]
      BY <1>3, <2>3 DEF Connect
    <3>2. \A d \in Clients : d # c /\ connector = d => connector' = d
      BY <2>1
    <3>3. CallsTyped' /\ LockHeld' /\ \A d \in Clients : CallMatches(d)'
      BY <3>1, <3>2, <1>i, CallUpdate
    <3> QED
      BY <2>1, <3>3, <1>q
  <2> QED
    BY <2>2, <2>3
<1>4. ASSUME Cache(c) PROVE BindingInv'
  <2>1. /\ call[c].pc = "cache" /\ connector = c
        /\ UNCHANGED <<world, subscribed, svcEvents, peerEvents, bdir, bdirId, brec,
                       bid, binder>>
    BY <1>4, <1>l DEF Cache
  <2>2. call[c].api \in Apis /\ call[c].conn[1] = call[c].snap[1] /\ call[c].conn \in Pairs
    BY <2>1, <1>t DEF BindingInv, CallMatches, CallTypes
  <2>3. \A d \in Clients : d # c /\ connector = d => connector' = d
    BY <2>1
  <2>4. CASE Required(call[c].want) /\ bid = call[c].snap
    <3>1. PICK a, n : a = call[c].api /\ n = IF clients[a] = None THEN call[c].conn ELSE clients[a]
      OBVIOUS
    <3>2. clients' = [clients EXCEPT ![a] = n] /\ n \in Pairs /\ a \in Apis
      BY <1>4, <2>2, <2>4, <3>1, <1>p DEF Cache
    <3>3. /\ clients' \in [Apis -> Pairs] /\ clients'[a] = n
          /\ \A b \in Apis : b # a => clients'[b] = clients[b]
      BY <3>2, <1>p
    <3>4. bid # None /\ bid[1] = call[c].want /\ (n # None => n[1] = bid[1])
      BY <2>2, <2>4, <3>1, <3>2, <1>m DEF Required, RuntimeFits
    <3>5. CacheMatches'
      BY <2>1, <3>3, <3>4, <1>m DEF CacheMatches
    <3>6. PICK r : r = [call[c] EXCEPT !.pc = "idle", !.snap = None, !.conn = n]
      OBVIOUS
    <3>7. call' = [call EXCEPT ![c] = r]
      BY <1>4, <2>4, <3>1, <3>3, <3>6, <1>t DEF Cache
    <3>8. r \in CallTypes /\ r.pc = "idle" /\ r.want = call[c].want /\ r.conn = n
      BY <3>2, <3>6, <1>t, <1>p DEF CallTypes, CallSteps
    <3>9. CallsTyped' /\ LockHeld' /\ \A d \in Clients : CallMatches(d)'
      BY <3>4, <3>7, <3>8, <2>3, CallUpdate
    <3>10. WorldTypes' /\ BindingTypes' /\ SubscriptionHeld'
      BY <2>1, <3>3 DEF BindingInv, world, WorldTypes, BindingTypes, SubscriptionHeld
    <3> QED
      BY <3>5, <3>9, <3>10 DEF BindingInv
  <2>5. CASE ~(Required(call[c].want) /\ bid = call[c].snap)
    <3>1. call' = [call EXCEPT ![c] = Idle] /\ clients' = clients
      BY <1>4, <2>5 DEF Cache
    <3>2. CallsTyped' /\ LockHeld' /\ \A d \in Clients : CallMatches(d)'
      BY <3>1, <2>3, <1>i, CallUpdate
    <3> QED
      BY <2>1, <3>1, <3>2, <1>q DEF binding
  <2> QED
    BY <2>4, <2>5
<1>5. ASSUME Forget(c) PROVE BindingInv'
  <2>1. /\ call' = [call EXCEPT ![c] = Idle] /\ connector' = connector
        /\ UNCHANGED <<world, subscribed, svcEvents, peerEvents, binding, binder>>
    BY <1>5 DEF Forget
  <2>2. CallsTyped' /\ LockHeld' /\ \A d \in Clients : CallMatches(d)'
    BY <2>1, <1>i, CallUpdate
  <2> QED
    BY <2>1, <2>2, <1>q
<1> QED
  BY <1>1, <1>2, <1>3, <1>4, <1>5 DEF Caller

\* The threads' side stands while nobody of them moves.
LEMMA CallsStay ==
    ASSUME BindingInv, UNCHANGED <<connector, call>>
    PROVE  CallsTyped' /\ LockHeld' /\ \A d \in Clients : CallMatches(d)'
BY DEF BindingInv, CallsTyped, LockHeld, CallMatches

\* A binding thread that rests is a binding thread.
LEMMA UnboundTyped ==
    /\ Unbound \in BinderTypes /\ Unbound.pc = "off" /\ Unbound.dir = 0
    /\ \A n \in Nat : [Unbound EXCEPT !.pc = "bind", !.id = n] \in BinderTypes
<1>1. None \in Pairs
  BY DEF None, Pairs
<1> QED
  BY <1>1 DEF BinderTypes, BinderSteps, Unbound

\* A failed attempt to bind takes back only a registration that is there.
LEMMA BindFailsKeeps ==
    ASSUME BindingInv, BindFails
    PROVE  BindingInv'
<1>1. CallsTyped' /\ LockHeld' /\ \A d \in Clients : CallMatches(d)'
  BY CallsStay DEF BindFails
<1>2. CacheMatches'
  BY DEF BindFails, BindingInv, CacheMatches, binding
<1>3. subscribed' \in Nat
  BY SMTT(30) DEF BindFails, BindingInv, WorldTypes, SubscriptionHeld
<1>4. binder \in BinderTypes /\ None \in Pairs
  BY DEF BindingInv, BindingTypes, None, Pairs
<1>5. binder' \in BinderTypes /\ binder'.pc # "resolve" /\ binder'.dir = 0
  <2>1. CASE binder' = Unbound
    BY <2>1, UnboundTyped
  <2>2. CASE binder' = [binder EXCEPT !.pc = "bind", !.dir = 0, !.rec = None]
    BY <1>4, <2>2 DEF BinderTypes, BinderSteps
  <2> QED
    BY <2>1, <2>2 DEF BindFails
<1>6. WorldTypes' /\ BindingTypes' /\ SubscriptionHeld'
  BY <1>3, <1>5, SMTT(30) DEF BindFails, BindingInv, WorldTypes, BindingTypes, SubscriptionHeld,
     world, binding
<1> QED
  BY <1>1, <1>2, <1>6 DEF BindingInv

\* The binding thread installs what the directory answered and an empty cache.
LEMMA BinderKeeps ==
    ASSUME BindingInv, Binder
    PROVE  BindingInv'
<1>t. binder \in BinderTypes /\ None \in Pairs /\ dlife \in Nat /\ drec \in Pairs
  BY DEF BindingInv, BindingTypes, WorldTypes, None, Pairs
<1>s. binder.dir <= dlife /\ (binder.pc = "resolve" /\ binder.dir = dlife => subscribed > 0)
  BY DEF BindingInv, SubscriptionHeld
<1>1. CASE Bind
  <2>1. /\ binder' = [binder EXCEPT !.pc = "register", !.dir = dlife]
        /\ bdirId' = binder.id
        /\ UNCHANGED <<world, subscribed, svcEvents, peerEvents, brec, bid, clients,
                       connector, call>>
    BY <1>1 DEF Bind
  <2>2. CallsTyped' /\ LockHeld' /\ \A d \in Clients : CallMatches(d)'
    BY <2>1, CallsStay
  <2>3. CacheMatches'
    BY <2>1 DEF BindingInv, CacheMatches
  <2>4. binder' \in BinderTypes /\ binder'.pc = "register" /\ binder'.dir = dlife /\ bdirId' \in Nat
    BY <2>1, <1>t DEF BinderTypes, BinderSteps
  <2>5. WorldTypes' /\ BindingTypes' /\ SubscriptionHeld'
    BY <2>1, <2>4, <1>t, SMTT(30) DEF BindingInv, WorldTypes, BindingTypes, SubscriptionHeld, world
  <2> QED
    BY <2>2, <2>3, <2>5 DEF BindingInv
<1>2. CASE BindRegister
  <2>1. CASE binder.dir = dlife
    <3>1. /\ subscribed' = subscribed + 1
          /\ binder' = [binder EXCEPT !.pc = "resolve"]
          /\ UNCHANGED <<world, svcEvents, peerEvents, binding, connector, call>>
      BY <1>2, <2>1 DEF BindRegister
    <3>2. CallsTyped' /\ LockHeld' /\ \A d \in Clients : CallMatches(d)'
      BY <3>1, CallsStay
    <3>3. CacheMatches'
      BY <3>1 DEF BindingInv, CacheMatches, binding
    <3>4. binder' \in BinderTypes /\ binder'.dir = dlife
      BY <3>1, <2>1, <1>t DEF BinderTypes, BinderSteps
    <3>5. WorldTypes' /\ BindingTypes' /\ SubscriptionHeld'
      BY <3>1, <3>4, SMTT(30) DEF BindingInv, WorldTypes, BindingTypes, SubscriptionHeld, world, binding
    <3> QED
      BY <3>2, <3>3, <3>5 DEF BindingInv
  <2>2. CASE binder.dir # dlife
    BY <1>2, <2>2, BindFailsKeeps DEF BindRegister
  <2> QED
    BY <2>1, <2>2
<1>3. CASE BindResolve
  <2>1. CASE binder.dir = dlife /\ drec # None
    <3>1. /\ binder' = [binder EXCEPT !.pc = "check", !.rec = drec]
          /\ UNCHANGED <<world, subscribed, svcEvents, peerEvents, binding, connector, call>>
      BY <1>3, <2>1 DEF BindResolve
    <3>2. CallsTyped' /\ LockHeld' /\ \A d \in Clients : CallMatches(d)'
      BY <3>1, CallsStay
    <3>3. CacheMatches'
      BY <3>1 DEF BindingInv, CacheMatches, binding
    <3>4. binder' \in BinderTypes /\ binder'.pc = "check" /\ binder'.dir = dlife
      BY <3>1, <2>1, <1>t DEF BinderTypes, BinderSteps
    <3>5. WorldTypes' /\ BindingTypes' /\ SubscriptionHeld'
      BY <3>1, <3>4, SMTT(30) DEF BindingInv, WorldTypes, BindingTypes, SubscriptionHeld, world, binding
    <3> QED
      BY <3>2, <3>3, <3>5 DEF BindingInv
  <2>2. CASE ~(binder.dir = dlife /\ drec # None)
    BY <1>3, <2>2, BindFailsKeeps DEF BindResolve
  <2> QED
    BY <2>1, <2>2
<1>4. CASE BindCheck
  <2>1. /\ UNCHANGED <<world, subscribed, svcEvents, peerEvents, binding, connector, call>>
        /\ \/ binder' = [binder EXCEPT !.pc = "install"]
           \/ binder' = [binder EXCEPT !.pc = "bind", !.dir = 0, !.rec = None]
           \/ binder' = Unbound
    BY <1>4 DEF BindCheck
  <2>2. CallsTyped' /\ LockHeld' /\ \A d \in Clients : CallMatches(d)'
    BY <2>1, CallsStay
  <2>3. CacheMatches'
    BY <2>1 DEF BindingInv, CacheMatches, binding
  <2>4. binder' \in BinderTypes /\ binder'.pc # "resolve" /\ binder'.dir \in {0, binder.dir}
    <3>1. CASE binder' = Unbound
      BY <3>1, UnboundTyped
    <3>2. CASE binder' = [binder EXCEPT !.pc = "bind", !.dir = 0, !.rec = None]
      BY <3>2, <1>t DEF BinderTypes, BinderSteps
    <3>3. CASE binder' = [binder EXCEPT !.pc = "install"]
      BY <3>3, <1>t DEF BinderTypes, BinderSteps
    <3> QED
      BY <2>1, <3>1, <3>2, <3>3
  <2>5. WorldTypes' /\ BindingTypes' /\ SubscriptionHeld'
    BY <2>1, <2>4, <1>s, <1>t, SMTT(30) DEF BindingInv, WorldTypes, BindingTypes, SubscriptionHeld,
       world, binding
  <2> QED
    BY <2>2, <2>3, <2>5 DEF BindingInv
<1>5. CASE BindInstall
  <2>1. /\ brec' = binder.rec /\ bid' = binder.rec /\ bdirId' = binder.id
        /\ clients' = [a \in Apis |-> None]
        /\ binder' = Unbound
        /\ UNCHANGED <<world, subscribed, svcEvents, peerEvents, connector, call>>
    BY <1>5 DEF BindInstall
  <2>2. CallsTyped' /\ LockHeld' /\ \A d \in Clients : CallMatches(d)'
    BY <2>1, CallsStay
  <2>3. CacheMatches'
    BY <2>1 DEF CacheMatches
  <2>4. /\ Unbound \in BinderTypes /\ Unbound.pc = "off" /\ Unbound.dir = 0
        /\ binder.rec \in Pairs /\ binder.id \in Nat
    BY <1>t DEF BinderTypes, BinderSteps, Unbound
  <2>5. WorldTypes' /\ BindingTypes' /\ SubscriptionHeld'
    BY <2>1, <2>4, <1>t, SMTT(30) DEF BindingInv, WorldTypes, BindingTypes, SubscriptionHeld, world
  <2> QED
    BY <2>2, <2>3, <2>5 DEF BindingInv
<1> QED
  BY <1>1, <1>2, <1>3, <1>4, <1>5 DEF Binder

\* A callback that changes the record empties the cache with it.
LEMMA EventsKeep ==
    ASSUME BindingInv, HandleServiceEvent \/ HandlePeerEvent
    PROVE  BindingInv'
<1>t. /\ binder \in BinderTypes /\ None \in Pairs /\ brec \in Pairs /\ bid \in Pairs
      /\ bdirId \in Nat /\ clients \in [Apis -> Pairs] /\ dlife \in Nat
      /\ svcEvents \in Seq(ServiceEvents) /\ peerEvents \in Seq(PeerEvents)
  BY DEF BindingInv, BindingTypes, WorldTypes, None, Pairs
<1>m. /\ brec # None => bid = brec
      /\ \A a \in Apis : clients[a] # None => bid # None /\ clients[a][1] = bid[1]
  BY DEF BindingInv, CacheMatches
<1>1. CASE HandleServiceEvent
  <2>1. /\ svcEvents # <<>> /\ svcEvents' = Tail(svcEvents)
        /\ UNCHANGED <<world, subscribed, peerEvents, bdir, binder, connector, call>>
    BY <1>1 DEF HandleServiceEvent
  <2>2. PICK e : e = Head(svcEvents)
    OBVIOUS
  <2>3. e \in ServiceEvents /\ svcEvents' \in Seq(ServiceEvents)
    BY <2>1, <2>2, <1>t, SMTT(30)
  <2>4. \/ /\ brec' = e.rec /\ bid' = e.rec /\ bdirId' = e.dir
           /\ clients' = [a \in Apis |-> None]
        \/ /\ brec' = None /\ clients' = [a \in Apis |-> None]
           /\ UNCHANGED <<bid, bdirId>>
        \/ UNCHANGED <<brec, bid, bdirId, clients>>
    BY <1>1, <2>2 DEF HandleServiceEvent
  <2>5. CallsTyped' /\ LockHeld' /\ \A d \in Clients : CallMatches(d)'
    BY <2>1, CallsStay
  <2>6. CacheMatches'
    BY <2>4, <1>m DEF CacheMatches
  <2>7. brec' \in Pairs /\ bid' \in Pairs /\ bdirId' \in Nat /\ clients' \in [Apis -> Pairs]
    BY <2>3, <2>4, <1>t DEF ServiceEvents
  <2>8. WorldTypes' /\ BindingTypes' /\ SubscriptionHeld'
    BY <2>1, <2>3, <2>7, <1>t DEF BindingInv, WorldTypes, BindingTypes, SubscriptionHeld, world
  <2> QED
    BY <2>5, <2>6, <2>8 DEF BindingInv
<1>2. CASE HandlePeerEvent
  <2>1. /\ peerEvents # <<>> /\ peerEvents' = Tail(peerEvents)
        /\ UNCHANGED <<world, subscribed, svcEvents, connector, call>>
    BY <1>2 DEF HandlePeerEvent
  <2>2. PICK e : e = Head(peerEvents)
    OBVIOUS
  <2>3. e \in PeerEvents /\ e.id \in Nat /\ peerEvents' \in Seq(PeerEvents)
    <3>1. e \in PeerEvents /\ peerEvents' \in Seq(PeerEvents)
      BY <2>1, <2>2, <1>t, SMTT(30)
    <3> QED
      BY <3>1 DEF PeerEvents
  <2>4. \/ /\ clients' \in {clients, [a \in Apis |-> None]}
           /\ UNCHANGED <<bdirId, brec, bid, binder>>
        \/ /\ brec' = brec /\ clients' = clients
           /\ UNCHANGED <<bdirId, bid, binder>>
        \/ /\ brec' = None /\ clients' = [a \in Apis |-> None]
           /\ UNCHANGED <<bdirId, bid, binder>>
        \/ /\ binder' \in {binder, [Unbound EXCEPT !.pc = "bind", !.id = e.id]}
           /\ UNCHANGED <<bdirId, brec, bid, clients>>
    BY <1>2, <2>2 DEF HandlePeerEvent, binding
  <2>5. CallsTyped' /\ LockHeld' /\ \A d \in Clients : CallMatches(d)'
    BY <2>1, CallsStay
  <2>6. CacheMatches'
    BY <2>4, <1>m DEF CacheMatches
  <2>7. brec' \in Pairs /\ bid' \in Pairs /\ bdirId' \in Nat /\ clients' \in [Apis -> Pairs]
    BY <2>4, <1>t
  <2>8. /\ binder' \in BinderTypes
        /\ binder' = binder \/ (binder'.pc = "bind" /\ binder'.dir = 0)
    <3>1. CASE binder' = binder
      BY <3>1, <1>t
    <3>2. CASE binder' = [Unbound EXCEPT !.pc = "bind", !.id = e.id]
      <4>1. binder' \in BinderTypes
        BY <2>3, <3>2, UnboundTyped
      <4>2. binder'.pc = "bind" /\ binder'.dir = 0
        BY <3>2 DEF Unbound
      <4> QED
        BY <4>1, <4>2
    <3> QED
      BY <2>4, <3>1, <3>2
  <2>9. WorldTypes' /\ BindingTypes'
    BY <2>1, <2>3, <2>7, <2>8 DEF BindingInv, WorldTypes, BindingTypes, world
  <2>10. SubscriptionHeld'
    BY <2>1, <2>8, <1>t, SMTT(30) DEF BindingInv, SubscriptionHeld, world
  <2> QED
    BY <2>5, <2>6, <2>9, <2>10 DEF BindingInv
<1> QED
  BY <1>1, <1>2

\* The directory's callbacks stay well-formed, one for each registration.
LEMMA NotifyTyped ==
    ASSUME WorldTypes, NEW type \in {"connected", "disconnected"}, NEW rec \in Pairs,
           Notify(type, rec)
    PROVE  svcEvents' \in Seq(ServiceEvents)
<1>1. [i \in 1 .. subscribed |-> [type |-> type, rec |-> rec, dir |-> dlife]]
        \in Seq(ServiceEvents)
  BY SMTT(30) DEF WorldTypes, ServiceEvents
<1>2. PICK more : more = [i \in 1 .. subscribed |-> [type |-> type, rec |-> rec, dir |-> dlife]]
  OBVIOUS
<1>3. svcEvents' = svcEvents \o more /\ svcEvents \in Seq(ServiceEvents)
  BY <1>2 DEF Notify, WorldTypes
<1> QED
  BY <1>1, <1>2, <1>3, SMTT(30)

\* What happens to QPMd, to the directory and to the links does not reach into
\* the binding.
LEMMA WorldKeeps ==
    ASSUME BindingInv,
           RecordRemoved \/ Registers \/ ConnectionLost \/ DirectoryRestarted
    PROVE  BindingInv'
<1>w. WorldTypes
  BY DEF BindingInv
<1>n. None \in Pairs
  BY DEF None, Pairs
<1>1. UNCHANGED <<binding, binder, connector, call>>
  BY DEF RecordRemoved, Registers, ConnectionLost, DirectoryRestarted
<1>2. CallsTyped' /\ LockHeld' /\ \A d \in Clients : CallMatches(d)'
  BY <1>1, CallsStay
<1>3. CacheMatches' /\ BindingTypes'
  BY <1>1 DEF BindingInv, CacheMatches, BindingTypes, binding
<1>b. binder \in BinderTypes /\ binder.dir \in Nat
  BY DEF BindingInv, BindingTypes, BinderTypes
<1>4. CASE RecordRemoved
  <2>1. /\ drec' = None /\ Notify("disconnected", drec)
        /\ UNCHANGED <<rt, handle, epoch, dlife, subscribed, peerEvents, binder>>
    BY <1>4 DEF RecordRemoved
  <2>2. svcEvents' \in Seq(ServiceEvents)
    BY <2>1, <1>w, NotifyTyped DEF WorldTypes
  <2>3. WorldTypes' /\ SubscriptionHeld'
    BY <2>1, <2>2, <1>n DEF WorldTypes, BindingInv, SubscriptionHeld
  <2> QED
    BY <2>3, <1>2, <1>3 DEF BindingInv
<1>5. CASE Registers
  <2>1. /\ rt' \in {rt} \cup (IF rt < MaxRuntimes THEN {rt + 1} ELSE {})
        /\ handle' = handle + 1
        /\ drec' = <<rt', handle'>>
        /\ Notify("connected", drec')
        /\ UNCHANGED <<epoch, dlife, subscribed, peerEvents, binder>>
    BY <1>5 DEF Registers
  <2>2. rt' \in Nat /\ handle' \in Nat
    BY <2>1, <1>w, SMTT(30) DEF WorldTypes
  <2>3. drec' \in Pairs
    BY <2>1, <2>2 DEF Pairs
  <2>4. svcEvents' \in Seq(ServiceEvents)
    BY <2>1, <2>3, <1>w, NotifyTyped
  <2>5. WorldTypes' /\ SubscriptionHeld'
    BY <2>1, <2>2, <2>3, <2>4 DEF WorldTypes, BindingInv, SubscriptionHeld
  <2> QED
    BY <2>5, <1>2, <1>3 DEF BindingInv
<1>6. CASE ConnectionLost
  <2>1. /\ epoch' = epoch + 1
        /\ peerEvents' = Append(peerEvents, [type |-> "qpm-lost", id |-> rt])
        /\ UNCHANGED <<rt, drec, handle, dlife, subscribed, svcEvents, binder>>
    BY <1>6 DEF ConnectionLost
  <2>2. [type |-> "qpm-lost", id |-> rt] \in PeerEvents
    BY <1>w DEF WorldTypes, PeerEvents
  <2>3. WorldTypes' /\ SubscriptionHeld'
    BY <2>1, <2>2, SMTT(30) DEF WorldTypes, BindingInv, SubscriptionHeld
  <2> QED
    BY <2>3, <1>2, <1>3 DEF BindingInv
<1>7. CASE DirectoryRestarted
  <2>1. /\ dlife' = dlife + 1
        /\ drec' = None /\ subscribed' = 0
        /\ peerEvents' = peerEvents \o << [type |-> "dir-lost", id |-> dlife],
                                          [type |-> "dir-ready", id |-> dlife'] >>
        /\ UNCHANGED <<rt, handle, epoch, svcEvents, binder>>
    BY <1>7 DEF DirectoryRestarted
  <2>2. dlife' \in Nat /\ dlife < dlife'
    BY <2>1, <1>w, SMTT(30) DEF WorldTypes
  <2>3. << [type |-> "dir-lost", id |-> dlife],
           [type |-> "dir-ready", id |-> dlife'] >> \in Seq(PeerEvents)
    BY <2>2, <1>w, SMTT(30) DEF WorldTypes, PeerEvents
  <2>4. peerEvents' \in Seq(PeerEvents)
    BY <2>1, <2>3, <1>w, SMTT(30) DEF WorldTypes
  <2>5. WorldTypes'
    BY <2>1, <2>2, <2>4, <1>w, <1>n DEF WorldTypes
  <2>6. SubscriptionHeld'
    BY <2>1, <2>2, <1>w, <1>b, SMTT(30) DEF WorldTypes, BindingInv, SubscriptionHeld
  <2> QED
    BY <2>5, <2>6, <1>2, <1>3 DEF BindingInv
<1> QED
  BY <1>4, <1>5, <1>6, <1>7

\* The connections of a program are right in every behaviour of the binding: a
\* client handed out under a reservation is a connection to the QPMd process
\* that granted it, and no two threads connect at once (client,
\* _install_service_record, _handle_service_event, _handle_peer_event).
THEOREM ConnectionsAreMatched == BindingSpec => []ConnectionsMatch
<1>1. BindingInit => BindingInv
  BY BindingInitially
<1>2. BindingInv /\ [BindingNext]_lvars => BindingInv'
  <2> SUFFICES ASSUME BindingInv, [BindingNext]_lvars PROVE BindingInv'
    OBVIOUS
  <2>1. CASE UNCHANGED lvars
    <3>1. CallsTyped' /\ LockHeld' /\ \A d \in Clients : CallMatches(d)'
      BY <2>1, CallsStay DEF lvars
    <3>2. WorldTypes' /\ BindingTypes' /\ SubscriptionHeld' /\ CacheMatches'
      BY <2>1 DEF lvars, BindingInv, WorldTypes, BindingTypes, SubscriptionHeld, CacheMatches
    <3> QED
      BY <3>1, <3>2 DEF BindingInv
  <2>2. CASE BindingNext
    BY <2>2, CallerKeeps, BinderKeeps, EventsKeep, WorldKeeps DEF BindingNext
  <2> QED
    BY <2>1, <2>2
<1>3. BindingInv => ConnectionsMatch
  BY DEF BindingInv, ConnectionsMatch, HandedOutMatches, OneConnects, CallMatches, LockHeld
<1> QED
  BY <1>1, <1>2, <1>3, PTL DEF BindingSpec

-----------------------------------------------------------------------------
(* The batch of the Pulser connection.                                     *)

TaskStates == {"none", "queued", "submitted", "ok", "failed", "cancelled"}
JobStates == {"PENDING", "RUNNING", "DONE", "CANCELED", "ERROR"}

BatchTypes ==
    /\ task \in [BatchJob -> TaskStates]
    /\ retained \in [BatchJob -> {"no", "yes", "evicted"}]
    /\ status \in [BatchJob -> JobStates]

\* What is known of one job is what became of its task; a completion is there,
\* or evicted, only of a task that has ended.
JobSound(k) ==
    /\ retained[k] # "no" => task[k] \in EndedTask
    /\ status[k] = "DONE" => task[k] = "ok"
    /\ status[k] = "CANCELED" => task[k] = "cancelled"
    /\ status[k] = "ERROR" => task[k] = "failed" \/ retained[k] = "evicted"

\* The jobs are accepted in order, and while the batch is being submitted
\* nothing is known of the others.
Counted == \E n \in 0 .. BatchJobs : accepted = 1 .. n

OthersUntouched ==
    phase = "submit" =>
        \A k \in BatchJob \ accepted :
            task[k] = "none" /\ retained[k] = "no" /\ status[k] = "PENDING"

\* Of a batch that was accepted in part, each job was asked for or is still to be.
AskedSoFar ==
    accepted # BatchJob =>
        /\ phase \in {"open", "update"} => accepted \subseteq asked \cup refused
        /\ phase = "cancel" => accepted \subseteq left \cup asked \cup refused

BatchInv ==
    /\ BatchTypes /\ Counted /\ OthersUntouched /\ AskedSoFar
    /\ \A k \in BatchJob : JobSound(k)

\* The next job to submit is the first that was not accepted.
LEMMA NextJob ==
    ASSUME Counted
    PROVE  /\ Cardinality(accepted) \in 0 .. BatchJobs
           /\ accepted = 1 .. Cardinality(accepted)
           /\ Cardinality(accepted) = BatchJobs <=> accepted = BatchJob
<1> USE BatchAssumption
<1>1. PICK n \in 0 .. BatchJobs : accepted = 1 .. n
  BY DEF Counted
<1>2. n \in Nat /\ 1 \in Int /\ n \in Int
  BY SMTT(30)
<1>3. Cardinality(1 .. n) = IF 1 > n THEN 0 ELSE n - 1 + 1
  BY <1>2, FS_Interval
<1>4. Cardinality(accepted) = n
  BY <1>1, <1>2, <1>3, SMTT(30)
<1>5. n = BatchJobs <=> 1 .. n = 1 .. BatchJobs
  <2>1. ASSUME 1 .. n = 1 .. BatchJobs, n # BatchJobs PROVE FALSE
    <3>1. BatchJobs \in 1 .. BatchJobs /\ BatchJobs \notin 1 .. n
      BY <1>1, <2>1, SMTT(30)
    <3> QED
      BY <3>1, <2>1
  <2> QED
    BY <2>1
<1> QED
  BY <1>1, <1>4, <1>5 DEF BatchJob

\* Nothing is known of a batch that is not submitted.
LEMMA BatchInitially == ConnectionInit => BatchInv
<1> SUFFICES ASSUME ConnectionInit PROVE BatchInv OBVIOUS
<1> USE BatchAssumption
<1>1. BatchTypes /\ OthersUntouched /\ AskedSoFar
  BY DEF ConnectionInit, BatchTypes, TaskStates, JobStates, OthersUntouched, AskedSoFar
<1>2. Counted
  <2>1. 0 \in 0 .. BatchJobs /\ 1 .. 0 = {}
    BY SMTT(30)
  <2> QED
    BY <2>1 DEF ConnectionInit, Counted
<1>3. \A k \in BatchJob : JobSound(k)
  BY DEF ConnectionInit, JobSound
<1> QED
  BY <1>1, <1>2, <1>3 DEF BatchInv

\* One cancel_task request leaves what is known of the jobs true, and each job
\* it was made for is asked or named.
LEMMA CancelTaskSound ==
    ASSUME BatchTypes, \A k \in BatchJob : JobSound(k), NEW j, CancelTask(j),
           UNCHANGED status
    PROVE  /\ BatchTypes' /\ \A k \in BatchJob : JobSound(k)'
           /\ asked' \cup refused' = asked \cup refused \cup {j}
<1>1. \/ /\ task[j] \in {"queued", "submitted"}
         /\ task' = [task EXCEPT ![j] = "cancelled"]
         /\ retained' = [retained EXCEPT ![j] = "yes"]
      \/ UNCHANGED <<task, retained>>
  BY DEF CancelTask
<1>2. asked' \cup refused' = asked \cup refused \cup {j}
  BY DEF CancelTask
<1>3. CASE UNCHANGED <<task, retained>>
  BY <1>2, <1>3 DEF BatchTypes, JobSound
<1>4. CASE /\ task[j] \in {"queued", "submitted"}
           /\ task' = [task EXCEPT ![j] = "cancelled"]
           /\ retained' = [retained EXCEPT ![j] = "yes"]
  <2>1. BatchTypes'
    BY <1>4 DEF BatchTypes, TaskStates
  <2>2. ASSUME NEW k \in BatchJob PROVE JobSound(k)'
    <3>1. CASE k = j
      <4>1. task'[k] = "cancelled" /\ retained'[k] = "yes" /\ status'[k] = status[k]
        BY <1>4, <3>1 DEF BatchTypes
      <4>2. status[k] \notin {"DONE", "CANCELED", "ERROR"}
        BY <1>4, <3>1 DEF JobSound, EndedTask
      <4> QED
        BY <4>1, <4>2 DEF JobSound, EndedTask
    <3>2. CASE k # j
      <4>1. task'[k] = task[k] /\ retained'[k] = retained[k] /\ status'[k] = status[k]
        BY <1>4, <3>2 DEF BatchTypes
      <4> QED
        BY <4>1 DEF JobSound
    <3> QED
      BY <3>1, <3>2
  <2> QED
    BY <1>2, <2>1, <2>2
<1> QED
  BY <1>1, <1>3, <1>4

\* Reading a completion tells of the job what became of its task.
LEMMA UpdateSound ==
    ASSUME BatchTypes, \A k \in BatchJob : JobSound(k), NEW j, Update(j),
           UNCHANGED task
    PROVE  BatchTypes' /\ \A k \in BatchJob : JobSound(k)'
<1>1. CASE status[j] \notin Unfinished
  BY <1>1 DEF Update, BatchTypes, JobSound
<1>2. CASE status[j] \in Unfinished
  <2>1. PICK v, s : /\ v = IF retained[j] = "yes" THEN "no" ELSE retained[j]
                    /\ s \in {status[j], ResultOf(Answer(j), status[j])}
                    /\ retained' = [retained EXCEPT ![j] = v]
                    /\ status' = [status EXCEPT ![j] = s]
    <3>1. \/ status' = [status EXCEPT ![j] = ResultOf(Answer(j), status[j])]
          \/ status' = status
      BY <1>2 DEF Update
    <3>2. status = [status EXCEPT ![j] = status[j]]
      BY DEF BatchTypes
    <3>3. retained' = [retained EXCEPT ![j] = IF retained[j] = "yes" THEN "no" ELSE retained[j]]
      BY <1>2 DEF Update
    <3> QED
      BY <3>1, <3>2, <3>3
  <2>2. s \in {"PENDING", "RUNNING", "DONE", "CANCELED", "ERROR"}
    BY <1>2, <2>1 DEF ResultOf, Unfinished
  <2>3. BatchTypes'
    BY <2>1, <2>2 DEF BatchTypes, JobStates
  <2>4. ASSUME NEW k \in BatchJob, k = j PROVE JobSound(k)'
    <3>1. task'[k] = task[j] /\ retained'[k] = v /\ status'[k] = s
      BY <2>1, <2>4 DEF BatchTypes
    <3>2. retained[j] # "no" => task[j] \in EndedTask
      BY <2>4 DEF JobSound
    <3>3. s = "DONE" => task[j] = "ok"
      BY <1>2, <2>1 DEF ResultOf, Answer, Unfinished, EndedTask
    <3>4. s = "CANCELED" => task[j] = "cancelled"
      BY <1>2, <2>1 DEF ResultOf, Answer, Unfinished, EndedTask
    <3>5. s = "ERROR" => task[j] = "failed" \/ retained[j] = "evicted"
      <4>1. s = "ERROR" => Answer(j) \in {"failed", "no-longer"}
        BY <1>2, <2>1 DEF ResultOf, Unfinished
      <4>2. Answer(j) = "failed" => task[j] = "failed"
        BY DEF Answer
      <4>3. task[j] # "no-longer"
        BY <2>4 DEF BatchTypes, TaskStates
      <4>4. Answer(j) = "no-longer" => retained[j] = "evicted"
        BY <4>3 DEF Answer
      <4> QED
        BY <4>1, <4>2, <4>4
    <3> QED
      BY <2>1, <3>1, <3>2, <3>3, <3>4, <3>5 DEF JobSound
  <2>5. ASSUME NEW k \in BatchJob, k # j PROVE JobSound(k)'
    <3>1. task'[k] = task[k] /\ retained'[k] = retained[k] /\ status'[k] = status[k]
      BY <2>1, <2>5 DEF BatchTypes
    <3> QED
      BY <3>1 DEF JobSound
  <2> QED
    BY <2>3, <2>4, <2>5
<1> QED
  BY <1>1, <1>2

\* Every step of the connection and of the QPM keeps the invariant.
LEMMA BatchStep == BatchInv /\ [ConnectionNext]_bvars => BatchInv'
<1> SUFFICES ASSUME BatchInv, [ConnectionNext]_bvars PROVE BatchInv' OBVIOUS
<1> USE BatchAssumption
<1>t. BatchTypes /\ Counted /\ OthersUntouched /\ AskedSoFar
  BY DEF BatchInv
<1>j. \A k \in BatchJob : JobSound(k)
  BY DEF BatchInv
<1>n. /\ Cardinality(accepted) \in 0 .. BatchJobs
      /\ accepted = 1 .. Cardinality(accepted)
      /\ Cardinality(accepted) = BatchJobs <=> accepted = BatchJob
  BY <1>t, NextJob
<1>c. accepted' = accepted => Counted'
  BY <1>t DEF Counted
<1>1. CASE SubmitJob
  <2>1. PICK j : j = Cardinality(accepted) + 1
    OBVIOUS
  <2>2. /\ phase = "submit" /\ j \in BatchJob
        /\ task' = [task EXCEPT ![j] = "queued"]
        /\ accepted' = accepted \cup {j}
        /\ phase' = IF j = BatchJobs THEN "open" ELSE phase
        /\ UNCHANGED <<retained, status, left, asked, refused, lost>>
    BY <1>1, <2>1 DEF SubmitJob
  <2>3. j \in 1 .. BatchJobs /\ accepted = 1 .. (j - 1)
    BY <2>1, <2>2, <1>n, SMTT(30) DEF BatchJob
  <2>4. accepted' = 1 .. j
    BY <2>2, <2>3, SMTT(30)
  <2>5. Counted'
    BY <2>3, <2>4, SMTT(30) DEF Counted
  <2>6. BatchTypes'
    BY <2>2, <1>t DEF BatchTypes, TaskStates
  <2>7. retained[j] = "no" /\ status[j] = "PENDING"
    BY <2>2, <2>3, <1>t, SMTT(30) DEF OthersUntouched
  <2>8. ASSUME NEW k \in BatchJob PROVE JobSound(k)'
    <3>1. k # j => task'[k] = task[k]
      BY <2>2, <1>t DEF BatchTypes
    <3>2. CASE k = j
      BY <2>2, <2>7, <3>2 DEF JobSound
    <3>3. CASE k # j
      BY <2>2, <3>1, <3>3, <1>j DEF JobSound
    <3> QED
      BY <3>2, <3>3
  <2>9. OthersUntouched'
    BY <2>2, <1>t, SMTT(30) DEF OthersUntouched
  <2>10. AskedSoFar'
    <3>1. phase' = "submit" \/ accepted' = BatchJob
      BY <2>2, <2>4 DEF BatchJob
    <3> QED
      BY <3>1 DEF AskedSoFar, BatchJob
  <2> QED
    BY <2>5, <2>6, <2>8, <2>9, <2>10 DEF BatchInv
<1>2. CASE SubmitFails
  <2>1. PICK j : j = Cardinality(accepted) + 1
    OBVIOUS
  <2>2. /\ phase = "submit" /\ j \in BatchJob
        /\ task' \in {task, [task EXCEPT ![j] = "queued"]}
        /\ phase' = IF accepted = {} THEN "refused" ELSE "cancel"
        /\ left' = accepted
        /\ UNCHANGED <<retained, accepted, status, asked, refused>>
    BY <1>2, <2>1 DEF SubmitFails
  <2>3. j \in BatchJob \ accepted
    BY <2>1, <2>2, <1>n, SMTT(30)
  <2>4. retained[j] = "no" /\ status[j] = "PENDING"
    BY <2>2, <2>3, <1>t DEF OthersUntouched
  <2>5. BatchTypes'
    BY <2>2, <1>t DEF BatchTypes, TaskStates
  <2>6. ASSUME NEW k \in BatchJob PROVE JobSound(k)'
    <3>1. k # j => task'[k] = task[k]
      BY <2>2, <1>t DEF BatchTypes
    <3>2. CASE k = j
      BY <2>2, <2>4, <3>2 DEF JobSound
    <3>3. CASE k # j
      BY <2>2, <3>1, <3>3, <1>j DEF JobSound
    <3> QED
      BY <3>2, <3>3
  <2>7. OthersUntouched' /\ AskedSoFar'
    BY <2>2 DEF OthersUntouched, AskedSoFar, BatchJob
  <2> QED
    BY <2>2, <2>5, <2>6, <2>7, <1>c DEF BatchInv
<1>3. CASE CancelRest
  <2>1. phase = "cancel" /\ UNCHANGED <<accepted, status>>
    BY <1>3 DEF CancelRest
  <2>2. CASE left = {}
    <3>1. phase' = "open" /\ Report /\ UNCHANGED <<task, retained>>
      BY <1>3, <2>2 DEF CancelRest
    <3>2. accepted # BatchJob => UNCHANGED <<asked, refused>>
      BY <3>1, <1>n DEF Report
    <3>3. AskedSoFar'
      BY <2>1, <2>2, <3>1, <3>2, <1>t DEF AskedSoFar, BatchJob
    <3>4. BatchTypes' /\ \A k \in BatchJob : JobSound(k)'
      BY <2>1, <3>1, <1>t, <1>j DEF BatchTypes, JobSound
    <3>5. OthersUntouched'
      BY <3>1 DEF OthersUntouched
    <3> QED
      BY <2>1, <3>3, <3>4, <3>5, <1>c DEF BatchInv
  <2>3. CASE left # {}
    <3>1. PICK j : j = First(left)
      OBVIOUS
    <3>2. CancelTask(j) /\ left' = left \ {j} /\ phase' = phase
      BY <1>3, <2>3, <3>1 DEF CancelRest
    <3>3. /\ BatchTypes' /\ \A k \in BatchJob : JobSound(k)'
          /\ asked' \cup refused' = asked \cup refused \cup {j}
      BY <2>1, <3>2, <1>t, <1>j, CancelTaskSound
    <3>4. AskedSoFar'
      BY <2>1, <3>2, <3>3, <1>t DEF AskedSoFar, BatchJob
    <3>5. OthersUntouched'
      BY <2>1, <3>2 DEF OthersUntouched
    <3> QED
      BY <2>1, <3>3, <3>4, <3>5, <1>c DEF BatchInv
  <2> QED
    BY <2>2, <2>3
<1>4. CASE CancelBatch
  <2>1. /\ phase = "open" /\ phase' = "update"
        /\ UNCHANGED <<task, retained, accepted, status, asked, refused>>
    BY <1>4 DEF CancelBatch
  <2>2. BatchTypes' /\ \A k \in BatchJob : JobSound(k)'
    BY <2>1, <1>t, <1>j DEF BatchTypes, JobSound
  <2>3. OthersUntouched' /\ AskedSoFar'
    BY <2>1, <1>t DEF OthersUntouched, AskedSoFar, BatchJob
  <2> QED
    BY <2>1, <2>2, <2>3, <1>c DEF BatchInv
<1>5. CASE CancelUpdates
  <2>1. phase = "update" /\ UNCHANGED <<task, accepted, asked, refused>>
    BY <1>5 DEF CancelUpdates
  <2>2. BatchTypes' /\ \A k \in BatchJob : JobSound(k)'
    <3>1. CASE left = {}
      BY <1>5, <2>1, <3>1, <1>t, <1>j DEF CancelUpdates, BatchTypes, JobSound
    <3>2. CASE left # {}
      <4>1. PICK j : j = First(left)
        OBVIOUS
      <4>2. Update(j)
        BY <1>5, <3>2, <4>1 DEF CancelUpdates
      <4> QED
        BY <2>1, <4>2, <1>t, <1>j, UpdateSound
    <3> QED
      BY <3>1, <3>2
  <2>3. phase' \in {"update", "cancel"}
    BY <1>5, <2>1 DEF CancelUpdates
  <2>4. OthersUntouched' /\ AskedSoFar'
    BY <2>1, <2>3, <1>t DEF OthersUntouched, AskedSoFar, BatchJob
  <2> QED
    BY <2>1, <2>2, <2>4, <1>c DEF BatchInv
<1>6. ASSUME NEW j \in BatchJob, QueryJob(j) PROVE BatchInv'
  <2>1. phase = "open" /\ Update(j) /\ UNCHANGED <<task, accepted, phase, asked, refused>>
    BY <1>6 DEF QueryJob
  <2>2. BatchTypes' /\ \A k \in BatchJob : JobSound(k)'
    BY <2>1, <1>t, <1>j, UpdateSound
  <2>3. OthersUntouched' /\ AskedSoFar'
    BY <2>1, <1>t DEF OthersUntouched, AskedSoFar, BatchJob
  <2> QED
    BY <2>1, <2>2, <2>3, <1>c DEF BatchInv
<1>7. ASSUME NEW j \in BatchJob, TaskMoves(j) PROVE BatchInv'
  <2>1. /\ task[j] \in {"queued", "submitted"}
        /\ UNCHANGED <<accepted, status, phase, left, asked, refused>>
    BY <1>7 DEF TaskMoves
  <2>p. PICK s, v : s = task'[j] /\ v = retained'[j]
    OBVIOUS
  <2>2. /\ s \in {"submitted", "ok", "failed", "cancelled"}
        /\ v # "no" => s \in EndedTask
        /\ v \in {"no", "yes"}
        /\ task' = [task EXCEPT ![j] = s]
        /\ retained' = [retained EXCEPT ![j] = v]
    <3>0. retained[j] = "no" /\ retained = [retained EXCEPT ![j] = retained[j]]
      BY <2>1, <1>t, <1>j DEF JobSound, BatchTypes, EndedTask
    <3>1. CASE task' = [task EXCEPT ![j] = "submitted"] /\ UNCHANGED retained
      BY <3>0, <3>1, <2>p, <1>t DEF BatchTypes
    <3>2. CASE /\ \E e \in EndedTask : task' = [task EXCEPT ![j] = e]
               /\ retained' = [retained EXCEPT ![j] = "yes"]
      <4>1. PICK e \in EndedTask : task' = [task EXCEPT ![j] = e]
        BY <3>2
      <4>2. s = e /\ v = "yes"
        BY <3>2, <4>1, <2>p, <1>t DEF BatchTypes
      <4>3. e \in {"ok", "failed", "cancelled"} /\ e \in EndedTask
        BY <4>1 DEF EndedTask
      <4> QED
        BY <3>2, <4>1, <4>2, <4>3
    <3> QED
      BY <1>7, <3>1, <3>2 DEF TaskMoves
  <2>3. BatchTypes'
    BY <2>1, <2>2, <1>t DEF BatchTypes, TaskStates
  <2>4. ASSUME NEW k \in BatchJob, k = j PROVE JobSound(k)'
    <3>1. task'[k] = s /\ retained'[k] = v /\ status'[k] = status[j]
      BY <2>1, <2>2, <2>4, <1>t DEF BatchTypes
    <3>2. status[j] \notin {"DONE", "CANCELED", "ERROR"}
      BY <2>1, <1>j DEF JobSound, EndedTask
    <3> QED
      BY <2>2, <3>1, <3>2 DEF JobSound
  <2>5. ASSUME NEW k \in BatchJob, k # j
        PROVE  task'[k] = task[k] /\ retained'[k] = retained[k] /\ status'[k] = status[k]
    BY <2>1, <2>2, <2>5, <1>t DEF BatchTypes
  <2>6. ASSUME NEW k \in BatchJob, k # j PROVE JobSound(k)'
    BY <2>5, <2>6, <1>j DEF JobSound
  <2>7. OthersUntouched'
    <3>1. phase = "submit" => j \in accepted
      BY <2>1, <1>t DEF OthersUntouched
    <3> QED
      BY <2>1, <2>5, <3>1, <1>t DEF OthersUntouched, BatchJob
  <2>8. AskedSoFar'
    BY <2>1, <1>t DEF AskedSoFar, BatchJob
  <2> QED
    BY <2>1, <2>3, <2>4, <2>6, <2>7, <2>8, <1>c DEF BatchInv
<1>8. ASSUME NEW j \in BatchJob, Evict(j) PROVE BatchInv'
  <2>1. /\ retained[j] = "yes"
        /\ retained' = [retained EXCEPT ![j] = "evicted"]
        /\ UNCHANGED <<task, accepted, status, phase, left, asked, refused>>
    BY <1>8 DEF Evict
  <2>2. BatchTypes'
    BY <2>1, <1>t DEF BatchTypes
  <2>3. ASSUME NEW k \in BatchJob PROVE retained'[k] = IF k = j THEN "evicted" ELSE retained[k]
    BY <2>1, <1>t DEF BatchTypes
  <2>4. ASSUME NEW k \in BatchJob PROVE JobSound(k)'
    BY <2>1, <2>3, <1>j DEF JobSound
  <2>5. OthersUntouched'
    BY <2>1, <2>3, <1>t DEF OthersUntouched, BatchJob
  <2>6. AskedSoFar'
    BY <2>1, <1>t DEF AskedSoFar, BatchJob
  <2> QED
    BY <2>1, <2>2, <2>4, <2>5, <2>6, <1>c DEF BatchInv
<1>9. CASE UNCHANGED bvars
  <2>1. BatchTypes' /\ Counted' /\ OthersUntouched' /\ AskedSoFar'
    BY <1>9, <1>t, <1>c DEF bvars, BatchTypes, OthersUntouched, AskedSoFar, BatchJob
  <2>2. \A k \in BatchJob : JobSound(k)'
    BY <1>9, <1>j DEF bvars, JobSound
  <2> QED
    BY <2>1, <2>2 DEF BatchInv
<1> QED
  BY <1>1, <1>2, <1>3, <1>4, <1>5, <1>6, <1>7, <1>8, <1>9 DEF ConnectionNext

\* What a program learns of its batch is what became of it, whatever replies are
\* lost and completions evicted, and a submit that fails part way leaves no
\* accepted job unasked (submit, cancel_batch, _update, _get_batch_status).
THEOREM BatchesAreTrue == ConnectionSpec => []BatchIsTrue
<1>1. ConnectionInit => BatchInv
  BY BatchInitially
<1>2. BatchInv /\ [ConnectionNext]_bvars => BatchInv'
  BY BatchStep
<1>3. BatchInv => BatchIsTrue
  <2> SUFFICES ASSUME BatchInv PROVE BatchIsTrue
    OBVIOUS
  <2>1. /\ Cardinality(accepted) \in 0 .. BatchJobs
        /\ accepted = 1 .. Cardinality(accepted)
        /\ Cardinality(accepted) = BatchJobs <=> accepted = BatchJob
    BY NextJob DEF BatchInv
  <2>2. EveryAcceptedAsked
    BY <2>1, BatchAssumption, SMTT(30) DEF EveryAcceptedAsked, BatchInv, AskedSoFar
  <2>3. accepted \subseteq BatchJob
    BY <2>1, BatchAssumption, SMTT(30) DEF BatchJob
  <2>4. \A j \in accepted : JobSound(j) /\ status[j] \in JobStates
    BY <2>3 DEF BatchInv, BatchTypes
  <2>5. ASSUME accepted # {}, BatchStatus = "DONE" PROVE \A j \in accepted : task[j] = "ok"
    <3>1. {status[j] : j \in accepted} = {"DONE"}
      BY <2>5 DEF BatchStatus, Unfinished
    <3>2. \A j \in accepted : status[j] = "DONE"
      BY <3>1
    <3> QED
      BY <2>4, <3>2 DEF JobSound
  <2>6. ASSUME accepted # {}, BatchStatus = "CANCELED"
        PROVE  \A j \in accepted : task[j] \in {"ok", "cancelled"}
    <3>1. /\ {status[j] : j \in accepted} \cap Unfinished = {}
          /\ "ERROR" \notin {status[j] : j \in accepted}
      BY <2>6 DEF BatchStatus
    <3>2. \A j \in accepted : status[j] \notin Unfinished /\ status[j] # "ERROR"
      BY <3>1
    <3>3. \A j \in accepted : status[j] \in {"DONE", "CANCELED"}
      BY <2>4, <3>2 DEF JobStates, Unfinished
    <3> QED
      BY <2>4, <3>3 DEF JobSound
  <2>7. StatusIsTrue
    BY <2>4, <2>5, <2>6 DEF StatusIsTrue, JobSound
  <2> QED
    BY <2>2, <2>7 DEF BatchIsTrue
<1> QED
  BY <1>1, <1>2, <1>3, PTL DEF ConnectionSpec

-----------------------------------------------------------------------------
(* The placements of the Backline QPM.                                     *)

LockSteps == {"admit", "attach", "starting"}

IsWork(w) == w = [r |-> w.r, placement |-> w.placement, direct |-> w.direct,
                  process |-> w.process]

GrantTypes ==
    /\ DOMAIN admitted = Grants /\ DOMAIN placements = Grants
    /\ DOMAIN executors = Grants /\ starts \in Nat
    /\ DOMAIN bpc = Requesters /\ DOMAIN work = Requesters
    /\ \A q \in Requesters : IsWork(work[q])

\* The lock has one holder, the request between its match and its end.
PlacementLock ==
    /\ \A q \in Requesters : bpc[q] \in LockSteps => q \in lockedBy
    /\ \A q, u \in lockedBy : q = u

\* What is placed was made by the matcher, and for a granted reservation.
Sound(p) == p # Nowhere /\ Entries(p) \subseteq Inventory /\ Connected(p)

Apart(p, s) == Entries(p) \cap Entries(s) = {}

PlacementsSound ==
    \A r \in Grants :
        /\ placements[r] # Nowhere => admitted[r] # "none" /\ Sound(placements[r])
        /\ \A s \in Grants : r # s => Apart(placements[r], placements[s])

\* A request that holds the lock has a placement apart from all that are there,
\* for a reservation that has none.
RequestSound(q) ==
    /\ bpc[q] \in LockSteps =>
          /\ Sound(work[q].placement)
          /\ \A s \in Grants : Apart(work[q].placement, placements[s])
    /\ bpc[q] \in {"attach", "starting"} =>
          /\ work[q].r \in Grants /\ admitted[work[q].r] # "none"
          /\ placements[work[q].r] = Nowhere

\* Every process that runs is being started, or is a placement's and known to
\* the module that stops them all.
Starting(p) == \E q \in Requesters : bpc[q] = "starting" /\ work[q].process = p
Attached(p) ==
    serving # "exited" /\ p \in live /\ \E r \in Placed : executors[r] = p

ProcessesOwned ==
    \A p \in running : Starting(p) \/ Attached(p)

BacklineInv ==
    /\ GrantTypes /\ PlacementLock /\ PlacementsSound /\ ProcessesOwned
    /\ \A q \in Requesters : RequestSound(q)

\* Nothing is placed and nothing runs at first.
LEMMA BacklineInitially == BacklineInit => BacklineInv
<1> SUFFICES ASSUME BacklineInit PROVE BacklineInv OBVIOUS
<1>1. GrantTypes
  BY DEF BacklineInit, GrantTypes, IsWork, NoWork
<1>2. PlacementLock /\ ProcessesOwned
  BY DEF BacklineInit, PlacementLock, ProcessesOwned, LockSteps
<1>3. Entries(Nowhere) = {}
  BY DEF Entries
<1>4. PlacementsSound
  BY <1>3 DEF BacklineInit, PlacementsSound, Apart
<1>5. \A q \in Requesters : RequestSound(q)
  BY DEF BacklineInit, RequestSound, LockSteps
<1> QED
  BY <1>1, <1>2, <1>4, <1>5 DEF BacklineInv

\* A request's own step, by what it leaves in its record.
LEMMA RequestMove ==
    ASSUME GrantTypes, NEW q \in Requesters, NEW step, NEW w, IsWork(w), Go(q, step, w)
    PROVE  /\ bpc'[q] = step /\ work'[q] = w
           /\ \A u \in Requesters : u # q => bpc'[u] = bpc[u] /\ work'[u] = work[u]
           /\ DOMAIN bpc' = Requesters /\ DOMAIN work' = Requesters
           /\ \A u \in Requesters : IsWork(work'[u])
<1>1. bpc' = [bpc EXCEPT ![q] = step] /\ work' = [work EXCEPT ![q] = w]
  BY DEF Go
<1>2. /\ DOMAIN bpc = Requesters /\ DOMAIN work = Requesters
      /\ \A u \in Requesters : IsWork(work[u])
  BY DEF GrantTypes
<1>3. /\ bpc'[q] = step /\ work'[q] = w
      /\ \A u \in Requesters : u # q => bpc'[u] = bpc[u] /\ work'[u] = work[u]
      /\ DOMAIN bpc' = Requesters /\ DOMAIN work' = Requesters
  BY <1>1, <1>2
<1>4. ASSUME NEW u \in Requesters PROVE IsWork(work'[u])
  <2>1. CASE u = q
    BY <2>1, <1>3
  <2>2. CASE u # q
    <3>1. work'[u] = work[u]
      BY <2>2, <1>3
    <3> QED
      BY <3>1, <1>2
  <2> QED
    BY <2>1, <2>2
<1> QED
  BY <1>3, <1>4

\* A request takes the lock when nobody has it, and keeps it to itself.
LEMMA LockMove ==
    ASSUME GrantTypes, PlacementLock, NEW q \in Requesters, NEW step, NEW w, IsWork(w),
           Go(q, step, w), lockedBy = {} \/ bpc[q] \in LockSteps \/ step \notin LockSteps
    PROVE  PlacementLock'
<1>1. /\ bpc'[q] = step
      /\ \A u \in Requesters : u # q => bpc'[u] = bpc[u]
  BY RequestMove
<1>2. lockedBy' = IF step \in LockSteps THEN lockedBy \cup {q} ELSE lockedBy \ {q}
  BY DEF Go, LockSteps
<1> QED
  BY <1>1, <1>2 DEF PlacementLock

\* Placements that go, and grants that stay grants, disturb no other placement
\* and no request that does not move.
Shrinks ==
    /\ \A r \in Grants : placements'[r] \in {placements[r], Nowhere}
    /\ \A r \in Grants : admitted[r] # "none" => admitted'[r] # "none"

\* Placements that only go away leave the others sound and apart.
LEMMA ShrinkKeeps ==
    ASSUME BacklineInv, Shrinks
    PROVE  /\ PlacementsSound'
           /\ \A u \in Requesters :
                 bpc'[u] = bpc[u] /\ work'[u] = work[u] => RequestSound(u)'
<1>0. Entries(Nowhere) = {}
  BY DEF Entries
<1>1. ASSUME NEW r \in Grants, NEW s \in Grants, r # s
      PROVE  Apart(placements'[r], placements'[s])
  BY <1>0, <1>1 DEF BacklineInv, PlacementsSound, Apart, Shrinks
<1>2. ASSUME NEW r \in Grants, placements'[r] # Nowhere
      PROVE  admitted'[r] # "none" /\ Sound(placements'[r])
  <2>1. placements'[r] = placements[r]
    BY <1>2 DEF Shrinks
  <2>2. admitted[r] # "none" /\ Sound(placements[r])
    BY <1>2, <2>1 DEF BacklineInv, PlacementsSound
  <2> QED
    BY <2>1, <2>2 DEF Shrinks
<1>3. PlacementsSound'
  BY <1>1, <1>2 DEF PlacementsSound, Apart, Sound
<1>4. ASSUME NEW u \in Requesters, bpc'[u] = bpc[u], work'[u] = work[u] PROVE RequestSound(u)'
  <2>1. RequestSound(u)
    BY DEF BacklineInv
  <2>2. ASSUME NEW s \in Grants, Apart(work[u].placement, placements[s])
        PROVE  Apart(work'[u].placement, placements'[s])
    BY <1>0, <1>4, <2>2 DEF Apart, Shrinks
  <2> QED
    BY <1>4, <2>1, <2>2 DEF RequestSound, Shrinks, Sound, Apart
<1> QED
  BY <1>3, <1>4

\* _drop takes the executors away with the placements.
LEMMA DropMove ==
    ASSUME BacklineInv, NEW R, Drop(R), UNCHANGED admitted, serving' # "exited"
    PROVE  /\ DOMAIN placements' = Grants /\ DOMAIN executors' = Grants
           /\ Shrinks
           /\ \A p \in running' : p \in running /\ (Attached(p) => Attached(p)')
<1>1. /\ placements' = [r \in Grants |-> IF r \in R THEN Nowhere ELSE placements[r]]
      /\ executors' = [r \in Grants |-> IF r \in R THEN 0 ELSE executors[r]]
      /\ running' = running \ {executors[r] : r \in R}
      /\ live' = live \ {executors[r] : r \in R}
  BY DEF Drop
<1>2. /\ DOMAIN placements' = Grants /\ DOMAIN executors' = Grants
      /\ \A r \in Grants : placements'[r] = IF r \in R THEN Nowhere ELSE placements[r]
      /\ \A r \in Grants : executors'[r] = IF r \in R THEN 0 ELSE executors[r]
  BY <1>1
<1>3. Shrinks
  BY <1>2 DEF Shrinks
<1>4. ASSUME NEW p \in running', Attached(p) PROVE Attached(p)'
  <2>1. PICK r \in Placed : executors[r] = p
    BY <1>4 DEF Attached
  <2>2. r \in Grants /\ placements[r] # Nowhere /\ r \notin R
    BY <1>1, <2>1 DEF Placed
  <2>3. placements'[r] # Nowhere /\ executors'[r] = p /\ p \in live'
    BY <1>1, <1>2, <1>4, <2>1, <2>2 DEF Attached
  <2> QED
    BY <2>2, <2>3 DEF Attached, Placed
<1> QED
  BY <1>1, <1>2, <1>3, <1>4

\* Processes keep their owners when each one's start or placement stays.
LEMMA ProcessesStay ==
    ASSUME ProcessesOwned,
           \A p \in running' : /\ p \in running
                               /\ Starting(p) => Starting(p)'
                               /\ Attached(p) => Attached(p)'
    PROVE  ProcessesOwned'
BY DEF ProcessesOwned

\* What the matcher is told to leave alone is all that is placed once the ended
\* reservations are dropped.
LEMMA MatchApart ==
    ASSUME BacklineInv, NEW intent \in Intents, NEW p,
           p = Match(intent, Busy), p # Rejected, Drop(Gone)
    PROVE  Sound(p) /\ \A s \in Grants : Apart(p, placements'[s])
<1>0. Entries(Nowhere) = {}
  BY DEF Entries
<1>1. Busy \in SUBSET Inventory
  <2>1. \A r \in Placed : Entries(placements[r]) \subseteq Inventory
    BY DEF BacklineInv, PlacementsSound, Sound, Placed
  <2> QED
    BY <2>1 DEF Busy
<1>2. Entries(p) \subseteq Inventory \ Busy /\ Connected(p)
  BY <1>1, MatchAssumption
<1>3. p # Nowhere
  <2>1. SUFFICES ASSUME p = Nowhere PROVE FALSE
    OBVIOUS
  <2>2. Cardinality({}) = 1 + Len(<<>>)
    <3>1. Cardinality(Entries(Nowhere)) = 1 + Len(Nowhere.coprocessors)
      BY <1>2, <2>1 DEF Connected
    <3>2. Nowhere.coprocessors = <<>>
      BY DEF Nowhere
    <3> QED
      BY <1>0, <3>1, <3>2
  <2>3. Cardinality({}) = 0 /\ Len(<<>>) = 0
    BY FS_EmptySet
  <2> QED
    BY <2>2, <2>3, SMTT(30)
<1>4. ASSUME NEW s \in Grants PROVE Apart(p, placements'[s])
  <2>1. placements'[s] = IF s \in Gone THEN Nowhere ELSE placements[s]
    BY DEF Drop
  <2>2. CASE placements'[s] = Nowhere
    BY <1>0, <2>2 DEF Apart
  <2>3. CASE placements'[s] # Nowhere
    <3>1. s \in Placed \ Gone /\ placements'[s] = placements[s]
      BY <2>1, <2>3 DEF Placed
    <3>2. Entries(placements[s]) \subseteq Busy
      BY <3>1 DEF Busy
    <3> QED
      BY <1>2, <3>1, <3>2 DEF Apart
  <2> QED
    BY <2>2, <2>3
<1> QED
  BY <1>2, <1>3, <1>4 DEF Sound

\* Steps of a request that place nothing: the request moves on, and what it
\* leaves behind is what the other requests see.
LEMMA RequestKeeps ==
    ASSUME BacklineInv, NEW q \in Requesters, NEW step, NEW w, IsWork(w), Go(q, step, w),
           lockedBy = {} \/ bpc[q] \in LockSteps \/ step \notin LockSteps,
           Shrinks, starts' \in Nat,
           DOMAIN admitted' = Grants, DOMAIN placements' = Grants, DOMAIN executors' = Grants,
           bpc'[q] = step /\ work'[q] = w => RequestSound(q)',
           ProcessesOwned'
    PROVE  BacklineInv'
<1>1. /\ bpc'[q] = step /\ work'[q] = w
      /\ \A u \in Requesters : u # q => bpc'[u] = bpc[u] /\ work'[u] = work[u]
      /\ DOMAIN bpc' = Requesters /\ DOMAIN work' = Requesters
      /\ \A u \in Requesters : IsWork(work'[u])
  BY RequestMove DEF BacklineInv
<1>2. PlacementLock'
  BY LockMove DEF BacklineInv
<1>3. GrantTypes'
  BY <1>1 DEF GrantTypes, IsWork
<1>4. /\ PlacementsSound'
      /\ \A u \in Requesters :
            bpc'[u] = bpc[u] /\ work'[u] = work[u] => RequestSound(u)'
  BY ShrinkKeeps
<1>5. \A u \in Requesters : RequestSound(u)'
  BY <1>1, <1>4
<1> QED
  BY <1>2, <1>3, <1>4, <1>5 DEF BacklineInv

\* Steps that no request takes.
LEMMA OthersKeep ==
    ASSUME BacklineInv, Shrinks, UNCHANGED <<starts, bpc, work, lockedBy>>,
           DOMAIN admitted' = Grants, DOMAIN placements' = Grants, DOMAIN executors' = Grants,
           \A p \in running' : p \in running /\ (Attached(p) => Attached(p)')
    PROVE  BacklineInv'
<1>1. GrantTypes' /\ PlacementLock'
  BY DEF BacklineInv, GrantTypes, PlacementLock, IsWork
<1>2. PlacementsSound' /\ \A u \in Requesters : RequestSound(u)'
  BY ShrinkKeeps
<1>3. ASSUME NEW p, Starting(p) PROVE Starting(p)'
  BY <1>3 DEF Starting
<1>4. ProcessesOwned'
  BY <1>3, ProcessesStay DEF BacklineInv
<1> QED
  BY <1>1, <1>2, <1>4 DEF BacklineInv

\* The steps of the core, of the clock and of the service's end.
LEMMA ServiceKeeps ==
    ASSUME BacklineInv,
           \/ Evaluate \/ ReserveBudget \/ ShutdownBackline \/ Exit
           \/ \E r \in Grants : CancelGrant(r) \/ Deadline(r) \/ RenewGrant(r)
    PROVE  BacklineInv'
<1>t. /\ DOMAIN admitted = Grants /\ DOMAIN placements = Grants /\ DOMAIN executors = Grants
      /\ starts \in Nat
  BY DEF BacklineInv, GrantTypes
<1>a. ASSUME UNCHANGED <<placements, executors, running, live, starts, bpc, work, lockedBy>>,
             serving' # "exited", serving # "exited",
             NEW r, NEW v, v # "none",
             admitted' = [admitted EXCEPT ![r] = v] \/ admitted' = admitted
      PROVE  BacklineInv'
  <2>1. DOMAIN admitted' = Grants /\ Shrinks
    BY <1>a, <1>t DEF Shrinks
  <2>2. ASSUME NEW p \in running' PROVE p \in running /\ (Attached(p) => Attached(p)')
    BY <1>a DEF Attached, Placed
  <2> QED
    BY <1>a, <1>t, <2>1, <2>2, OthersKeep
<1>d. ASSUME NEW R, Drop(R), UNCHANGED <<admitted, starts, bpc, work, lockedBy>>,
             serving' # "exited"
      PROVE  BacklineInv'
  BY <1>d, <1>t, DropMove, OthersKeep
<1>1. CASE Evaluate
  BY <1>1, <1>d DEF Evaluate, Unlocked
<1>2. CASE ReserveBudget
  <2>1. PICK r \in Grants : admitted' = [admitted EXCEPT ![r] = "active"]
    BY <1>2 DEF ReserveBudget
  <2>2. /\ UNCHANGED <<placements, executors, running, live, starts, bpc, work, lockedBy>>
        /\ serving' # "exited" /\ serving # "exited"
    BY <1>2 DEF ReserveBudget
  <2> QED
    BY <2>1, <2>2, <1>a
<1>3. CASE ShutdownBackline
  <2>1. /\ UNCHANGED <<admitted, starts, bpc, work, lockedBy>>
        /\ serving' # "exited" /\ serving # "exited"
    BY <1>3 DEF ShutdownBackline
  <2>2. CASE Drop({r \in Grants : executors[r] # 0})
    BY <2>1, <2>2, <1>d
  <2>3. CASE UNCHANGED <<placements, executors, running, live>>
    <3>1. UNCHANGED <<placements, executors, running, live, starts, bpc, work, lockedBy>>
      BY <2>1, <2>3
    <3>2. "active" # "none"
      OBVIOUS
    <3> QED
      BY <2>1, <3>1, <3>2, <1>a
  <2> QED
    BY <1>3, <2>2, <2>3 DEF ShutdownBackline
<1>4. CASE Exit
  <2>1. /\ running' = running \ live
        /\ UNCHANGED <<admitted, placements, executors, starts, bpc, work, lockedBy>>
    BY <1>4 DEF Exit
  <2>2. Shrinks
    BY <2>1 DEF Shrinks
  <2>3. ASSUME NEW p \in running' PROVE p \in running /\ ~Attached(p)
    BY <2>1 DEF Attached
  <2> QED
    BY <2>1, <2>2, <2>3, <1>t, OthersKeep
<1>5. ASSUME NEW r \in Grants, CancelGrant(r) \/ Deadline(r) \/ RenewGrant(r)
      PROVE  BacklineInv'
  <2>1. /\ UNCHANGED <<placements, executors, running, live, starts, bpc, work, lockedBy>>
        /\ serving' # "exited" /\ serving # "exited"
    BY <1>5 DEF CancelGrant, Deadline, RenewGrant
  <2>2. "closed" # "none" /\ (admitted' = [admitted EXCEPT ![r] = "closed"] \/ admitted' = admitted)
    BY <1>5 DEF CancelGrant, Deadline, RenewGrant
  <2> QED
    BY <2>1, <2>2, <1>a
<1> QED
  BY <1>1, <1>2, <1>3, <1>4, <1>5

\* The steps of a request.
LEMMA RequesterKeeps ==
    ASSUME BacklineInv, NEW q \in Requesters,
           \/ \E i \in Intents : ReserveDirect(q, i)
           \/ Admit(q)
           \/ \E r \in Grants, i \in Intents : ClassicalRequest(q, r, i)
           \/ StartExecutor(q) \/ Attach(q) \/ StartFails(q)
           \/ \E r \in Grants : Release(q, r)
           \/ ReleaseDrop(q)
    PROVE  BacklineInv'
<1>t. /\ DOMAIN admitted = Grants /\ DOMAIN placements = Grants /\ DOMAIN executors = Grants
      /\ starts \in Nat /\ IsWork(work[q])
  BY DEF BacklineInv, GrantTypes
<1>r. RequestSound(q)
  BY DEF BacklineInv
<1>o. ProcessesOwned
  BY DEF BacklineInv
<1>w. IsWork(NoWork)
  BY DEF IsWork, NoWork
<1>m. ASSUME NEW step, NEW w, IsWork(w), Go(q, step, w)
      PROVE  /\ bpc'[q] = step /\ work'[q] = w
             /\ \A u \in Requesters : u # q => bpc'[u] = bpc[u] /\ work'[u] = work[u]
  BY <1>m, RequestMove DEF BacklineInv
<1>u. ASSUME NEW step, NEW w, IsWork(w), Go(q, step, w), NEW p,
             bpc[q] = "starting" /\ work[q].process = p => step = "starting" /\ w.process = p,
             Starting(p)
      PROVE  Starting(p)'
  <2>1. PICK u \in Requesters : bpc[u] = "starting" /\ work[u].process = p
    BY <1>u DEF Starting
  <2>2. bpc'[u] = "starting" /\ work'[u].process = p
    BY <2>1, <1>u, <1>m
  <2> QED
    BY <2>2 DEF Starting
<1>1. ASSUME NEW i \in Intents, ReserveDirect(q, i) PROVE BacklineInv'
  <2>1. PICK p, w : p = Match(i, Busy) /\ w = [NoWork EXCEPT !.placement = p, !.direct = TRUE]
    OBVIOUS
  <2>2. /\ bpc[q] = "idle" /\ lockedBy = {} /\ serving' # "exited" /\ p # Rejected
        /\ Go(q, "admit", w) /\ Drop(Gone)
        /\ UNCHANGED <<admitted, starts>>
    BY <1>1, <2>1 DEF ReserveDirect, Unlocked
  <2>3. IsWork(w) /\ w.placement = p
    BY <2>1 DEF IsWork, NoWork
  <2>4. /\ DOMAIN placements' = Grants /\ DOMAIN executors' = Grants
        /\ Shrinks
        /\ \A x \in running' : x \in running /\ (Attached(x) => Attached(x)')
    BY <2>2, DropMove
  <2>5. Sound(p) /\ \A s \in Grants : Apart(p, placements'[s])
    BY <2>1, <2>2, MatchApart
  <2>6. bpc'[q] = "admit" /\ work'[q] = w => RequestSound(q)'
    BY <2>3, <2>5 DEF RequestSound, Apart, Sound
  <2>7. ASSUME NEW x \in running', Starting(x) PROVE Starting(x)'
    BY <2>2, <2>3, <2>7, <1>u
  <2>8. ProcessesOwned'
    BY <2>4, <2>7, <1>o, ProcessesStay
  <2> QED
    BY <2>2, <2>3, <2>4, <2>6, <2>8, <1>t, RequestKeeps
<1>2. CASE Admit(q)
  <2>1. /\ bpc[q] = "admit" /\ serving # "exited"
        /\ UNCHANGED <<placements, executors, running, live, starts, serving>>
    BY <1>2 DEF Admit
  <2>2. ASSUME NEW x \in running' PROVE x \in running /\ (Attached(x) => Attached(x)')
    BY <2>1 DEF Attached, Placed
  <2>3. ASSUME NEW r \in Grants, admitted[r] = "none",
               admitted' = [admitted EXCEPT ![r] = "active"],
               Go(q, "attach", [work[q] EXCEPT !.r = r])
        PROVE  BacklineInv'
    <3>1. PICK w : w = [work[q] EXCEPT !.r = r]
      OBVIOUS
    <3>2. IsWork(w) /\ w.r = r /\ w.placement = work[q].placement
      BY <3>1, <1>t DEF IsWork
    <3>3. Shrinks /\ DOMAIN admitted' = Grants /\ admitted'[r] # "none"
      BY <2>1, <2>3, <1>t DEF Shrinks
    <3>4. placements[r] = Nowhere
      BY <2>3 DEF BacklineInv, PlacementsSound
    <3>5. bpc'[q] = "attach" /\ work'[q] = w => RequestSound(q)'
      BY <2>1, <3>2, <3>3, <3>4, <1>r DEF RequestSound, LockSteps, Apart, Sound
    <3>6. Go(q, "attach", w)
      BY <2>3, <3>1
    <3>7. ASSUME NEW x \in running', Starting(x) PROVE Starting(x)'
      BY <2>1, <3>2, <3>6, <3>7, <1>u
    <3>8. ProcessesOwned'
      BY <2>2, <3>7, <1>o, ProcessesStay
    <3>9. bpc[q] \in LockSteps
      BY <2>1 DEF LockSteps
    <3> QED
      BY <2>1, <3>2, <3>3, <3>5, <3>6, <3>8, <3>9, <1>t, RequestKeeps
  <2>4. ASSUME Go(q, "idle", NoWork), UNCHANGED admitted PROVE BacklineInv'
    <3>1. Shrinks
      BY <2>1, <2>4 DEF Shrinks
    <3>2. bpc'[q] = "idle" => RequestSound(q)'
      BY DEF RequestSound, LockSteps
    <3>3. ASSUME NEW x \in running', Starting(x) PROVE Starting(x)'
      BY <2>1, <2>4, <3>3, <1>w, <1>u
    <3>4. ProcessesOwned'
      BY <2>2, <3>3, <1>o, ProcessesStay
    <3>5. bpc[q] \in LockSteps
      BY <2>1 DEF LockSteps
    <3> QED
      BY <2>1, <2>4, <3>1, <3>2, <3>4, <3>5, <1>t, <1>w, RequestKeeps
  <2> QED
    BY <1>2, <2>3, <2>4 DEF Admit, Fresh
<1>3. ASSUME NEW r \in Grants, NEW i \in Intents, ClassicalRequest(q, r, i) PROVE BacklineInv'
  <2>1. PICK p, w : p = Match(i, Busy) /\ w = [NoWork EXCEPT !.r = r, !.placement = p]
    OBVIOUS
  <2>2. /\ bpc[q] = "idle" /\ lockedBy = {} /\ serving' # "exited" /\ p # Rejected
        /\ admitted[r] = "active" /\ placements[r] = Nowhere
        /\ Go(q, "attach", w) /\ Drop(Gone)
        /\ UNCHANGED <<admitted, starts>>
    BY <1>3, <2>1 DEF ClassicalRequest, Unlocked, ActiveGrant, Placed
  <2>3. IsWork(w) /\ w.placement = p /\ w.r = r
    BY <2>1 DEF IsWork, NoWork
  <2>4. /\ DOMAIN placements' = Grants /\ DOMAIN executors' = Grants
        /\ Shrinks
        /\ \A x \in running' : x \in running /\ (Attached(x) => Attached(x)')
    BY <2>2, DropMove
  <2>5. Sound(p) /\ \A s \in Grants : Apart(p, placements'[s])
    BY <2>1, <2>2, MatchApart
  <2>6. placements'[r] = Nowhere /\ admitted'[r] # "none"
    BY <2>2, <2>4 DEF Shrinks
  <2>7. bpc'[q] = "attach" /\ work'[q] = w => RequestSound(q)'
    BY <2>3, <2>5, <2>6 DEF RequestSound, Apart, Sound
  <2>8. ASSUME NEW x \in running', Starting(x) PROVE Starting(x)'
    BY <2>2, <2>3, <2>8, <1>u
  <2>9. ProcessesOwned'
    BY <2>4, <2>8, <1>o, ProcessesStay
  <2> QED
    BY <2>2, <2>3, <2>4, <2>7, <2>9, <1>t, RequestKeeps
<1>4. CASE StartExecutor(q)
  <2>1. PICK w : w = [work[q] EXCEPT !.process = starts + 1]
    OBVIOUS
  <2>2. /\ bpc[q] = "attach" /\ starts' = starts + 1
        /\ running' = running \cup {starts + 1}
        /\ Go(q, "starting", w)
        /\ UNCHANGED <<admitted, placements, executors, live, serving>>
    BY <1>4, <2>1 DEF StartExecutor
  <2>3. /\ IsWork(w) /\ w.process = starts + 1
        /\ w.placement = work[q].placement /\ w.r = work[q].r
    BY <2>1, <1>t DEF IsWork
  <2>4. Shrinks /\ starts' \in Nat
    BY <2>2, <1>t, SMTT(30) DEF Shrinks
  <2>5. bpc'[q] = "starting" /\ work'[q] = w => RequestSound(q)'
    BY <2>2, <2>3, <1>r DEF RequestSound, LockSteps, Apart, Sound
  <2>6. ASSUME NEW x \in running, Starting(x) PROVE Starting(x)'
    BY <2>2, <2>3, <2>6, <1>u
  <2>7. ASSUME NEW x \in running, Attached(x) PROVE Attached(x)'
    BY <2>2, <2>7 DEF Attached, Placed
  <2>9. ProcessesOwned'
    <3>1. ASSUME NEW x \in running' PROVE Starting(x)' \/ Attached(x)'
      <4>1. CASE x \in running
        BY <4>1, <2>6, <2>7, <1>o DEF ProcessesOwned
      <4>2. CASE x = starts + 1
        <5>1. bpc'[q] = "starting" /\ work'[q].process = x
          BY <4>2, <2>2, <2>3, <1>m
        <5> QED
          BY <5>1 DEF Starting
      <4> QED
        BY <4>1, <4>2, <2>2
    <3> QED
      BY <3>1 DEF ProcessesOwned
  <2>10. bpc[q] \in LockSteps
    BY <2>2 DEF LockSteps
  <2> QED
    BY <2>2, <2>3, <2>4, <2>5, <2>9, <2>10, <1>t, RequestKeeps
<1>5. CASE StartFails(q)
  <2>1. /\ bpc[q] \in {"attach", "starting"}
        /\ running' = running \ {work[q].process}
        /\ admitted' = IF work[q].direct THEN [admitted EXCEPT ![work[q].r] = "closed"]
                       ELSE admitted
        /\ Go(q, "idle", NoWork)
        /\ UNCHANGED <<placements, executors, live, starts, serving>>
    BY <1>5 DEF StartFails
  <2>2. DOMAIN admitted' = Grants /\ Shrinks
    BY <2>1, <1>t DEF Shrinks
  <2>3. bpc'[q] = "idle" => RequestSound(q)'
    BY DEF RequestSound, LockSteps
  <2>4. ASSUME NEW x \in running' PROVE x \in running /\ (Attached(x) => Attached(x)')
    BY <2>1 DEF Attached, Placed
  <2>5. ASSUME NEW x \in running', Starting(x) PROVE Starting(x)'
    <3>1. work[q].process # x
      BY <2>1
    <3> QED
      BY <2>1, <2>5, <3>1, <1>w, <1>u
  <2>6. ProcessesOwned'
    BY <2>4, <2>5, <1>o, ProcessesStay
  <2>7. "idle" \notin LockSteps
    BY DEF LockSteps
  <2> QED
    BY <2>1, <2>2, <2>3, <2>6, <2>7, <1>t, <1>w, RequestKeeps
<1>6. ASSUME NEW r \in Grants, Release(q, r) PROVE BacklineInv'
  <2>1. PICK w : w = [NoWork EXCEPT !.r = r]
    OBVIOUS
  <2>2. /\ bpc[q] = "idle"
        /\ admitted' = [admitted EXCEPT ![r] = "closed"]
        /\ Go(q, "drop", w)
        /\ UNCHANGED <<placements, executors, running, live, starts, serving>>
    BY <1>6, <2>1 DEF Release
  <2>3. IsWork(w)
    BY <2>1 DEF IsWork, NoWork
  <2>4. DOMAIN admitted' = Grants /\ Shrinks
    BY <2>2, <1>t DEF Shrinks
  <2>5. bpc'[q] = "drop" => RequestSound(q)'
    BY DEF RequestSound, LockSteps
  <2>6. ASSUME NEW x \in running' PROVE x \in running /\ (Attached(x) => Attached(x)')
    BY <2>2 DEF Attached, Placed
  <2>7. ASSUME NEW x \in running', Starting(x) PROVE Starting(x)'
    BY <2>2, <2>3, <2>7, <1>u
  <2>8. ProcessesOwned'
    BY <2>6, <2>7, <1>o, ProcessesStay
  <2>9. "drop" \notin LockSteps
    BY DEF LockSteps
  <2> QED
    BY <2>2, <2>3, <2>4, <2>5, <2>8, <2>9, <1>t, RequestKeeps
<1>7. CASE ReleaseDrop(q)
  <2>1. /\ bpc[q] = "drop" /\ Drop({work[q].r}) /\ serving' # "exited"
        /\ Go(q, "idle", NoWork)
        /\ UNCHANGED <<admitted, starts>>
    BY <1>7 DEF ReleaseDrop, Unlocked
  <2>2. /\ DOMAIN placements' = Grants /\ DOMAIN executors' = Grants
        /\ Shrinks
        /\ \A x \in running' : x \in running /\ (Attached(x) => Attached(x)')
    BY <2>1, DropMove
  <2>3. bpc'[q] = "idle" => RequestSound(q)'
    BY DEF RequestSound, LockSteps
  <2>4. ASSUME NEW x \in running', Starting(x) PROVE Starting(x)'
    BY <2>1, <2>4, <1>w, <1>u
  <2>5. ProcessesOwned'
    BY <2>2, <2>4, <1>o, ProcessesStay
  <2>6. "idle" \notin LockSteps
    BY DEF LockSteps
  <2> QED
    BY <2>1, <2>2, <2>3, <2>5, <2>6, <1>t, <1>w, RequestKeeps
<1>8. CASE Attach(q)
  <2>1. PICK r, p, x : r = work[q].r /\ p = work[q].placement /\ x = work[q].process
    OBVIOUS
  <2>2. /\ bpc[q] = "starting" /\ serving # "exited"
        /\ live' = live \cup {x}
        /\ placements' = [placements EXCEPT ![r] = p]
        /\ executors' = [executors EXCEPT ![r] = x]
        /\ Go(q, "idle", NoWork)
        /\ UNCHANGED <<admitted, running, starts, serving>>
    BY <1>8, <2>1 DEF Attach
  <2>3. /\ Sound(p) /\ \A s \in Grants : Apart(p, placements[s])
        /\ r \in Grants /\ admitted[r] # "none" /\ placements[r] = Nowhere
    BY <2>1, <2>2, <1>r DEF RequestSound, LockSteps
  <2>4. /\ DOMAIN placements' = Grants /\ DOMAIN executors' = Grants
        /\ placements'[r] = p /\ executors'[r] = x
        /\ \A s \in Grants : s # r => placements'[s] = placements[s] /\ executors'[s] = executors[s]
    BY <2>2, <2>3, <1>t
  <2>5. PlacementsSound'
    <3>1. ASSUME NEW s \in Grants, placements'[s] # Nowhere
          PROVE  admitted'[s] # "none" /\ Sound(placements'[s])
      BY <2>2, <2>3, <2>4, <3>1 DEF BacklineInv, PlacementsSound
    <3>2. ASSUME NEW s \in Grants, NEW v \in Grants, s # v
          PROVE  Apart(placements'[s], placements'[v])
      <4>1. CASE s = r
        BY <2>3, <2>4, <3>2, <4>1
      <4>2. CASE v = r
        <5>1. Apart(p, placements[s]) /\ placements'[s] = placements[s] /\ placements'[v] = p
          BY <2>3, <2>4, <3>2, <4>2
        <5> QED
          BY <5>1 DEF Apart
      <4>3. CASE s # r /\ v # r
        BY <2>4, <3>2, <4>3 DEF BacklineInv, PlacementsSound
      <4> QED
        BY <4>1, <4>2, <4>3
    <3> QED
      BY <3>1, <3>2 DEF PlacementsSound, Sound, Apart
  <2>6. /\ bpc'[q] = "idle" /\ work'[q] = NoWork
        /\ \A u \in Requesters : u # q => bpc'[u] = bpc[u] /\ work'[u] = work[u]
        /\ DOMAIN bpc' = Requesters /\ DOMAIN work' = Requesters
        /\ \A u \in Requesters : IsWork(work'[u])
    BY <2>2, <1>w, RequestMove DEF BacklineInv
  <2>7. \A u \in Requesters : RequestSound(u)'
    <3>1. ASSUME NEW u \in Requesters, u # q PROVE bpc[u] \notin LockSteps
      BY <2>2, <3>1 DEF BacklineInv, PlacementLock, LockSteps
    <3>2. ASSUME NEW u \in Requesters PROVE bpc'[u] \notin LockSteps
      <4>1. CASE u = q
        BY <2>6, <4>1 DEF LockSteps
      <4>2. CASE u # q
        BY <2>6, <3>1, <4>2
      <4> QED
        BY <4>1, <4>2
    <3> QED
      BY <3>2 DEF RequestSound, LockSteps
  <2>8. ProcessesOwned'
    <3>1. ASSUME NEW y \in running, Attached(y) PROVE Attached(y)'
      <4>1. PICK s \in Placed : executors[s] = y
        BY <3>1 DEF Attached
      <4>2. s \in Grants /\ placements[s] # Nowhere
        BY <4>1 DEF Placed
      <4>3. placements'[s] # Nowhere /\ executors'[s] = y
        BY <2>3, <2>4, <4>1, <4>2
      <4> QED
        BY <2>2, <3>1, <4>2, <4>3, SMTT(30) DEF Attached, Placed
    <3>2. Attached(x)'
      <4>1. placements'[r] # Nowhere /\ executors'[r] = x /\ x \in live'
        BY <2>2, <2>3, <2>4 DEF Sound
      <4> QED
        BY <2>2, <2>3, <4>1 DEF Attached, Placed
    <3>3. ASSUME NEW y \in running, y # x, Starting(y) PROVE Starting(y)'
      BY <2>1, <2>2, <3>3, <1>w, <1>u
    <3>4. ASSUME NEW y \in running' PROVE Starting(y)' \/ Attached(y)'
      BY <2>2, <3>1, <3>2, <3>3, <1>o DEF ProcessesOwned
    <3> QED
      BY <3>4 DEF ProcessesOwned
  <2>9. GrantTypes'
    BY <2>2, <2>4, <2>6, <1>t DEF GrantTypes, IsWork
  <2>10. PlacementLock'
    <3>1. "idle" \notin LockSteps
      BY DEF LockSteps
    <3> QED
      BY <2>2, <3>1, <1>w, LockMove DEF BacklineInv
  <2> QED
    BY <2>5, <2>7, <2>8, <2>9, <2>10 DEF BacklineInv
<1> QED
  BY <1>1, <1>2, <1>3, <1>4, <1>5, <1>6, <1>7, <1>8

\* If the matcher keeps its promise (MatchAssumption), the service keeps its
\* own, however many requests, releases, renewals, deadlines and exits meet: no
\* two reservations are shown one entry, every running executor has a placement
\* or is being started, and a placement is connected (reserve,
\* _classical_request, _busy, _drop, executors.start and _stop_all).
THEOREM PlacementsAreKept == BacklineSpec => []PlacementsHold
<1>0. BacklineInv /\ [BacklineNext]_blvars => BacklineInv'
  <2> SUFFICES ASSUME [BacklineNext]_blvars, BacklineInv PROVE BacklineInv'
    OBVIOUS
  <2>1. CASE BacklineNext
    BY <2>1, ServiceKeeps, RequesterKeeps DEF BacklineNext
  <2>2. CASE UNCHANGED blvars
    <3>1. Shrinks
      BY <2>2 DEF blvars, Shrinks
    <3>2. DOMAIN admitted' = Grants /\ DOMAIN placements' = Grants /\ DOMAIN executors' = Grants
      BY <2>2 DEF blvars, BacklineInv, GrantTypes
    <3>3. ASSUME NEW p \in running' PROVE p \in running /\ (Attached(p) => Attached(p)')
      BY <2>2 DEF blvars, Attached, Placed
    <3>4. UNCHANGED <<starts, bpc, work, lockedBy>>
      BY <2>2 DEF blvars
    <3> QED
      BY <3>1, <3>2, <3>3, <3>4, OthersKeep
  <2> QED
    BY <2>1, <2>2
<1>1. BacklineInv => PlacementsHold
  <2> SUFFICES ASSUME BacklineInv PROVE PlacementsHold
    OBVIOUS
  <2>1. Entries(Nowhere) = {}
    BY DEF Entries
  <2>2. EntriesNotShared
    BY <2>1 DEF BacklineInv, PlacementsSound, Apart, EntriesNotShared, Shown
  <2>3. NoStrayExecutor
    BY DEF BacklineInv, ProcessesOwned, Starting, Attached, NoStrayExecutor
  <2>4. PlacementConnected
    BY DEF BacklineInv, PlacementsSound, Sound, PlacementConnected, Placed
  <2> QED
    BY <2>2, <2>3, <2>4 DEF PlacementsHold
<1>2. BacklineInit => BacklineInv
  BY BacklineInitially
<1> QED
  BY <1>0, <1>1, <1>2, PTL DEF BacklineSpec
=============================================================================
