---------------------------- MODULE RuntimeProofs ----------------------------
(***************************************************************************)
(* What sets a run up and keeps it going, for any number of jobs, threads, *)
(* reservations and restarts: the registration with a directory, the       *)
(* shim's sessions and the runs of a base directory.  The service planes   *)
(* are PlaneProofs' subject.                                               *)
(***************************************************************************)
EXTENDS RuntimeSetup, ShimSessions, DirectoryRegistration, TLAPS

-----------------------------------------------------------------------------
(* The registration with a directory.                                      *)

TPlaces == {"off", "pass", "look", "register", "note", "announce"}
InPass == {"look", "register", "note", "announce"}

RegistrationTypes ==
    /\ life \in Nat /\ events \in Nat /\ dirsvc \in Nat
    /\ listener \in {"idle", "clear"}
    /\ reg \in [Endpoints -> Nat]
    /\ tpc \in [RegistrationThreads -> TPlaces]
    /\ mine \in [RegistrationThreads -> Nat \X Nat]

\* A client that was noted, or that a thread works with, is not newer than
\* the directory, and older than the next one when there is none.
ClientsAreOld ==
    /\ dirsvc <= life + 1
    /\ \A e \in Endpoints : reg[e] <= life + 1 /\ (dirsvc = 0 => reg[e] <= life)
    /\ \A t \in RegistrationThreads :
          mine[t][2] <= life + 1 /\ (dirsvc = 0 => mine[t][2] <= life)

\* A pass in long-running mode has the lock.
PassHasLock ==
    mode = "site" =>
        \A t \in RegistrationThreads : tpc[t] \in InPass => rlock = t

\* What is about to be noted is as good as what was.
NotingIsKnown ==
    mode = "site" /\ events = 0 /\ listener = "idle" =>
        \A t \in RegistrationThreads :
            tpc[t] = "note" /\ mine[t][2] # 0 /\ mine[t][2] = dirsvc => inDirectory

DirectoryInv ==
    /\ RegistrationTypes /\ ClientsAreOld /\ PassHasLock
    /\ NotingIsKnown /\ NotedIsKnown

USE Zenon

\* A service starts with no registration noted.
LEMMA DirectoryInitially == RegistrationInit => DirectoryInv
  <1> SUFFICES ASSUME RegistrationInit PROVE DirectoryInv
    OBVIOUS
  <1>1. \A t \in RegistrationThreads : mine[t] = <<1, 0>> /\ tpc[t] = "off"
    BY DEF RegistrationInit
  <1>2. RegistrationTypes
    BY DEF RegistrationInit, RegistrationTypes, TPlaces
  <1>3. ClientsAreOld
    BY <1>1, SMTT(30) DEF RegistrationInit, ClientsAreOld
  <1>4. PassHasLock /\ NotingIsKnown /\ NotedIsKnown
    BY <1>1 DEF RegistrationInit, PassHasLock, NotingIsKnown, NotedIsKnown, InPass
  <1> QED
    BY <1>2, <1>3, <1>4 DEF DirectoryInv

\* A step that leaves the clients, the directory and the notes alone, and lets
\* threads only leave a pass, keeps the invariant.
LEMMA QuietDirectory ==
    ASSUME DirectoryInv, UNCHANGED <<mode, life, inDirectory, dirsvc, reg, rlock, mine>>,
           tpc' \in [RegistrationThreads -> TPlaces],
           \A t \in RegistrationThreads :
              tpc'[t] \in InPass => tpc'[t] = tpc[t],
           UNCHANGED <<events, listener>>
    PROVE  DirectoryInv'
  <1>1. RegistrationTypes'
    BY DEF DirectoryInv, RegistrationTypes, Endpoints
  <1>2. ClientsAreOld'
    BY DEF DirectoryInv, ClientsAreOld, Endpoints
  <1>3. PassHasLock'
    BY DEF DirectoryInv, PassHasLock
  <1>4. NotingIsKnown'
    BY DEF DirectoryInv, NotingIsKnown, InPass
  <1>5. NotedIsKnown'
    BY DEF DirectoryInv, NotedIsKnown, Endpoints
  <1> QED
    BY <1>1, <1>2, <1>3, <1>4, <1>5 DEF DirectoryInv

\* Every step of the service, its directory and DEFw keeps the invariant.
LEMMA DirectoryStep == DirectoryInv /\ [RegistrationNext]_dvars => DirectoryInv'
  <1> SUFFICES ASSUME DirectoryInv, [RegistrationNext]_dvars PROVE DirectoryInv'
    OBVIOUS
  <1>t. RegistrationTypes /\ ClientsAreOld /\ PassHasLock /\ NotingIsKnown /\ NotedIsKnown
    BY DEF DirectoryInv
  <1>r. RegistrationThreads = {"init", "wait", "monitor"}
    BY DEF RegistrationThreads
  <1>1. CASE Initialize
    <2>1. /\ UNCHANGED <<mode, life, inDirectory, dirsvc, reg, rlock, mine, events, listener>>
          /\ tpc' = [tpc EXCEPT !["init"] = "pass", !["monitor"] =
                            IF @ = "off" THEN "pass" ELSE @]
      BY <1>1 DEF Initialize, outside
    <2>2. tpc' \in [RegistrationThreads -> TPlaces]
      BY <2>1, <1>t, <1>r DEF RegistrationTypes, TPlaces
    <2>3. \A t \in RegistrationThreads : tpc'[t] \in InPass => tpc'[t] = tpc[t]
      BY <2>1, <1>t, <1>r DEF RegistrationTypes, InPass
    <2> QED
      BY <2>1, <2>2, <2>3, QuietDirectory
  <1>2. CASE StartupTimeout
    <2>1. /\ UNCHANGED <<mode, life, inDirectory, dirsvc, reg, rlock, mine, events, listener>>
          /\ tpc' = [tpc EXCEPT !["wait"] = "off"]
      BY <1>2 DEF StartupTimeout, outside
    <2>2. tpc' \in [RegistrationThreads -> TPlaces]
      BY <2>1, <1>t, <1>r DEF RegistrationTypes, TPlaces
    <2>3. \A t \in RegistrationThreads : tpc'[t] \in InPass => tpc'[t] = tpc[t]
      BY <2>1, <1>t, <1>r DEF RegistrationTypes, InPass
    <2> QED
      BY <2>1, <2>2, <2>3, QuietDirectory
  <1>3. CASE Uninitialize \/ HooksReady \/ UNCHANGED dvars
    <2>1. UNCHANGED <<mode, life, inDirectory, dirsvc, reg, rlock, mine, events, listener, tpc>>
      BY <1>3 DEF Uninitialize, HooksReady, outside, dvars
    <2> QED
      BY <2>1, <1>t, QuietDirectory DEF RegistrationTypes
  <1>4. ASSUME NEW t \in RegistrationThreads, ThreadStep(t) PROVE DirectoryInv'
    <2>1. CASE EndLoop(t) \/ Defer(t)
      <3>1. /\ UNCHANGED <<mode, life, inDirectory, dirsvc, reg, rlock, mine, events, listener>>
            /\ tpc' = [tpc EXCEPT ![t] = "off"] \/ tpc' = AfterFailure(t)
        BY <2>1 DEF EndLoop, Defer, outside
      <3>2. tpc' \in [RegistrationThreads -> TPlaces]
        BY <3>1, <1>t, <1>r DEF RegistrationTypes, TPlaces, AfterFailure
      <3>3. \A u \in RegistrationThreads : tpc'[u] \in InPass => tpc'[u] = tpc[u]
        BY <3>1, <1>t, <1>r DEF RegistrationTypes, InPass, AfterFailure
      <3> QED
        BY <3>1, <3>2, <3>3, QuietDirectory
    <2>2. CASE Begin(t)
      <3>1. /\ UNCHANGED <<mode, life, inDirectory, dirsvc, reg, events, listener>>
            /\ tpc' = [tpc EXCEPT ![t] = "look"] /\ mine' = [mine EXCEPT ![t] = <<1, 0>>]
            /\ mode = "site" => rlock = "free" /\ rlock' = t
        BY <2>2 DEF Begin, outside
      <3>2. \A u \in RegistrationThreads :
               /\ tpc'[u] = IF u = t THEN "look" ELSE tpc[u]
               /\ mine'[u] = IF u = t THEN <<1, 0>> ELSE mine[u]
        BY <3>1, <1>t DEF RegistrationTypes
      <3>3. RegistrationTypes'
        BY <3>1, <1>t DEF RegistrationTypes, Endpoints, TPlaces
      <3>4. ClientsAreOld'
        BY <3>1, <3>2, <1>t, SMTT(30) DEF RegistrationTypes, ClientsAreOld, Endpoints
      <3>5. PassHasLock'
        BY <3>1, <3>2, <1>t, <1>r DEF PassHasLock
      <3>6. NotingIsKnown' /\ NotedIsKnown'
        BY <3>1, <3>2, <1>t, SMTT(30) DEF NotingIsKnown, NotedIsKnown, Endpoints
      <3> QED
        BY <3>3, <3>4, <3>5, <3>6 DEF DirectoryInv
    \* What leaving a pass changes of the threads.
    <2>f. ASSUME tpc' = AfterFailure(t)
          PROVE  /\ tpc' \in [RegistrationThreads -> TPlaces]
                 /\ tpc'[t] \notin InPass
                 /\ \A u \in RegistrationThreads : tpc'[u] \in InPass => tpc'[u] = tpc[u]
      <3>1. tpc' \in [RegistrationThreads -> TPlaces]
        BY <2>f, <1>t, <1>r DEF RegistrationTypes, TPlaces, AfterFailure
      <3>2. tpc'[t] \notin InPass
        BY <2>f, <1>t, <1>r DEF RegistrationTypes, InPass, AfterFailure
      <3>3. \A u \in RegistrationThreads : tpc'[u] \in InPass => tpc'[u] = tpc[u]
        BY <2>f, <1>t, <1>r DEF RegistrationTypes, InPass, AfterFailure
      <3> QED
        BY <3>1, <3>2, <3>3
    \* A pass that fails changes neither notes nor clients.
    <2>g. ASSUME tpc' = AfterFailure(t), Unlock(t),
                 UNCHANGED <<mode, life, inDirectory, dirsvc, reg, mine, events, listener>>
          PROVE  DirectoryInv'
      <3>1. RegistrationTypes'
        BY <2>g, <2>f, <1>t DEF RegistrationTypes, Endpoints
      <3>2. ClientsAreOld'
        BY <2>g, <1>t DEF ClientsAreOld, Endpoints
      <3>3. PassHasLock'
        BY <2>g, <2>f, <1>t DEF PassHasLock, Unlock
      <3>4. NotingIsKnown'
        BY <2>g, <2>f, <1>t DEF NotingIsKnown, InPass
      <3>5. NotedIsKnown'
        BY <2>g, <1>t DEF NotedIsKnown, Endpoints
      <3> QED
        BY <3>1, <3>2, <3>3, <3>4, <3>5 DEF DirectoryInv
    <2>3. CASE Look(t)
      <3>1. tpc[t] = "look" /\ UNCHANGED <<mode, life, inDirectory, dirsvc, events, listener>>
        BY <2>3 DEF Look, outside
      <3>2. CASE dirsvc = 0
        BY <2>3, <3>2, <2>g, <3>1 DEF Look
      <3>3. CASE dirsvc # 0 /\ reg[mine[t][1]] = dirsvc
        <4> DEFINE last == mine[t][1] = Cardinality(Endpoints)
        <4>1. /\ tpc' = [tpc EXCEPT ![t] = IF last THEN "announce" ELSE "look"]
              /\ mine' = [mine EXCEPT ![t] = IF last THEN @ ELSE <<mine[t][1] + 1, 0>>]
              /\ UNCHANGED <<reg, rlock>>
          BY <2>3, <3>3 DEF Look
        <4> HIDE DEF last
        <4>2. /\ mine'[t] \in Nat \X Nat
              /\ mine'[t][2] \in {0, mine[t][2]}
              /\ \A u \in RegistrationThreads \ {t} : mine'[u] = mine[u]
              /\ mine' \in [RegistrationThreads -> Nat \X Nat]
          BY <4>1, <1>t, SMTT(30) DEF RegistrationTypes
        <4>3. /\ tpc'[t] \in {"announce", "look"}
              /\ \A u \in RegistrationThreads \ {t} : tpc'[u] = tpc[u]
              /\ tpc' \in [RegistrationThreads -> TPlaces]
          BY <4>1, <1>t DEF RegistrationTypes, TPlaces
        <4>4. RegistrationTypes'
          BY <3>1, <4>1, <4>2, <4>3, <1>t DEF RegistrationTypes, Endpoints
        <4>5. ClientsAreOld'
          <5>1. \A u \in RegistrationThreads : mine'[u][2] = 0 \/ mine'[u][2] = mine[u][2]
            BY <4>2
          <5>2. \A u \in RegistrationThreads :
                   mine'[u][2] <= life + 1 /\ (dirsvc = 0 => mine'[u][2] <= life)
            BY <5>1, <1>t, SMTT(30) DEF RegistrationTypes, ClientsAreOld
          <5> QED
            BY <3>1, <4>1, <5>2, <1>t DEF ClientsAreOld, Endpoints
        <4>6. PassHasLock'
          BY <3>1, <4>1, <4>3, <1>t DEF PassHasLock, InPass
        <4>7. NotingIsKnown' /\ NotedIsKnown'
          BY <3>1, <4>1, <4>2, <4>3, <1>t DEF NotingIsKnown, NotedIsKnown, Endpoints
        <4> QED
          BY <4>4, <4>5, <4>6, <4>7 DEF DirectoryInv
      <3>4. CASE dirsvc # 0 /\ reg[mine[t][1]] # dirsvc
        <4>1. /\ reg' = [reg EXCEPT ![mine[t][1]] = 0]
              /\ tpc' = [tpc EXCEPT ![t] = "register"]
              /\ mine' = [mine EXCEPT ![t] = <<mine[t][1], dirsvc>>]
              /\ UNCHANGED rlock
          BY <2>3, <3>4 DEF Look
        <4>2. /\ mine'[t] = <<mine[t][1], dirsvc>> /\ mine'[t][2] = dirsvc
              /\ \A u \in RegistrationThreads \ {t} : mine'[u] = mine[u]
              /\ mine' \in [RegistrationThreads -> Nat \X Nat]
          BY <4>1, <1>t DEF RegistrationTypes
        <4>3. /\ tpc'[t] = "register"
              /\ \A u \in RegistrationThreads \ {t} : tpc'[u] = tpc[u]
              /\ tpc' \in [RegistrationThreads -> TPlaces]
          BY <4>1, <1>t DEF RegistrationTypes, TPlaces
        <4>r. /\ reg' \in [Endpoints -> Nat]
              /\ \A e \in Endpoints : reg'[e] \in {0, reg[e]}
          BY <4>1, <1>t DEF RegistrationTypes
        <4>4. RegistrationTypes'
          BY <3>1, <4>r, <4>2, <4>3, <1>t DEF RegistrationTypes, Endpoints
        <4>5. ClientsAreOld'
          <5>1. \A u \in RegistrationThreads : mine'[u][2] = dirsvc \/ mine'[u][2] = mine[u][2]
            BY <4>2
          <5>2. \A u \in RegistrationThreads : mine'[u][2] <= life + 1
            BY <5>1, <1>t DEF ClientsAreOld
          <5>3. \A e \in Endpoints : reg'[e] <= life + 1
            BY <4>r, <1>t, SMTT(30) DEF RegistrationTypes, ClientsAreOld
          <5> QED
            BY <3>1, <3>4, <5>2, <5>3, <1>t DEF ClientsAreOld, Endpoints
        <4>6. PassHasLock'
          BY <3>1, <4>1, <4>3, <1>t DEF PassHasLock, InPass
        <4>7. NotingIsKnown' /\ NotedIsKnown'
          BY <3>1, <4>r, <4>2, <4>3, <1>t DEF NotingIsKnown, NotedIsKnown, Endpoints
        <4> QED
          BY <4>4, <4>5, <4>6, <4>7 DEF DirectoryInv
      <3> QED
        BY <3>2, <3>3, <3>4
    <2>4. CASE RegisterService(t)
      <3>1. tpc[t] = "register" /\ UNCHANGED <<mode, life, dirsvc, events, reg, mine, listener>>
        BY <2>4 DEF RegisterService
      <3>2. CASE tpc' = AfterFailure(t) /\ Unlock(t) /\ UNCHANGED inDirectory
        BY <3>1, <3>2, <2>g
      <3>3. CASE /\ inDirectory' = TRUE /\ UNCHANGED rlock
                 /\ tpc' = [tpc EXCEPT ![t] = "note"]
        <4>1. /\ tpc'[t] = "note" /\ \A u \in RegistrationThreads \ {t} : tpc'[u] = tpc[u]
              /\ tpc' \in [RegistrationThreads -> TPlaces]
          BY <3>3, <1>t DEF RegistrationTypes, TPlaces
        <4>2. RegistrationTypes'
          BY <3>1, <4>1, <1>t DEF RegistrationTypes, Endpoints
        <4>3. ClientsAreOld'
          BY <3>1, <1>t DEF ClientsAreOld, Endpoints
        <4>4. PassHasLock'
          BY <3>1, <3>3, <4>1, <1>t DEF PassHasLock, InPass
        <4>5. NotingIsKnown' /\ NotedIsKnown'
          BY <3>3 DEF NotingIsKnown, NotedIsKnown
        <4> QED
          BY <4>2, <4>3, <4>4, <4>5 DEF DirectoryInv
      <3> QED
        BY <2>4, <3>2, <3>3 DEF RegisterService
    <2>5. CASE Note(t)
      <3> DEFINE last == mine[t][1] = Cardinality(Endpoints)
      <3>1. /\ tpc[t] = "note" /\ reg' = [reg EXCEPT ![mine[t][1]] = mine[t][2]]
            /\ tpc' = [tpc EXCEPT ![t] = IF last THEN "announce" ELSE "look"]
            /\ mine' = [mine EXCEPT ![t] = IF last THEN @ ELSE <<mine[t][1] + 1, 0>>]
            /\ UNCHANGED <<mode, life, inDirectory, dirsvc, events, rlock, listener>>
        BY <2>5 DEF Note, outside
      <3> HIDE DEF last
      <3>2. /\ mine'[t] \in Nat \X Nat
            /\ mine'[t][2] \in {0, mine[t][2]}
            /\ \A u \in RegistrationThreads \ {t} : mine'[u] = mine[u]
            /\ mine' \in [RegistrationThreads -> Nat \X Nat]
        BY <3>1, <1>t, SMTT(30) DEF RegistrationTypes
      <3>3. /\ tpc'[t] \in {"announce", "look"}
            /\ \A u \in RegistrationThreads \ {t} : tpc'[u] = tpc[u]
            /\ tpc' \in [RegistrationThreads -> TPlaces]
        BY <3>1, <1>t DEF RegistrationTypes, TPlaces
      <3>4. /\ reg' \in [Endpoints -> Nat]
            /\ \A e \in Endpoints : reg'[e] \in {mine[t][2], reg[e]}
        BY <3>1, <1>t DEF RegistrationTypes
      <3>5. RegistrationTypes'
        BY <3>1, <3>2, <3>3, <3>4, <1>t DEF RegistrationTypes, Endpoints
      <3>6. ClientsAreOld'
        <4>1. \A u \in RegistrationThreads : mine'[u][2] = 0 \/ mine'[u][2] = mine[u][2]
          BY <3>2
        <4>2. \A u \in RegistrationThreads :
                 mine'[u][2] <= life + 1 /\ (dirsvc = 0 => mine'[u][2] <= life)
          BY <4>1, <1>t, SMTT(30) DEF RegistrationTypes, ClientsAreOld
        <4>3. \A e \in Endpoints : reg'[e] <= life + 1 /\ (dirsvc = 0 => reg'[e] <= life)
          BY <3>4, <1>t DEF ClientsAreOld
        <4> QED
          BY <3>1, <4>2, <4>3, <1>t DEF ClientsAreOld, Endpoints
      <3>7. PassHasLock'
        BY <3>1, <3>3, <1>t DEF PassHasLock, InPass
      <3>8. NotingIsKnown'
        BY <3>1, <3>2, <3>3, <1>t DEF NotingIsKnown
      <3>9. NotedIsKnown'
        BY <3>1, <3>4, <1>t DEF NotingIsKnown, NotedIsKnown, Endpoints
      <3> QED
        BY <3>5, <3>6, <3>7, <3>8, <3>9 DEF DirectoryInv
    <2>6. CASE Announce(t)
      <3>1. /\ Unlock(t) /\ mine' = [mine EXCEPT ![t] = <<1, 0>>]
            /\ tpc' = [tpc EXCEPT ![t] = IF t = "monitor" THEN "pass" ELSE "off"]
            /\ UNCHANGED <<mode, life, inDirectory, dirsvc, reg, events, listener>>
        BY <2>6 DEF Announce, outside
      <3>2. \A u \in RegistrationThreads :
               /\ tpc'[u] \in InPass => u # t /\ tpc'[u] = tpc[u]
               /\ mine'[u] = IF u = t THEN <<1, 0>> ELSE mine[u]
        BY <3>1, <1>t DEF RegistrationTypes, InPass
      <3>3. RegistrationTypes'
        BY <3>1, <1>t DEF RegistrationTypes, Endpoints, TPlaces
      <3>4. ClientsAreOld'
        BY <3>1, <3>2, <1>t, SMTT(30) DEF RegistrationTypes, ClientsAreOld, Endpoints
      <3>5. PassHasLock'
        BY <3>1, <3>2, <1>t DEF PassHasLock, Unlock
      <3>6. NotingIsKnown' /\ NotedIsKnown'
        BY <3>1, <3>2, <1>t, ZenonT(60) DEF NotingIsKnown, NotedIsKnown, Endpoints, InPass
      <3> QED
        BY <3>3, <3>4, <3>5, <3>6 DEF DirectoryInv
    <2> QED
      BY <1>4, <2>1, <2>2, <2>3, <2>4, <2>5, <2>6 DEF ThreadStep
  <1>5. CASE PeerEvent
    <2>1. /\ events' = events - 1 /\ events > 0 /\ listener' = "clear"
          /\ UNCHANGED <<mode, life, inDirectory, dirsvc, reg, rlock, tpc, mine>>
      BY <1>5 DEF PeerEvent
    <2>2. RegistrationTypes'
      BY <2>1, <1>t, SMTT(30) DEF RegistrationTypes, Endpoints
    <2>3. ClientsAreOld' /\ PassHasLock'
      BY <2>1, <1>t DEF ClientsAreOld, PassHasLock, Endpoints
    <2>4. NotingIsKnown' /\ NotedIsKnown'
      BY <2>1 DEF NotingIsKnown, NotedIsKnown
    <2> QED
      BY <2>2, <2>3, <2>4 DEF DirectoryInv
  <1>6. CASE ClearNotes
    <2>1. /\ rlock = "free" /\ reg' = [e \in Endpoints |-> 0] /\ listener' = "idle"
          /\ tpc' = [tpc EXCEPT !["monitor"] = IF @ = "off" THEN "pass" ELSE @]
          /\ UNCHANGED <<mode, life, inDirectory, dirsvc, events, rlock, mine>>
      BY <1>6 DEF ClearNotes, outside
    <2>2. tpc' \in [RegistrationThreads -> TPlaces]
      BY <2>1, <1>t, <1>r DEF RegistrationTypes, TPlaces
    <2>3. \A u \in RegistrationThreads : tpc'[u] \in InPass => tpc'[u] = tpc[u]
      BY <2>1, <1>t, <1>r DEF RegistrationTypes, InPass
    <2>4. RegistrationTypes'
      BY <2>1, <2>2, <1>t DEF RegistrationTypes, Endpoints
    <2>5. ClientsAreOld'
      BY <2>1, <1>t, SMTT(30) DEF RegistrationTypes, ClientsAreOld, Endpoints
    <2>6. PassHasLock'
      BY <2>1, <2>3, <1>t DEF PassHasLock
    <2>7. mode = "site" => \A u \in RegistrationThreads : tpc[u] \notin InPass
      BY <2>1, <1>t, <1>r DEF PassHasLock
    <2>8. NotingIsKnown'
      BY <2>1, <2>3, <2>7 DEF NotingIsKnown, InPass
    <2>9. NotedIsKnown'
      BY <2>1 DEF NotedIsKnown, Endpoints
    <2> QED
      BY <2>4, <2>5, <2>6, <2>8, <2>9 DEF DirectoryInv
  <1>7. CASE Connect
    <2>1. /\ dirsvc = 0 /\ dirsvc' = life + 1 /\ events' \in {events, events + 1}
          /\ UNCHANGED <<mode, life, inDirectory, reg, rlock, tpc, mine, listener>>
      BY <1>7 DEF Connect
    <2>2. RegistrationTypes'
      BY <2>1, <1>t, SMTT(30) DEF RegistrationTypes, Endpoints
    <2>3. ClientsAreOld'
      BY <2>1, <1>t, SMTT(30) DEF RegistrationTypes, ClientsAreOld, Endpoints
    <2>4. PassHasLock'
      BY <2>1, <1>t DEF PassHasLock
    <2>5. \A u \in RegistrationThreads : mine[u][2] # dirsvc'
      BY <2>1, <1>t, SMTT(30) DEF RegistrationTypes, ClientsAreOld
    <2>6. \A e \in Endpoints : reg[e] # dirsvc'
      BY <2>1, <1>t, SMTT(30) DEF RegistrationTypes, ClientsAreOld
    <2>7. NotingIsKnown' /\ NotedIsKnown'
      BY <2>1, <2>5, <2>6 DEF NotingIsKnown, NotedIsKnown, Endpoints
    <2> QED
      BY <2>2, <2>3, <2>4, <2>7 DEF DirectoryInv
  <1>8. CASE DirectoryRestarts
    <2>1. /\ dirsvc # 0 /\ life' = life + 1
          /\ \/ dirsvc' = dirsvc /\ events' = events + 1
             \/ dirsvc' \in {0, life + 2} /\ events' \in {events, events + 1}
          /\ UNCHANGED <<mode, reg, rlock, tpc, mine, listener>>
      BY <1>8 DEF DirectoryRestarts
    <2>2. RegistrationTypes'
      BY <2>1, <1>t, SMTT(30) DEF RegistrationTypes, Endpoints
    <2>3. ClientsAreOld'
      <3>1. \A u \in RegistrationThreads : mine[u][2] \in Nat /\ mine[u][2] <= life + 1
        BY <1>t DEF RegistrationTypes, ClientsAreOld
      <3>2. \A u \in RegistrationThreads : mine'[u][2] <= life' + 1 /\ mine'[u][2] <= life'
        BY <2>1, <3>1, <1>t, SMTT(30) DEF RegistrationTypes
      <3>3. \A e \in Endpoints : reg[e] \in Nat /\ reg[e] <= life + 1
        BY <1>t DEF RegistrationTypes, ClientsAreOld
      <3>4. \A e \in Endpoints : reg'[e] <= life' + 1 /\ reg'[e] <= life'
        BY <2>1, <3>3, <1>t, SMTT(30) DEF RegistrationTypes
      <3>5. dirsvc' <= life' + 1
        BY <2>1, <1>t, SMTT(30) DEF RegistrationTypes, ClientsAreOld
      <3> QED
        BY <2>1, <3>2, <3>4, <3>5 DEF ClientsAreOld, Endpoints
    <2>4. PassHasLock'
      BY <2>1, <1>t DEF PassHasLock
    <2>5. events' = 0 => \A u \in RegistrationThreads : mine[u][2] = 0 \/ mine[u][2] # dirsvc'
      BY <2>1, <1>t, SMTT(30) DEF RegistrationTypes, ClientsAreOld
    <2>6. events' = 0 => \A e \in Endpoints : reg[e] = 0 \/ reg[e] # dirsvc'
      BY <2>1, <1>t, SMTT(30) DEF RegistrationTypes, ClientsAreOld
    <2>7. NotingIsKnown' /\ NotedIsKnown'
      BY <2>1, <2>5, <2>6 DEF NotingIsKnown, NotedIsKnown, Endpoints
    <2> QED
      BY <2>2, <2>3, <2>4, <2>7 DEF DirectoryInv
  <1> QED
    BY <1>1, <1>2, <1>3, <1>4, <1>5, <1>6, <1>7, <1>8 DEF RegistrationNext

\* A noted registration is one the directory now running holds, in
\* long-running mode and once the peer events are handled, however many
\* endpoints there are and however often the directory restarts
\* (_ensure_site_registration and _invalidate_registration).
THEOREM NotesAreKnown == RegistrationSpec => []NotedIsKnown
  <1>1. DirectoryInv => NotedIsKnown
    BY DEF DirectoryInv
  <1> QED
    BY DirectoryInitially, DirectoryStep, <1>1, PTL DEF RegistrationSpec

-----------------------------------------------------------------------------
(* The sessions of the shim's drivers.                                     *)

\* What a session opened for r may be, with the keys ks and by way of v.
OwnSession(v, ks, r, s) ==
    /\ s.key # NoSetting
    /\ r \in ks => s.key = r /\ s.bill \notin SessionReservations \ {r}
    /\ v # "env" => /\ s.key \notin SessionReservations \ {r}
                    /\ s.bill \notin SessionReservations \ {r}

Constructing == {"enter", "again", "open"}

SessionTypes ==
    /\ via \in {"config", "env", "qdmi"}
    /\ DOMAIN opened = SessionReservations /\ DOMAIN tableGen = SessionReservations
    /\ DOMAIN evicting = SessionReservations
    /\ built \in [SessionReservations -> Nat]
    /\ DOMAIN wpc = Openers /\ DOMAIN wlock = Openers
    /\ DOMAIN wset = Openers /\ DOMAIN wuse = Openers

\* Whose settings are where.
SettingsInv ==
    /\ via # "env" => /\ environ.key \notin SessionReservations
                      /\ environ.bill \notin SessionReservations
    /\ \A r \in SessionReservations :
          opened[r] # NoSession => OwnSession(via, keyed, r, opened[r])
    /\ \A w \in Openers :
          /\ wpc[w] = "use" => OwnSession(via, keyed, WorksFor[w], wuse[w])
          /\ via = "config" /\ wpc[w] \in Constructing =>
                OwnSession(via, keyed, WorksFor[w], wset[w])
          /\ via = "qdmi" /\ wpc[w] = "open" =>
                OwnSession(via, keyed, WorksFor[w], wset[w])
          /\ via = "env" /\ family # "pasqal" /\ wpc[w] = "open" =>
                OwnSession(via, keyed, WorksFor[w], environ)

\* Who holds which construction lock.
LocksInv ==
    /\ \A w \in Openers : wpc[w] \in {"again", "open"} => wlock[w] \in guard
    /\ \A w, x \in Openers :
          w # x /\ wpc[w] \in {"again", "open"} /\ wpc[x] \in {"again", "open"} =>
             wlock[w] # wlock[x]
    /\ \A w \in Openers : wpc[w] \in Constructing =>
          /\ via = "env" => wlock[w] = EnvLock
          /\ via # "env" /\ evicting[WorksFor[w]] = "no" => wlock[w] = LockFor(WorksFor[w])

\* While a reservation lasts, a session that was opened is cached, and nobody
\* is about to open another.
OpenedInv ==
    /\ \A r \in SessionReservations :
          built[r] <= 1 /\ (evicting[r] = "no" /\ built[r] # 0 => opened[r] # NoSession)
    /\ \A w \in Openers :
          wpc[w] = "open" /\ evicting[WorksFor[w]] = "no" => opened[WorksFor[w]] = NoSession

SessionInv == SessionTypes /\ SettingsInv /\ LocksInv /\ OpenedInv

\* Settings resolved for a reservation are its own (_ibm_settings,
\* _iqm_isa_settings, _pasqal_cloud_settings and _access).
LEMMA SettingsAreOwn ==
    ASSUME SessionTypes, NEW r \in SessionReservations,
           via # "env" => /\ environ.key \notin SessionReservations
                          /\ environ.bill \notin SessionReservations
    PROVE  OwnSession(via, keyed, r, Settings(r))
  <1>1. r \notin {"unset", "operator", "service", "device"}
    BY SessionAssumption
  <1>2. {"unset", "operator", "service", "device"} \cap SessionReservations = {}
    BY SessionAssumption
  <1>3. /\ Access(r).key = IF r \in keyed THEN r ELSE "service"
        /\ Access(r).bill = IF r \in Billed THEN r ELSE "unset"
    BY DEF Access, NoSetting
  <1>4. Settings(r) \in {IqmSettings(r), IbmSettings(r), PasqalSettings(r)}
    BY DEF Settings
  <1>5. OwnSession(via, keyed, r, IqmSettings(r))
    BY <1>1, <1>2, <1>3 DEF OwnSession, IqmSettings, IdentifiesCaller, Or, NoSetting
  <1>6. OwnSession(via, keyed, r, IbmSettings(r))
    BY <1>1, <1>2, <1>3 DEF OwnSession, IbmSettings, IdentifiesCaller, Or, NoSetting
  <1>7. OwnSession(via, keyed, r, PasqalSettings(r))
    BY <1>1, <1>2, <1>3 DEF OwnSession, PasqalSettings, Or, NoSetting
  <1> QED
    BY <1>4, <1>5, <1>6, <1>7

\* A driver starts without sessions and with no settings but the operator's.
LEMMA SessionInitially == SessionsInit => SessionInv
  <1> SUFFICES ASSUME SessionsInit PROVE SessionInv
    OBVIOUS
  <1>1. /\ \A w \in Openers : wpc[w] = "new" /\ WorksFor[w] \in SessionReservations
        /\ \A r \in SessionReservations : opened[r] = NoSession /\ built[r] = 0
    BY SessionAssumption DEF SessionsInit
  <1>2. SessionTypes
    BY DEF SessionsInit, SessionTypes
  <1>3. environ.key \notin SessionReservations /\ environ.bill \notin SessionReservations
    BY SessionAssumption, SMTT(30) DEF SessionsInit, NoSetting
  <1>4. SettingsInv
    BY <1>1, <1>3 DEF SettingsInv, Constructing
  <1>5. LocksInv
    BY <1>1 DEF LocksInv, Constructing
  <1>6. OpenedInv
    BY <1>1, SMTT(30) DEF OpenedInv
  <1> QED
    BY <1>2, <1>4, <1>5, <1>6 DEF SessionInv

\* Every step of every thread keeps the invariant of the sessions.
LEMMA SessionStep == SessionInv /\ [SessionsNext]_svars => SessionInv'
  <1> SUFFICES ASSUME SessionInv, [SessionsNext]_svars PROVE SessionInv'
    OBVIOUS
  <1>i. SessionTypes /\ SettingsInv /\ LocksInv /\ OpenedInv
    BY DEF SessionInv
  <1>w. \A w \in Openers : WorksFor[w] \in SessionReservations
    BY SessionAssumption
  <1>1. ASSUME NEW w \in Openers, StartWork(w) PROVE SessionInv'
    <2>1. /\ wpc' = [wpc EXCEPT ![w] = "look"]
          /\ UNCHANGED <<keyed, via, family, environ, opened, tableGen, guard, wlock,
                         wset, wuse, evicting, built>>
      BY <1>1 DEF StartWork, At
    <2>2. wpc'[w] = "look" /\ \A x \in Openers \ {w} : wpc'[x] = wpc[x]
      BY <2>1, <1>i DEF SessionTypes
    <2>3. SessionTypes'
      BY <2>1, <1>i DEF SessionTypes
    <2>4. SettingsInv'
      BY <2>1, <2>2, <1>i DEF SettingsInv, Constructing
    <2>5. LocksInv'
      BY <2>1, <2>2, <1>i DEF LocksInv, LockFor, Constructing
    <2>6. OpenedInv'
      BY <2>1, <2>2, <1>i DEF OpenedInv
    <2> QED
      BY <2>3, <2>4, <2>5, <2>6 DEF SessionInv
  <1>2. ASSUME NEW w \in Openers, LookUp(w) PROVE SessionInv'
    <2>1. UNCHANGED <<keyed, via, family, environ, opened, tableGen, guard, evicting, built>>
      BY <1>2 DEF LookUp
    <2>2. CASE opened[WorksFor[w]] # NoSession
      <3>1. /\ wuse' = [wuse EXCEPT ![w] = opened[WorksFor[w]]]
            /\ wpc' = [wpc EXCEPT ![w] = "use"] /\ UNCHANGED <<wlock, wset>>
        BY <1>2, <2>2 DEF LookUp
      <3>2. /\ wpc'[w] = "use" /\ wuse'[w] = opened[WorksFor[w]]
            /\ \A x \in Openers \ {w} : wpc'[x] = wpc[x] /\ wuse'[x] = wuse[x]
        BY <3>1, <1>i DEF SessionTypes
      <3>3. SessionTypes'
        BY <2>1, <3>1, <1>i DEF SessionTypes
      <3>4. SettingsInv'
        BY <2>1, <2>2, <3>1, <3>2, <1>i, <1>w, ZenonT(60) DEF SettingsInv, Constructing
      <3>5. LocksInv'
        BY <2>1, <3>1, <3>2, <1>i DEF LocksInv, LockFor, Constructing
      <3>6. OpenedInv'
        BY <2>1, <3>2, <1>i DEF OpenedInv
      <3> QED
        BY <3>3, <3>4, <3>5, <3>6 DEF SessionInv
    <2>3. CASE opened[WorksFor[w]] = NoSession
      <3>1. /\ wlock' = [wlock EXCEPT ![w] = IF via = "env" THEN EnvLock
                                             ELSE LockFor(WorksFor[w])]
            /\ wset' = [wset EXCEPT ![w] = IF via = "config" THEN Settings(WorksFor[w]) ELSE @]
            /\ wpc' = [wpc EXCEPT ![w] = "enter"] /\ UNCHANGED wuse
        BY <1>2, <2>3 DEF LookUp
      <3>2. /\ wpc'[w] = "enter"
            /\ wlock'[w] = IF via = "env" THEN EnvLock ELSE LockFor(WorksFor[w])
            /\ via = "config" => wset'[w] = Settings(WorksFor[w])
            /\ \A x \in Openers \ {w} :
                  wpc'[x] = wpc[x] /\ wlock'[x] = wlock[x] /\ wset'[x] = wset[x]
        BY <3>1, <1>i DEF SessionTypes
      <3>3. SessionTypes'
        BY <2>1, <3>1, <1>i DEF SessionTypes
      <3>4. OwnSession(via, keyed, WorksFor[w], Settings(WorksFor[w]))
        BY SettingsAreOwn, <1>i, <1>w DEF SettingsInv
      <3>5. SettingsInv'
        BY <2>1, <3>1, <3>2, <3>4, <1>i DEF SettingsInv, Constructing
      <3>6. LocksInv'
        BY <2>1, <3>2, <1>i, ZenonT(60) DEF LocksInv, LockFor, Constructing
      <3>7. OpenedInv'
        BY <2>1, <3>2, <1>i DEF OpenedInv
      <3> QED
        BY <3>3, <3>5, <3>6, <3>7 DEF SessionInv
    <2> QED
      BY <2>2, <2>3
  <1>3. ASSUME NEW w \in Openers, Enter(w) PROVE SessionInv'
    <2>1. /\ wpc[w] = "enter" /\ wpc' = [wpc EXCEPT ![w] = "again"]
          /\ wlock[w] \notin guard /\ guard' = guard \cup {wlock[w]}
          /\ UNCHANGED <<keyed, via, family, environ, opened, tableGen, wlock,
                         wset, wuse, evicting, built>>
      BY <1>3 DEF Enter, At
    <2>2. wpc'[w] = "again" /\ \A x \in Openers \ {w} : wpc'[x] = wpc[x]
      BY <2>1, <1>i DEF SessionTypes
    <2>3. SessionTypes'
      BY <2>1, <1>i DEF SessionTypes
    <2>4. SettingsInv'
      BY <2>1, <2>2, <1>i DEF SettingsInv, Constructing
    <2>5. LocksInv'
      BY <2>1, <2>2, <1>i, SMTT(30) DEF LocksInv, LockFor, Constructing
    <2>6. OpenedInv'
      BY <2>1, <2>2, <1>i DEF OpenedInv
    <2> QED
      BY <2>3, <2>4, <2>5, <2>6 DEF SessionInv
  <1>4. ASSUME NEW w \in Openers, LookAgain(w) PROVE SessionInv'
    <2>1. /\ wpc[w] = "again"
          /\ UNCHANGED <<keyed, via, family, opened, tableGen, wlock, evicting, built>>
      BY <1>4 DEF LookAgain
    <2>2. CASE opened[WorksFor[w]] # NoSession
      <3>1. /\ wuse' = [wuse EXCEPT ![w] = opened[WorksFor[w]]]
            /\ wset' = [wset EXCEPT ![w] = NoSession]
            /\ guard' = guard \ {wlock[w]}
            /\ wpc' = [wpc EXCEPT ![w] = "use"] /\ UNCHANGED environ
        BY <1>4, <2>2 DEF LookAgain, IsOpen
      <3>2. /\ wpc'[w] = "use" /\ wuse'[w] = opened[WorksFor[w]]
            /\ \A x \in Openers \ {w} :
                  wpc'[x] = wpc[x] /\ wuse'[x] = wuse[x] /\ wset'[x] = wset[x]
        BY <3>1, <1>i DEF SessionTypes
      <3>3. SessionTypes'
        BY <2>1, <3>1, <1>i DEF SessionTypes
      <3>4. SettingsInv'
        BY <2>1, <2>2, <3>1, <3>2, <1>i, <1>w, SMTT(30) DEF SettingsInv, Constructing
      <3>5. LocksInv'
        BY <2>1, <3>1, <3>2, <1>i DEF LocksInv, LockFor, Constructing
      <3>6. OpenedInv'
        BY <2>1, <3>2, <1>i DEF OpenedInv
      <3> QED
        BY <3>3, <3>4, <3>5, <3>6 DEF SessionInv
    <2>3. CASE opened[WorksFor[w]] = NoSession
      <3>1. wpc' = [wpc EXCEPT ![w] = "open"] /\ UNCHANGED <<wuse, guard>>
        BY <1>4, <2>3 DEF LookAgain, IsOpen
      <3>2. wpc'[w] = "open" /\ \A x \in Openers \ {w} : wpc'[x] = wpc[x]
        BY <3>1, <1>i DEF SessionTypes
      <3>3. OwnSession(via, keyed, WorksFor[w], Settings(WorksFor[w]))
        BY SettingsAreOwn, <1>i, <1>w DEF SettingsInv
      <3>4. LocksInv'
        BY <2>1, <3>1, <3>2, <1>i, SMTT(30) DEF LocksInv, LockFor, Constructing
      <3>5. OpenedInv'
        BY <2>1, <2>3, <3>2, <1>i DEF OpenedInv
      <3>6. CASE via = "env" /\ family # "pasqal"
        <4>1. environ' = Settings(WorksFor[w]) /\ UNCHANGED wset
          BY <1>4, <2>3, <3>6 DEF LookAgain, IsOpen
        <4>2. \A x \in Openers \ {w} : wpc[x] # "open"
          BY <2>1, <3>6, <1>i DEF LocksInv, Constructing
        <4>3. SettingsInv'
          BY <2>1, <3>1, <3>2, <3>3, <3>6, <4>1, <4>2, <1>i DEF SettingsInv, Constructing
        <4>4. SessionTypes'
          BY <2>1, <3>1, <4>1, <1>i DEF SessionTypes
        <4> QED
          BY <3>4, <3>5, <4>3, <4>4 DEF SessionInv
      <3>7. CASE ~(via = "env" /\ family # "pasqal")
        <4>1. /\ wset' = [wset EXCEPT ![w] = IF via = "qdmi" THEN Settings(WorksFor[w]) ELSE @]
              /\ UNCHANGED environ
          BY <1>4, <2>3, <3>7 DEF LookAgain, IsOpen
        <4>2. /\ wset'[w] = IF via = "qdmi" THEN Settings(WorksFor[w]) ELSE wset[w]
              /\ \A x \in Openers \ {w} : wset'[x] = wset[x]
          BY <4>1, <1>i DEF SessionTypes
        <4>3. SettingsInv'
          BY <2>1, <3>1, <3>2, <3>3, <3>7, <4>1, <4>2, <1>i, ZenonT(60) DEF SettingsInv, Constructing
        <4>4. SessionTypes'
          BY <2>1, <3>1, <4>1, <1>i DEF SessionTypes
        <4> QED
          BY <3>4, <3>5, <4>3, <4>4 DEF SessionInv
      <3> QED
        BY <3>6, <3>7
    <2> QED
      BY <2>2, <2>3
  <1>5. ASSUME NEW w \in Openers, Open(w) PROVE SessionInv'
    <2> DEFINE r == WorksFor[w]
    <2>0. PICK s : s = IF via = "env" THEN environ ELSE wset[w]
      OBVIOUS
    <2>1. /\ wpc[w] = "open" /\ guard' = guard \ {wlock[w]}
          /\ wlock' = [wlock EXCEPT ![w] = NoLock]
          /\ wset' = [wset EXCEPT ![w] = NoSession]
          /\ UNCHANGED <<keyed, via, family, environ, tableGen, evicting>>
      BY <1>5 DEF Open
    <2>2. \/ /\ ~(via = "env" /\ family = "pasqal")
             /\ opened' = [opened EXCEPT ![r] = s]
             /\ wuse' = [wuse EXCEPT ![w] = s]
             /\ built' = [built EXCEPT ![r] = IF evicting[r] = "no" THEN @ + 1 ELSE @]
             /\ wpc' = [wpc EXCEPT ![w] = "use"]
          \/ wpc' = [wpc EXCEPT ![w] = "over"] /\ UNCHANGED <<opened, wuse, built>>
      BY <1>5, <2>0 DEF Open
    <2>3. /\ wpc'[w] \in {"use", "over"}
          /\ \A x \in Openers \ {w} :
                wpc'[x] = wpc[x] /\ wlock'[x] = wlock[x] /\ wset'[x] = wset[x]
      BY <2>1, <2>2, <1>i DEF SessionTypes
    <2>4. SessionTypes'
      BY <2>1, <2>2, <1>i, <1>w, SMTT(30) DEF SessionTypes
    <2>5. LocksInv'
      BY <2>1, <2>3, <1>i, SMTT(30) DEF LocksInv, LockFor, Constructing
    <2>6. CASE wpc' = [wpc EXCEPT ![w] = "over"] /\ UNCHANGED <<opened, wuse, built>>
      <3>1. wpc'[w] = "over"
        BY <2>6, <1>i DEF SessionTypes
      <3>2. SettingsInv'
        BY <2>1, <2>3, <2>6, <3>1, <1>i DEF SettingsInv, Constructing
      <3>3. OpenedInv'
        BY <2>1, <2>3, <2>6, <3>1, <1>i DEF OpenedInv
      <3> QED
        BY <2>4, <2>5, <3>2, <3>3 DEF SessionInv
    <2>7. CASE /\ ~(via = "env" /\ family = "pasqal")
               /\ opened' = [opened EXCEPT ![r] = s]
               /\ wuse' = [wuse EXCEPT ![w] = s]
               /\ built' = [built EXCEPT ![r] = IF evicting[r] = "no" THEN @ + 1 ELSE @]
               /\ wpc' = [wpc EXCEPT ![w] = "use"]
      <3>1. OwnSession(via, keyed, r, s)
        BY <2>0, <2>1, <2>7, <1>i DEF SessionTypes, SettingsInv, Constructing
      <3>2. s # NoSession
        BY <3>1, SMTT(30) DEF OwnSession, NoSession
      <3>3. /\ wpc'[w] = "use" /\ wuse'[w] = s
            /\ \A x \in Openers \ {w} : wuse'[x] = wuse[x]
            /\ opened'[r] = s
            /\ built'[r] = IF evicting[r] = "no" THEN built[r] + 1 ELSE built[r]
            /\ \A q \in SessionReservations \ {r} : opened'[q] = opened[q] /\ built'[q] = built[q]
        BY <2>7, <1>i, <1>w DEF SessionTypes
      <3>4. SettingsInv'
        <4>1. \A q \in SessionReservations :
                 opened'[q] # NoSession => OwnSession(via', keyed', q, opened'[q])
          BY <2>1, <3>1, <3>3, <1>i DEF SettingsInv
        <4>2. wpc'[w] = "use" /\ OwnSession(via', keyed', WorksFor[w], wuse'[w])
          BY <2>1, <3>1, <3>3
        <4>3. \A x \in Openers \ {w} :
                 /\ wpc'[x] = "use" => OwnSession(via', keyed', WorksFor[x], wuse'[x])
                 /\ via' = "config" /\ wpc'[x] \in Constructing =>
                       OwnSession(via', keyed', WorksFor[x], wset'[x])
                 /\ via' = "qdmi" /\ wpc'[x] = "open" =>
                       OwnSession(via', keyed', WorksFor[x], wset'[x])
                 /\ via' = "env" /\ family' # "pasqal" /\ wpc'[x] = "open" =>
                       OwnSession(via', keyed', WorksFor[x], environ')
          BY <2>1, <2>3, <3>3, <1>i DEF SettingsInv
        <4> QED
          BY <2>1, <4>1, <4>2, <4>3, <1>i DEF SettingsInv, Constructing
      <3>5. evicting[r] = "no" => built[r] = 0
        BY <2>1, <1>i, <1>w DEF OpenedInv
      <3>6. \A x \in Openers \ {w} :
               wpc[x] = "open" /\ evicting[WorksFor[x]] = "no" => WorksFor[x] # r
        BY <2>1, <1>i DEF LocksInv, Constructing
      <3>7. OpenedInv'
        <4>1. \A q \in SessionReservations :
                 built'[q] <= 1 /\ (evicting'[q] = "no" /\ built'[q] # 0 => opened'[q] # NoSession)
          BY <2>1, <3>2, <3>3, <3>5, <1>i, <1>w, SMTT(30) DEF OpenedInv, SessionTypes
        <4>2. \A x \in Openers : wpc'[x] = "open" /\ evicting'[WorksFor[x]] = "no" =>
                 opened'[WorksFor[x]] = NoSession
          BY <2>1, <2>3, <3>3, <3>6, <1>i, <1>w, ZenonT(60) DEF OpenedInv
        <4> QED
          BY <4>1, <4>2 DEF OpenedInv
      <3> QED
        BY <2>4, <2>5, <3>4, <3>7 DEF SessionInv
    <2> QED
      BY <2>2, <2>6, <2>7
  <1>6. ASSUME NEW w \in Openers, Use(w) PROVE SessionInv'
    <2>1. /\ \E next \in {"look", "over"} : wpc' = [wpc EXCEPT ![w] = next]
          /\ wuse' = [wuse EXCEPT ![w] = NoSession]
          /\ UNCHANGED <<keyed, via, family, environ, opened, tableGen, guard, wlock, wset,
                         evicting, built>>
      BY <1>6 DEF Use
    <2>2. /\ wpc'[w] \in {"look", "over"}
          /\ \A x \in Openers \ {w} : wpc'[x] = wpc[x] /\ wuse'[x] = wuse[x]
      BY <2>1, <1>i DEF SessionTypes
    <2>3. SessionTypes'
      BY <2>1, <1>i DEF SessionTypes
    <2>4. SettingsInv'
      BY <2>1, <2>2, <1>i DEF SettingsInv, Constructing
    <2>5. LocksInv'
      BY <2>1, <2>2, <1>i DEF LocksInv, LockFor, Constructing
    <2>6. OpenedInv'
      BY <2>1, <2>2, <1>i DEF OpenedInv
    <2> QED
      BY <2>3, <2>4, <2>5, <2>6 DEF SessionInv
  <1>7. ASSUME NEW r \in SessionReservations, EvictReservation(r) PROVE SessionInv'
    <2>1. /\ opened' = [opened EXCEPT ![r] = NoSession]
          /\ evicting' = [evicting EXCEPT ![r] = "drop"]
          /\ UNCHANGED <<keyed, via, family, environ, tableGen, guard, wpc, wlock, wset,
                         wuse, built>>
      BY <1>7 DEF EvictReservation
    <2>2. /\ opened'[r] = NoSession /\ evicting'[r] = "drop"
          /\ \A q \in SessionReservations \ {r} :
                opened'[q] = opened[q] /\ evicting'[q] = evicting[q]
      BY <2>1, <1>i DEF SessionTypes
    <2>3. SessionTypes'
      BY <2>1, <1>i DEF SessionTypes
    <2>4. SettingsInv'
      BY <2>1, <2>2, <1>i DEF SettingsInv
    <2>5. LocksInv'
      BY <2>1, <2>2, <1>i, <1>w DEF LocksInv, LockFor
    <2>6. OpenedInv'
      BY <2>1, <2>2, <1>i, <1>w DEF OpenedInv
    <2> QED
      BY <2>3, <2>4, <2>5, <2>6 DEF SessionInv
  <1>8. ASSUME NEW r \in SessionReservations, DropLock(r) PROVE SessionInv'
    <2>1. /\ evicting' = [evicting EXCEPT ![r] = "dropped"]
          /\ tableGen' = IF via = "qdmi" THEN tableGen ELSE [tableGen EXCEPT ![r] = @ + 1]
          /\ UNCHANGED <<keyed, via, family, environ, opened, guard, wpc, wlock, wset,
                         wuse, built>>
      BY <1>8 DEF DropLock
    <2>2. /\ evicting'[r] = "dropped"
          /\ \A q \in SessionReservations \ {r} :
                evicting'[q] = evicting[q] /\ tableGen'[q] = tableGen[q]
      BY <2>1, <1>i DEF SessionTypes
    <2>3. SessionTypes'
      BY <2>1, <1>i DEF SessionTypes
    <2>4. SettingsInv'
      BY <2>1, <1>i DEF SettingsInv
    <2>5. LocksInv'
      BY <2>1, <2>2, <1>i, <1>w DEF LocksInv, LockFor
    <2>6. OpenedInv'
      BY <2>1, <2>2, <1>i, <1>w DEF OpenedInv
    <2> QED
      BY <2>3, <2>4, <2>5, <2>6 DEF SessionInv
  <1>9. CASE UNCHANGED svars
    BY <1>9, <1>i DEF svars, SessionInv, SessionTypes, SettingsInv, LocksInv, LockFor, OpenedInv
  <1> QED
    BY <1>1, <1>2, <1>3, <1>4, <1>5, <1>6, <1>7, <1>8, <1>9 DEF SessionsNext

\* Every circuit runs on a session of its own reservation, and a reservation
\* that lasts has one session, for any number of reservations and threads
\* (_qpu, _backend and evict_reservation).
THEOREM SessionsAreOwned == SessionsSpec => []SessionsOwned
  <1>1. SessionInv => SessionsOwned
    BY DEF SessionInv, SettingsInv, OpenedInv, OwnSession, SessionsOwned, SessionIsOwn, OneSession
  <1> QED
    BY SessionInitially, SessionStep, <1>1, PTL DEF SessionsSpec

-----------------------------------------------------------------------------
(* The runs of a base directory.                                           *)

Starting == {"start", "list"}

RunTypes ==
    /\ rstate \in [Runs -> [exists : BOOLEAN, job : Jobs \cup {NoRun},
                            managers : SUBSET RoleIds, complete : BOOLEAN]]
    /\ marker \in Runs \cup {NoRun}
    /\ DOMAIN plane = Runs /\ \A r \in Runs : DOMAIN plane[r] = RoleIds
    /\ env \in [Jobs -> [tmp : Runs \cup {NoRun}, id : Runs \cup {NoRun}]]
    /\ DOMAIN at = Jobs /\ DOMAIN run = Jobs /\ DOMAIN bad = Jobs
    /\ step \in [Jobs -> Nat]
    /\ listed \in [Jobs -> SUBSET RoleIds]

\* An environment names a run by both variables, or by neither.
EnvsPaired == \A j \in Jobs : env[j].tmp = NoRun <=> env[j].id = NoRun

\* A run that is, or was, has the job that prepared it, and only that job
\* ever starts planes of it.
RunsHaveJobs ==
    /\ \A r \in Runs : rstate[r].job = NoRun => ~rstate[r].exists /\ rstate[r].managers = {}
    /\ \A j \in Jobs :
          /\ at[j] # "idle" => run[j] \in Runs /\ rstate[run[j]].job # NoRun
          /\ at[j] \in Starting => rstate[run[j]].job = j /\ step[j] > 0
          /\ at[j] = "idle" => listed[j] = {}
          /\ at[j] = "list" => step[j] \in RoleIds

\* What is listed, in the state or in a copy of it, has been started before.
ListedIsStarted ==
    /\ \A j \in Jobs : at[j] \in Starting =>
          /\ \A k \in listed[j] : k < step[j]
          /\ \A k \in rstate[run[j]].managers : k < step[j]
    /\ \A i, j \in Jobs :
          at[i] \in Starting /\ at[j] = "teardown" /\ run[i] = run[j] =>
             \A k \in listed[j] : k < step[i]

\* What a teardown has passed without an error is down.
PassedIsDown ==
    \A j \in Jobs : at[j] = "teardown" /\ ~bad[j] =>
        \A k \in listed[j] : k > step[j] => plane[run[j]][k] # "up"

RunInv == RunTypes /\ EnvsPaired /\ RunsHaveJobs /\ ListedIsStarted /\ PassedIsDown

\* A base directory starts without runs.
LEMMA RunsInitially == SetupInit => RunInv
  <1> SUFFICES ASSUME SetupInit PROVE RunInv
    OBVIOUS
  <1>1. /\ \A j \in Jobs : at[j] = "idle" /\ listed[j] = {}
        /\ \A j \in Jobs : env[j].tmp = NoRun /\ env[j].id = NoRun
        /\ \A r \in Runs : rstate[r] = NoRunState
    BY DEF SetupInit
  <1>2. /\ NoRunState \in [exists : BOOLEAN, job : Jobs \cup {NoRun},
                           managers : SUBSET RoleIds, complete : BOOLEAN]
        /\ ~NoRunState.exists /\ NoRunState.managers = {} /\ NoRunState.job = NoRun
    BY DEF NoRunState
  <1>3. RunTypes
    BY <1>2 DEF RunTypes, SetupInit
  <1>4. EnvsPaired
    BY <1>1 DEF EnvsPaired
  <1>5. RunsHaveJobs
    BY <1>1, <1>2 DEF RunsHaveJobs, Starting
  <1>6. ListedIsStarted /\ PassedIsDown
    BY <1>1 DEF ListedIsStarted, PassedIsDown, Starting
  <1> QED
    BY <1>3, <1>4, <1>5, <1>6 DEF RunInv

\* A job that is through with its command leaves nothing to keep.
LEMMA DoneKeeps ==
    ASSUME RunInv, NEW j \in Jobs, Done(j), at[j] # "idle",
           UNCHANGED <<plane, env>>, marker' \in Runs \cup {NoRun},
           rstate' \in [Runs -> [exists : BOOLEAN, job : Jobs \cup {NoRun},
                                 managers : SUBSET RoleIds, complete : BOOLEAN]],
           \A r \in Runs : /\ rstate'[r].job = rstate[r].job
                           /\ rstate'[r].managers \subseteq rstate[r].managers
                           /\ rstate'[r].exists => rstate[r].exists
    PROVE  RunInv'
  <1>i. RunTypes /\ EnvsPaired /\ RunsHaveJobs /\ ListedIsStarted /\ PassedIsDown
    BY DEF RunInv
  <1>1. /\ at' = [at EXCEPT ![j] = "idle"] /\ step' = [step EXCEPT ![j] = 0]
        /\ run' = [run EXCEPT ![j] = NoRun] /\ listed' = [listed EXCEPT ![j] = {}]
        /\ bad' = [bad EXCEPT ![j] = FALSE]
    BY DEF Done, Move
  <1>2. /\ at'[j] = "idle" /\ listed'[j] = {}
        /\ \A i \in Jobs \ {j} : /\ at'[i] = at[i] /\ step'[i] = step[i] /\ run'[i] = run[i]
                                 /\ listed'[i] = listed[i] /\ bad'[i] = bad[i]
    BY <1>1, <1>i DEF RunTypes
  <1>3. RunTypes'
    BY <1>1, <1>i DEF RunTypes
  <1>4. EnvsPaired'
    BY <1>i DEF EnvsPaired
  <1>5. RunsHaveJobs'
    BY <1>2, <1>i, SMTT(30) DEF RunsHaveJobs, Starting
  <1>6. ListedIsStarted'
    BY <1>2, <1>i, SMTT(30) DEF ListedIsStarted, RunsHaveJobs, Starting
  <1>7. PassedIsDown'
    BY <1>2, <1>i, SMTT(30) DEF PassedIsDown
  <1> QED
    BY <1>3, <1>4, <1>5, <1>6, <1>7 DEF RunInv

\* Every step of every job keeps the invariant of the runs.
LEMMA RunStep == RunInv /\ [SetupNext]_uvars => RunInv'
  <1> SUFFICES ASSUME RunInv, [SetupNext]_uvars PROVE RunInv'
    OBVIOUS
  <1>i. RunTypes /\ EnvsPaired /\ RunsHaveJobs /\ ListedIsStarted /\ PassedIsDown
    BY DEF RunInv
  <1>a. NoRun \notin Runs /\ NoRun \notin Jobs /\ Len(Roles) \in Nat
    BY RunsAssumption
  <1>1. ASSUME NEW j \in Jobs, SourceEnv(j) \/ Inherit(j) PROVE RunInv'
    <2>1. UNCHANGED <<rstate, marker, plane, at, run, step, listed, bad>>
      BY <1>1 DEF SourceEnv, Inherit
    <2>2. CASE SourceEnv(j)
      <3>1. PICK r \in Runs : env' = [env EXCEPT ![j] = [tmp |-> r, id |-> r]]
        BY <2>2 DEF SourceEnv
      <3>2. env' \in [Jobs -> [tmp : Runs \cup {NoRun}, id : Runs \cup {NoRun}]]
        BY <3>1, <1>i DEF RunTypes
      <3>3. EnvsPaired'
        BY <3>1, <1>i DEF EnvsPaired, RunTypes
      <3> QED
        BY <2>1, <3>2, <3>3, <1>i, ZenonT(60) DEF RunInv, RunTypes, RunsHaveJobs, ListedIsStarted, PassedIsDown
    <2>3. CASE Inherit(j)
      <3>1. PICK i \in Jobs : env' = [env EXCEPT ![j] = env[i]]
        BY <2>3 DEF Inherit
      <3>2. env' \in [Jobs -> [tmp : Runs \cup {NoRun}, id : Runs \cup {NoRun}]]
        BY <3>1, <1>i DEF RunTypes
      <3>3. EnvsPaired'
        BY <3>1, <1>i DEF EnvsPaired, RunTypes
      <3> QED
        BY <2>1, <3>2, <3>3, <1>i, ZenonT(60) DEF RunInv, RunTypes, RunsHaveJobs, ListedIsStarted, PassedIsDown
    <2> QED
      BY <1>1, <2>2, <2>3
  <1>2. ASSUME NEW j \in Jobs, PrepareRunState(j) PROVE RunInv'
    <2>1. /\ at[j] = "idle" /\ at' = [at EXCEPT ![j] = "start"]
          /\ step' = [step EXCEPT ![j] = 1]
          /\ UNCHANGED <<plane, env, listed, bad>>
      BY <1>2 DEF PrepareRunState, Move
    <2>2. RunIds(j) = FreshRuns
      BY <1>i DEF RunIds, EnvsPaired
    <2>3. PICK r \in FreshRuns :
             /\ run' = [run EXCEPT ![j] = r]
             /\ rstate' = [rstate EXCEPT ![r] = [NoRunState EXCEPT !.exists = TRUE, !.job = j]]
             /\ marker' = r
      BY <1>2, <2>2 DEF PrepareRunState
    <2>4. r \in Runs /\ rstate[r].job = NoRun
      BY <2>3 DEF FreshRuns
    <2>5. PICK new : new = [NoRunState EXCEPT !.exists = TRUE, !.job = j]
      OBVIOUS
    <2>6. /\ new \in [exists : BOOLEAN, job : Jobs \cup {NoRun},
                      managers : SUBSET RoleIds, complete : BOOLEAN]
          /\ new.job = j /\ new.managers = {}
      BY <2>5 DEF NoRunState
    <2>7. /\ rstate' = [rstate EXCEPT ![r] = new]
          /\ rstate'[r] = new
          /\ \A q \in Runs \ {r} : rstate'[q] = rstate[q]
      BY <2>3, <2>4, <2>5, <1>i DEF RunTypes
    <2>8. /\ at'[j] = "start" /\ step'[j] = 1 /\ run'[j] = r
          /\ \A i \in Jobs \ {j} : at'[i] = at[i] /\ step'[i] = step[i] /\ run'[i] = run[i]
      BY <2>1, <2>3, <1>i DEF RunTypes
    <2>9. \A i \in Jobs : at[i] # "idle" => run[i] # r
      BY <2>4, <1>i DEF RunsHaveJobs
    <2>10. listed[j] = {}
      BY <2>1, <1>i DEF RunsHaveJobs
    <2>11. RunTypes'
      BY <2>1, <2>3, <2>4, <2>6, <2>7, <1>i DEF RunTypes
    <2>12. EnvsPaired'
      BY <2>1, <1>i DEF EnvsPaired
    <2>13. RunsHaveJobs'
      <3>1. \A q \in Runs : rstate'[q].job = NoRun =>
               ~rstate'[q].exists /\ rstate'[q].managers = {}
        BY <2>6, <2>7, <1>a, <1>i, SMTT(30) DEF RunsHaveJobs
      <3>2. /\ run'[j] \in Runs /\ rstate'[run'[j]].job = j /\ step'[j] > 0
            /\ at'[j] = "start" /\ j # NoRun
        BY <2>4, <2>6, <2>7, <2>8, <1>a, SMTT(30)
      <3>3. \A i \in Jobs \ {j} :
               /\ at'[i] # "idle" => run'[i] \in Runs /\ rstate'[run'[i]].job # NoRun
               /\ at'[i] \in Starting => rstate'[run'[i]].job = i /\ step'[i] > 0
               /\ at'[i] = "idle" => listed'[i] = {}
               /\ at'[i] = "list" => step'[i] \in RoleIds
        BY <2>1, <2>7, <2>8, <2>9, <1>i, SMTT(30) DEF RunsHaveJobs, Starting
      <3> QED
        BY <3>1, <3>2, <3>3 DEF RunsHaveJobs, Starting
    <2>14. ListedIsStarted'
      <3>1. \A i \in Jobs : at'[i] \in Starting =>
               /\ \A k \in listed'[i] : k < step'[i]
               /\ \A k \in rstate'[run'[i]].managers : k < step'[i]
        BY <2>1, <2>6, <2>7, <2>8, <2>9, <2>10, <1>i, SMTT(30) DEF ListedIsStarted, RunsHaveJobs, Starting
      <3>2. \A h, i \in Jobs :
               at'[h] \in Starting /\ at'[i] = "teardown" /\ run'[h] = run'[i] =>
                  \A k \in listed'[i] : k < step'[h]
        BY <2>1, <2>8, <2>9, <1>i, ZenonT(60) DEF ListedIsStarted, Starting
      <3> QED
        BY <3>1, <3>2 DEF ListedIsStarted
    <2>15. PassedIsDown'
      BY <2>1, <2>8, <1>i, ZenonT(60) DEF PassedIsDown
    <2> QED
      BY <2>11, <2>12, <2>13, <2>14, <2>15 DEF RunInv
  <1>3. ASSUME NEW j \in Jobs, StartRole(j) PROVE RunInv'
    <2>1. /\ at[j] = "start" /\ step[j] <= Len(Roles)
          /\ UNCHANGED <<rstate, marker, env, run, listed, bad>>
          /\ \/ /\ at' = [at EXCEPT ![j] = "list"]
                /\ step' = [step EXCEPT ![j] = step[j]]
             \/ /\ at' = [at EXCEPT ![j] = "clean"]
                /\ step' = [step EXCEPT ![j] = Len(Roles)]
      BY <1>3 DEF StartRole, Move
    <2>2. PICK v : plane' = [plane EXCEPT ![run[j]][step[j]] = v]
      BY <1>3 DEF StartRole
    <2>3. /\ \/ at'[j] = "list" /\ step'[j] = step[j]
             \/ at'[j] = "clean"
          /\ \A i \in Jobs \ {j} : at'[i] = at[i] /\ step'[i] = step[i]
      BY <2>1, <1>i DEF RunTypes
    <2>4. run[j] \in Runs /\ step[j] \in RoleIds
      BY <2>1, <1>i, <1>a, SMTT(30) DEF RunTypes, RunsHaveJobs, RoleIds, Starting
    <2>5. /\ \A r \in Runs : DOMAIN plane'[r] = RoleIds
          /\ DOMAIN plane' = Runs
          /\ \A r \in Runs, k \in RoleIds : r # run[j] \/ k # step[j] => plane'[r][k] = plane[r][k]
      BY <2>2, <2>4, <1>i DEF RunTypes
    <2>6. RunTypes'
      BY <2>1, <2>5, <1>i, <1>a, SMTT(30) DEF RunTypes
    <2>7. EnvsPaired'
      BY <2>1, <1>i DEF EnvsPaired
    <2>8. RunsHaveJobs'
      BY <2>1, <2>3, <2>4, <1>i, ZenonT(60) DEF RunsHaveJobs, Starting
    <2>9. ListedIsStarted'
      BY <2>1, <2>3, <1>i DEF ListedIsStarted, Starting
    <2>10. PassedIsDown'
      <3>1. ASSUME NEW i \in Jobs, at[i] = "teardown", NEW k \in listed[i]
            PROVE  run[i] # run[j] \/ k # step[j]
        BY <3>1, <2>1, <1>i, SMTT(30) DEF ListedIsStarted, Starting, RunTypes, RoleIds
      <3>2. \A i \in Jobs : at'[i] = "teardown" => i # j /\ at[i] = "teardown" /\ run[i] \in Runs
        BY <2>3, <1>i DEF RunsHaveJobs
      <3> QED
        BY <2>1, <2>3, <2>5, <3>1, <3>2, <1>i, SMTT(30) DEF PassedIsDown, RunTypes
    <2> QED
      BY <2>6, <2>7, <2>8, <2>9, <2>10 DEF RunInv
  <1>4. ASSUME NEW j \in Jobs, ListManager(j) PROVE RunInv'
    <2>1. /\ at[j] = "list" /\ listed' = [listed EXCEPT ![j] = @ \cup {step[j]}]
          /\ UNCHANGED <<marker, plane, env, run, bad>>
      BY <1>4 DEF ListManager
    <2>2. \/ /\ rstate' = [rstate EXCEPT ![run[j]].managers = listed'[j]]
             /\ rstate[run[j]].exists
             /\ at' = [at EXCEPT ![j] = "start"] /\ step' = [step EXCEPT ![j] = step[j] + 1]
          \/ /\ UNCHANGED rstate
             /\ at' = [at EXCEPT ![j] = "clean"] /\ step' = [step EXCEPT ![j] = Len(Roles)]
      BY <1>4 DEF ListManager, Move
    <2>3. /\ run[j] \in Runs /\ step[j] \in RoleIds /\ step[j] \in Nat
          /\ rstate[run[j]].job = j
      BY <2>1, <1>i DEF RunsHaveJobs, RunTypes, Starting
    <2>4. /\ listed'[j] = listed[j] \cup {step[j]} /\ listed'[j] \subseteq RoleIds
          /\ \A k \in listed'[j] : k <= step[j]
          /\ \A i \in Jobs \ {j} : listed'[i] = listed[i]
      BY <2>1, <2>3, <1>i, SMTT(30) DEF RunTypes, ListedIsStarted, Starting, RoleIds
    <2>5. /\ \/ at'[j] = "start" /\ step'[j] = step[j] + 1
             \/ at'[j] = "clean"
          /\ \A i \in Jobs \ {j} : at'[i] = at[i] /\ step'[i] = step[i]
      BY <2>2, <1>i DEF RunTypes
    <2>r. rstate[run[j]] \in [exists : BOOLEAN, job : Jobs \cup {NoRun},
                              managers : SUBSET RoleIds, complete : BOOLEAN]
      BY <2>3, <1>i DEF RunTypes
    <2>p. PICK s : s = [rstate[run[j]] EXCEPT !.managers = listed'[j]]
      OBVIOUS
    <2>s. /\ s \in [exists : BOOLEAN, job : Jobs \cup {NoRun},
                    managers : SUBSET RoleIds, complete : BOOLEAN]
          /\ s.job = rstate[run[j]].job /\ s.exists = rstate[run[j]].exists
          /\ s.managers = listed'[j]
          /\ [rstate EXCEPT ![run[j]].managers = listed'[j]] = [rstate EXCEPT ![run[j]] = s]
      <3>1. /\ s.job = rstate[run[j]].job /\ s.exists = rstate[run[j]].exists
            /\ s.managers = listed'[j]
        BY <2>p, <2>r
      <3>2. s \in [exists : BOOLEAN, job : Jobs \cup {NoRun},
                   managers : SUBSET RoleIds, complete : BOOLEAN]
        BY <2>p, <2>r, <2>4
      <3>3. [rstate EXCEPT ![run[j]].managers = listed'[j]] = [rstate EXCEPT ![run[j]] = s]
        BY <2>p
      <3> QED
        BY <3>1, <3>2, <3>3
    <2>6. /\ \A r \in Runs : /\ rstate'[r].job = rstate[r].job
                             /\ rstate'[r].exists = rstate[r].exists
          /\ \A r \in Runs \ {run[j]} : rstate'[r] = rstate[r]
          /\ at'[j] = "start" =>
                rstate'[run[j]].managers = listed'[j] /\ rstate[run[j]].exists
      BY <2>2, <2>3, <2>s, <1>i, ZenonT(60) DEF RunTypes
    <2>7. rstate' \in [Runs -> [exists : BOOLEAN, job : Jobs \cup {NoRun},
                                managers : SUBSET RoleIds, complete : BOOLEAN]]
      BY <2>2, <2>3, <2>s, <1>i, ZenonT(60) DEF RunTypes
    <2>8. RunTypes'
      BY <2>1, <2>2, <2>4, <2>7, <1>i, <1>a, SMTT(30) DEF RunTypes
    <2>9. EnvsPaired'
      BY <2>1, <1>i DEF EnvsPaired
    <2>10. RunsHaveJobs'
      <3>1. \A r \in Runs : rstate'[r].job = NoRun =>
               ~rstate'[r].exists /\ rstate'[r].managers = {}
        BY <2>3, <2>6, <1>a, <1>i, SMTT(30) DEF RunsHaveJobs
      <3>2. \A i \in Jobs : at'[i] # "idle" =>
               at[i] # "idle" /\ run'[i] \in Runs /\ rstate'[run'[i]].job # NoRun
        BY <2>1, <2>5, <2>6, <1>i, ZenonT(60) DEF RunsHaveJobs
      <3>3. \A i \in Jobs : at'[i] \in Starting => rstate'[run'[i]].job = i /\ step'[i] > 0
        BY <2>1, <2>3, <2>5, <2>6, <1>i, SMTT(30) DEF RunsHaveJobs, Starting
      <3>4. \A i \in Jobs : /\ at'[i] = "idle" => listed'[i] = {}
                            /\ at'[i] = "list" => step'[i] \in RoleIds
        BY <2>4, <2>5, <1>i, ZenonT(60) DEF RunsHaveJobs
      <3> QED
        BY <3>1, <3>2, <3>3, <3>4 DEF RunsHaveJobs
    <2>11. \A i \in Jobs \ {j} : at[i] \in Starting => run[i] # run[j]
      BY <2>1, <1>i, ZenonT(60) DEF RunsHaveJobs, Starting
    <2>12. ListedIsStarted'
      <3>1. at'[j] \in Starting =>
               /\ \A k \in listed'[j] : k < step'[j]
               /\ \A k \in rstate'[run'[j]].managers : k < step'[j]
        <4> SUFFICES ASSUME at'[j] \in Starting
                     PROVE  /\ \A k \in listed'[j] : k < step'[j]
                            /\ \A k \in rstate'[run'[j]].managers : k < step'[j]
          OBVIOUS
        <4>1. at'[j] = "start" /\ step'[j] = step[j] + 1
          BY <2>5 DEF Starting
        <4>2. rstate'[run'[j]].managers = listed'[j]
          BY <4>1, <2>1, <2>6
        <4>3. \A k \in listed'[j] : k \in Nat /\ k <= step[j]
          BY <2>4, SMTT(30) DEF RoleIds
        <4>4. \A k \in listed'[j] : k < step'[j]
          BY <4>1, <4>3, <2>3, SMTT(30)
        <4> QED
          BY <4>2, <4>4
      <3>2. \A i \in Jobs \ {j} : at'[i] \in Starting =>
               /\ \A k \in listed'[i] : k < step'[i]
               /\ \A k \in rstate'[run'[i]].managers : k < step'[i]
        BY <2>1, <2>4, <2>5, <2>6, <2>11, <1>i, SMTT(30) DEF ListedIsStarted, RunsHaveJobs, Starting
      <3>3. \A h, i \in Jobs :
               at'[h] \in Starting /\ at'[i] = "teardown" /\ run'[h] = run'[i] =>
                  \A k \in listed'[i] : k < step'[h]
        <4> SUFFICES ASSUME NEW h \in Jobs, NEW i \in Jobs, at'[h] \in Starting,
                            at'[i] = "teardown", run'[h] = run'[i], NEW k \in listed'[i]
                     PROVE  k < step'[h]
          OBVIOUS
        <4>1. i # j /\ at[i] = "teardown" /\ k \in listed[i] /\ at[h] \in Starting
              /\ run[h] = run[i]
          BY <2>1, <2>4, <2>5 DEF Starting
        <4>2. k < step[h] /\ k \in Nat
          BY <4>1, <1>i, SMTT(30) DEF ListedIsStarted, RunTypes, RoleIds
        <4> QED
          BY <4>2, <2>3, <2>5, SMTT(30) DEF Starting
      <3> QED
        BY <3>1, <3>2, <3>3 DEF ListedIsStarted
    <2>13. PassedIsDown'
      BY <2>1, <2>4, <2>5, <1>i DEF PassedIsDown
    <2> QED
      BY <2>8, <2>9, <2>10, <2>12, <2>13 DEF RunInv
  <1>5. ASSUME NEW j \in Jobs, CompleteSetup(j) PROVE RunInv'
    <2>1. /\ at[j] = "start" /\ UNCHANGED <<marker, plane, env>>
          /\ \/ rstate' = [rstate EXCEPT ![run[j]].complete = TRUE] /\ Done(j)
             \/ Move(j, "clean", Len(Roles)) /\ UNCHANGED <<rstate, run, listed, bad>>
      BY <1>5 DEF CompleteSetup
    <2>2. CASE rstate' = [rstate EXCEPT ![run[j]].complete = TRUE] /\ Done(j)
      <3>1. /\ rstate' \in [Runs -> [exists : BOOLEAN, job : Jobs \cup {NoRun},
                                     managers : SUBSET RoleIds, complete : BOOLEAN]]
            /\ \A r \in Runs : /\ rstate'[r].job = rstate[r].job
                               /\ rstate'[r].managers \subseteq rstate[r].managers
                               /\ rstate'[r].exists => rstate[r].exists
        <4>1. run[j] \in Runs
          BY <2>1, <1>i DEF RunsHaveJobs
        <4>2. rstate[run[j]] \in [exists : BOOLEAN, job : Jobs \cup {NoRun},
                                  managers : SUBSET RoleIds, complete : BOOLEAN]
          BY <4>1, <1>i DEF RunTypes
        <4>3. PICK s : s = [rstate[run[j]] EXCEPT !.complete = TRUE]
          OBVIOUS
        <4>4. /\ s.job = rstate[run[j]].job /\ s.exists = rstate[run[j]].exists
              /\ s.managers = rstate[run[j]].managers
          BY <4>2, <4>3
        <4>5. s \in [exists : BOOLEAN, job : Jobs \cup {NoRun},
                     managers : SUBSET RoleIds, complete : BOOLEAN]
          BY <4>2, <4>3
        <4>6. rstate' = [rstate EXCEPT ![run[j]] = s]
          BY <2>2, <4>3
        <4> QED
          BY <4>1, <4>4, <4>5, <4>6, <1>i DEF RunTypes
      <3>2. marker' \in Runs \cup {NoRun} /\ at[j] # "idle"
        BY <2>1, <1>i DEF RunTypes
      <3> QED
        BY <2>1, <2>2, <3>1, <3>2, DoneKeeps
    <2>3. CASE Move(j, "clean", Len(Roles)) /\ UNCHANGED <<rstate, run, listed, bad>>
      <3>1. /\ at'[j] = "clean" /\ \A i \in Jobs \ {j} : at'[i] = at[i] /\ step'[i] = step[i]
        BY <2>3, <1>i DEF RunTypes, Move
      <3>2. RunTypes'
        BY <2>1, <2>3, <1>i, <1>a DEF RunTypes, Move
      <3>3. EnvsPaired'
        BY <2>1, <1>i DEF EnvsPaired
      <3>4. RunsHaveJobs'
        BY <2>1, <2>3, <3>1, <1>i, ZenonT(60) DEF RunsHaveJobs, Starting
      <3>5. ListedIsStarted' /\ PassedIsDown'
        BY <2>1, <2>3, <3>1, <1>i DEF ListedIsStarted, PassedIsDown, Starting
      <3> QED
        BY <3>2, <3>3, <3>4, <3>5 DEF RunInv
    <2> QED
      BY <2>1, <2>2, <2>3
  <1>6. ASSUME NEW j \in Jobs, StopManager(j) PROVE RunInv'
    <2>1. /\ at[j] \in {"clean", "teardown"} /\ step[j] > 0
          /\ at' = [at EXCEPT ![j] = at[j]] /\ step' = [step EXCEPT ![j] = step[j] - 1]
          /\ UNCHANGED <<rstate, marker, env, run, listed>>
      BY <1>6 DEF StopManager, Move
    <2>2. \/ /\ step[j] \in listed[j]
             /\ plane' = [plane EXCEPT ![run[j]][step[j]] = "down"] /\ UNCHANGED bad
          \/ bad' = [bad EXCEPT ![j] = TRUE] /\ UNCHANGED plane
          \/ step[j] \notin listed[j] /\ UNCHANGED <<plane, bad>>
      BY <1>6 DEF StopManager
    <2>3. /\ \A i \in Jobs : at'[i] = at[i]
          /\ step'[j] = step[j] - 1 /\ step[j] \in Nat
          /\ \A i \in Jobs \ {j} : step'[i] = step[i]
      BY <2>1, <1>i DEF RunTypes
    <2>4. run[j] \in Runs
      BY <2>1, <1>i DEF RunsHaveJobs
    <2>5. /\ DOMAIN plane' = Runs /\ \A r \in Runs : DOMAIN plane'[r] = RoleIds
          /\ \A r \in Runs, k \in RoleIds : plane'[r][k] = plane[r][k] \/ plane'[r][k] = "down"
      <3>1. CASE plane' = plane
        BY <3>1, <1>i DEF RunTypes
      <3>2. CASE /\ step[j] \in RoleIds
                 /\ plane' = [plane EXCEPT ![run[j]][step[j]] = "down"]
        <4>1. PICK f : f = [plane[run[j]] EXCEPT ![step[j]] = "down"]
          OBVIOUS
        <4>2. DOMAIN f = RoleIds /\ \A k \in RoleIds : f[k] = plane[run[j]][k] \/ f[k] = "down"
          BY <2>4, <4>1, <1>i DEF RunTypes
        <4>3. plane' = [plane EXCEPT ![run[j]] = f]
          BY <3>2, <4>1
        <4>4. DOMAIN plane = Runs
          BY <1>i DEF RunTypes
        <4>5. /\ DOMAIN plane' = Runs /\ plane'[run[j]] = f
              /\ \A r \in Runs \ {run[j]} : plane'[r] = plane[r]
          BY <2>4, <4>3, <4>4
        <4> QED
          BY <4>2, <4>5, <1>i DEF RunTypes
      <3> QED
        BY <2>2, <3>1, <3>2, <1>i DEF RunTypes
    <2>6. RunTypes'
      BY <2>1, <2>2, <2>3, <2>5, <1>i, SMTT(30) DEF RunTypes
    <2>7. EnvsPaired'
      BY <2>1, <1>i DEF EnvsPaired
    <2>8. RunsHaveJobs'
      BY <2>1, <2>3, <1>i, ZenonT(60) DEF RunsHaveJobs, Starting
    <2>9. ListedIsStarted'
      BY <2>1, <2>3, <1>i, ZenonT(60) DEF ListedIsStarted, Starting
    <2>10. PassedIsDown'
      <3> SUFFICES ASSUME NEW i \in Jobs, at'[i] = "teardown", ~bad'[i],
                          NEW k \in listed'[i], k > step'[i]
                   PROVE  plane'[run'[i]][k] # "up"
        BY DEF PassedIsDown
      <3>1. at[i] = "teardown" /\ k \in listed[i] /\ k \in RoleIds /\ k \in Nat /\ run[i] \in Runs
        BY <2>1, <2>3, <1>i, SMTT(30) DEF RunsHaveJobs, RunTypes, RoleIds
      <3>2. CASE i # j
        <4>1. ~bad[i]
          BY <2>2, <3>2, <1>i DEF RunTypes
        <4>2. plane[run[i]][k] # "up"
          BY <2>3, <3>1, <3>2, <4>1, <1>i DEF PassedIsDown
        <4> QED
          BY <2>1, <2>5, <3>1, <4>2
      <3>3. CASE i = j
        <4>1. ~bad[j] /\ ~(bad' = [bad EXCEPT ![j] = TRUE])
          BY <2>2, <3>3, <1>i DEF RunTypes
        <4>2. CASE k > step[j]
          <5>1. plane[run[j]][k] # "up"
            BY <3>1, <3>3, <4>1, <4>2, <1>i DEF PassedIsDown
          <5> QED
            BY <2>1, <2>5, <3>1, <3>3, <5>1
        <4>3. CASE k = step[j]
          <5>1. plane' = [plane EXCEPT ![run[j]][step[j]] = "down"]
            BY <2>2, <3>1, <3>3, <4>1, <4>3
          <5> QED
            BY <5>1, <2>1, <2>4, <3>1, <3>3, <4>3, <1>i DEF RunTypes
        <4> QED
          BY <4>2, <4>3, <2>3, <3>1, <3>3, SMTT(30)
      <3> QED
        BY <3>2, <3>3
    <2> QED
      BY <2>6, <2>7, <2>8, <2>9, <2>10 DEF RunInv
  <1>7. ASSUME NEW j \in Jobs, SetupFailed(j) \/ KillSetup(j) PROVE RunInv'
    <2>1. /\ Done(j) /\ at[j] # "idle" /\ UNCHANGED <<rstate, plane, env>>
          /\ marker' \in {marker, NoRun}
      BY <1>7 DEF SetupFailed, KillSetup, Unmark
    <2>2. /\ marker' \in Runs \cup {NoRun}
          /\ rstate' \in [Runs -> [exists : BOOLEAN, job : Jobs \cup {NoRun},
                                   managers : SUBSET RoleIds, complete : BOOLEAN]]
          /\ \A r \in Runs : rstate'[r] = rstate[r]
      BY <2>1, <1>i DEF RunTypes
    <2> QED
      BY <2>1, <2>2, DoneKeeps
  <1>8. ASSUME NEW j \in Jobs, Teardown(j) PROVE RunInv'
    <2>0. PICK r : r = CurrentRunDir(j)
      OBVIOUS
    <2>1. /\ at[j] = "idle" /\ r # NoRun /\ rstate[r].exists
          /\ run' = [run EXCEPT ![j] = r] /\ listed' = [listed EXCEPT ![j] = rstate[r].managers]
          /\ at' = [at EXCEPT ![j] = "teardown"] /\ step' = [step EXCEPT ![j] = Len(Roles)]
          /\ UNCHANGED <<rstate, marker, plane, env, bad>>
      BY <1>8, <2>0 DEF Teardown, Move
    <2>2. r \in Runs
      BY <2>0, <2>1, <1>i DEF CurrentRunDir, RunTypes
    <2>3. rstate[r].job # NoRun /\ rstate[r].managers \subseteq RoleIds
      BY <2>1, <2>2, <1>i DEF RunsHaveJobs, RunTypes
    <2>4. /\ at'[j] = "teardown" /\ run'[j] = r /\ step'[j] = Len(Roles)
          /\ listed'[j] = rstate[r].managers
          /\ \A i \in Jobs \ {j} : /\ at'[i] = at[i] /\ run'[i] = run[i]
                                   /\ step'[i] = step[i] /\ listed'[i] = listed[i]
      BY <2>1, <1>i DEF RunTypes
    <2>5. RunTypes'
      BY <2>1, <2>2, <2>3, <1>i, <1>a DEF RunTypes
    <2>6. EnvsPaired'
      BY <2>1, <1>i DEF EnvsPaired
    <2>7. RunsHaveJobs'
      BY <2>1, <2>2, <2>3, <2>4, <1>i, SMTT(30) DEF RunsHaveJobs, Starting
    <2>8. ListedIsStarted'
      <3>1. \A i \in Jobs : at'[i] \in Starting =>
               /\ \A k \in listed'[i] : k < step'[i]
               /\ \A k \in rstate'[run'[i]].managers : k < step'[i]
        BY <2>1, <2>4, <1>i DEF ListedIsStarted, Starting
      <3>2. \A h, i \in Jobs :
               at'[h] \in Starting /\ at'[i] = "teardown" /\ run'[h] = run'[i] =>
                  \A k \in listed'[i] : k < step'[h]
        BY <2>1, <2>4, <1>i, SMTT(30) DEF ListedIsStarted, Starting
      <3> QED
        BY <3>1, <3>2 DEF ListedIsStarted
    <2>9. PassedIsDown'
      BY <2>1, <2>3, <2>4, <1>i, <1>a, SMTT(30) DEF PassedIsDown, RoleIds
    <2> QED
      BY <2>5, <2>6, <2>7, <2>8, <2>9 DEF RunInv
  <1>9. ASSUME NEW j \in Jobs, EndTeardown(j) PROVE RunInv'
    <2>1. /\ at[j] = "teardown" /\ Done(j) /\ UNCHANGED <<plane, env>>
          /\ marker' \in {marker, NoRun}
          /\ rstate' = rstate \/ rstate' = [rstate EXCEPT ![run[j]] = Removed(rstate[run[j]])]
      BY <1>9 DEF EndTeardown, Unmark
    <2>2. run[j] \in Runs
      BY <2>1, <1>i DEF RunsHaveJobs
    <2>3. PICK gone : gone = Removed(rstate[run[j]])
      OBVIOUS
    <2>4. /\ gone \in [exists : BOOLEAN, job : Jobs \cup {NoRun},
                       managers : SUBSET RoleIds, complete : BOOLEAN]
          /\ gone.job = rstate[run[j]].job /\ gone.managers = {} /\ ~gone.exists
      BY <2>2, <2>3, <1>i DEF Removed, NoRunState, RunTypes
    <2>5. rstate' = rstate \/ rstate' = [rstate EXCEPT ![run[j]] = gone]
      BY <2>1, <2>3
    <2>6. /\ rstate' \in [Runs -> [exists : BOOLEAN, job : Jobs \cup {NoRun},
                                   managers : SUBSET RoleIds, complete : BOOLEAN]]
          /\ \A r \in Runs : /\ rstate'[r].job = rstate[r].job
                             /\ rstate'[r].managers \subseteq rstate[r].managers
                             /\ rstate'[r].exists => rstate[r].exists
      <3>0. rstate \in [Runs -> [exists : BOOLEAN, job : Jobs \cup {NoRun},
                                 managers : SUBSET RoleIds, complete : BOOLEAN]]
        BY <1>i DEF RunTypes
      <3>1. CASE rstate' = rstate
        BY <3>0, <3>1
      <3>2. CASE rstate' = [rstate EXCEPT ![run[j]] = gone]
        <4>1. /\ rstate' \in [Runs -> [exists : BOOLEAN, job : Jobs \cup {NoRun},
                                       managers : SUBSET RoleIds, complete : BOOLEAN]]
              /\ rstate'[run[j]] = gone
              /\ \A r \in Runs : r # run[j] => rstate'[r] = rstate[r]
          BY <2>2, <2>4, <3>0, <3>2, SMTT(30)
        <4>2. ASSUME NEW r \in Runs
              PROVE  /\ rstate'[r].job = rstate[r].job
                     /\ rstate'[r].managers \subseteq rstate[r].managers
                     /\ rstate'[r].exists => rstate[r].exists
          <5>1. CASE r = run[j]
            BY <2>4, <4>1, <5>1
          <5>2. CASE r # run[j]
            <6>1. rstate'[r] = rstate[r]
              BY <4>1, <5>2
            <6> QED
              BY <6>1
          <5> QED
            BY <5>1, <5>2
        <4> QED
          BY <4>1, <4>2
      <3> QED
        BY <2>5, <3>1, <3>2
    <2>7. marker' \in Runs \cup {NoRun}
      BY <2>1, <1>i DEF RunTypes
    <2> QED
      BY <2>1, <2>6, <2>7, DoneKeeps
  <1>10. CASE UNCHANGED uvars
    BY <1>10, <1>i, ZenonT(60) DEF uvars, RunInv, RunTypes, EnvsPaired, RunsHaveJobs, ListedIsStarted,
                       PassedIsDown
  <1> QED
    BY <1>1, <1>2, <1>3, <1>4, <1>5, <1>6, <1>7, <1>8, <1>9, <1>10 DEF SetupNext

\* The end of a teardown that leaves a plane up keeps the state
\* (qfw_teardown removes the run directory only without errors).
LEMMA ListedIsKept ==
    ASSUME RunInv, SetupNext, NEW j \in Jobs, at[j] = "teardown", at'[j] = "idle",
           NEW k \in listed[j], plane[run[j]][k] = "up"
    PROVE  rstate'[run[j]] = rstate[run[j]]
  <1>i. RunTypes /\ RunsHaveJobs /\ PassedIsDown
    BY DEF RunInv
  <1>1. PICK i \in Jobs :
           \/ SourceEnv(i) \/ Inherit(i) \/ PrepareRunState(i) \/ StartRole(i)
           \/ ListManager(i) \/ CompleteSetup(i) \/ StopManager(i) \/ SetupFailed(i)
           \/ Teardown(i) \/ EndTeardown(i) \/ KillSetup(i)
    BY DEF SetupNext
  <1>2. CASE SourceEnv(i) \/ Inherit(i) \/ StartRole(i) \/ StopManager(i) \/ SetupFailed(i)
             \/ Teardown(i) \/ KillSetup(i)
    BY <1>2 DEF SourceEnv, Inherit, StartRole, StopManager, SetupFailed, Teardown, KillSetup
  <1>3. CASE PrepareRunState(i) \/ ListManager(i) \/ CompleteSetup(i)
    <2>1. /\ at[i] \in {"idle", "list", "start"}
          /\ \E v : at' = [at EXCEPT ![i] = v]
      BY <1>3 DEF PrepareRunState, ListManager, CompleteSetup, Move, Done
    <2>2. i # j
      BY <2>1
    <2> QED
      BY <2>1, <2>2, <1>i DEF RunTypes
  <1>4. CASE EndTeardown(i)
    <2>1. /\ at[i] = "teardown" /\ at' = [at EXCEPT ![i] = "idle"] /\ step[i] = 0
          /\ bad[i] => UNCHANGED rstate
      BY <1>4 DEF EndTeardown, MayRemove, Done, Move
    <2>2. i = j
      BY <2>1, <1>i DEF RunTypes
    <2>3. k \in Nat /\ k > 0
      BY <1>i, SMTT(30) DEF RunTypes, RoleIds
    <2>4. bad[j]
      BY <2>1, <2>2, <2>3, <1>i DEF PassedIsDown
    <2> QED
      BY <2>1, <2>2, <2>4
  <1> QED
    BY <1>1, <1>2, <1>3, <1>4

\* prepare_run_state takes the id of no run that exists: what
\* discard_inherited_environment leaves makes a new one.
LEMMA RunIsNew ==
    ASSUME RunInv, SetupNext, NEW j \in Jobs, at[j] = "idle", at'[j] = "start"
    PROVE  ~rstate[run'[j]].exists
  <1>i. RunTypes /\ EnvsPaired /\ RunsHaveJobs
    BY DEF RunInv
  <1>1. PICK i \in Jobs :
           \/ SourceEnv(i) \/ Inherit(i) \/ PrepareRunState(i) \/ StartRole(i)
           \/ ListManager(i) \/ CompleteSetup(i) \/ StopManager(i) \/ SetupFailed(i)
           \/ Teardown(i) \/ EndTeardown(i) \/ KillSetup(i)
    BY DEF SetupNext
  <1>2. CASE SourceEnv(i) \/ Inherit(i)
    BY <1>2 DEF SourceEnv, Inherit
  <1>3. CASE StartRole(i) \/ ListManager(i) \/ CompleteSetup(i) \/ StopManager(i)
             \/ SetupFailed(i) \/ EndTeardown(i) \/ KillSetup(i)
    <2>1. at[i] # "idle" /\ \E v : at' = [at EXCEPT ![i] = v]
      BY <1>3 DEF StartRole, ListManager, CompleteSetup, StopManager, SetupFailed,
                  EndTeardown, KillSetup, Move, Done
    <2> QED
      BY <2>1, <1>i DEF RunTypes
  <1>4. CASE Teardown(i)
    <2>1. at' = [at EXCEPT ![i] = "teardown"]
      BY <1>4 DEF Teardown, Move
    <2> QED
      BY <2>1, <1>i DEF RunTypes
  <1>5. CASE PrepareRunState(i)
    <2>1. at' = [at EXCEPT ![i] = "start"]
      BY <1>5 DEF PrepareRunState, Move
    <2>2. i = j
      BY <2>1, <1>i DEF RunTypes
    <2>3. RunIds(j) = FreshRuns
      BY <1>i DEF RunIds, EnvsPaired
    <2>4. PICK r \in FreshRuns : run' = [run EXCEPT ![j] = r]
      BY <1>5, <2>2, <2>3 DEF PrepareRunState
    <2>5. r \in Runs /\ rstate[r].job = NoRun /\ run'[j] = r
      BY <2>4, <1>i DEF FreshRuns, RunTypes
    <2> QED
      BY <2>5, <1>i DEF RunsHaveJobs
  <1> QED
    BY <1>1, <1>2, <1>3, <1>4, <1>5

\* A run's state is lost neither to a teardown that left a plane up nor to the
\* setup of another run, for any number of jobs, runs and planes.
THEOREM RunsAreKept == SetupSpec => RunsKept
  <1>1. SetupSpec => []RunInv
    BY RunsInitially, RunStep, PTL DEF SetupSpec
  <1>2. RunInv /\ [SetupNext]_uvars =>
           [\A j \in Jobs : at[j] = "teardown" /\ at'[j] = "idle" =>
               \A k \in listed[j] : plane[run[j]][k] = "up" =>
                  rstate'[run[j]] = rstate[run[j]]]_uvars
    BY ListedIsKept
  <1>3. RunInv /\ [SetupNext]_uvars =>
           [\A j \in Jobs : at[j] = "idle" /\ at'[j] = "start" =>
               ~rstate[run'[j]].exists]_uvars
    BY RunIsNew
  <1> QED
    BY <1>1, <1>2, <1>3, PTL DEF SetupSpec, RunsKept, ListedKeepsState, RunNotOverwritten
=============================================================================
