---------------------------- MODULE HandoutProofs ----------------------------
(***************************************************************************)
(* What a service hands out: reservation ids (ReservationSequence), for    *)
(* any number of processes and any MaxId, and results (EventDelivery), for *)
(* any number of circuits and clients.                                     *)
(***************************************************************************)
EXTENDS ReservationSequence, EventDelivery, TLAPS

-----------------------------------------------------------------------------
(* The ids of the reservations.  The inductive invariant says where the id *)
(* in hand stands relative to the file: above it until the rename, equal   *)
(* to it after, and durable when it is returned.                           *)

Ids == 0..MaxId

Steps == {"idle", "try", "write", "sync", "replace", "syncdir", "return"}

SequenceTyped ==
    /\ file \in Ids
    /\ maybe \subseteq Ids
    /\ lock \in Processes \cup {Nobody}
    /\ step \in [Processes -> Steps]
    /\ last \in [Processes -> Ids]
    /\ candidate \in [Processes -> Ids]
    /\ synced \in [Processes -> BOOLEAN]
    /\ live \in [Processes -> SUBSET Ids]
    /\ issued \subseteq Ids
    /\ wrapped \in BOOLEAN

\* Only the holder of the flock is inside allocate.
Locked == \A p \in Processes : step[p] # "idle" => lock = p

\* Whatever survives a power loss is not below an id that was handed out.
Durable ==
    /\ file \in maybe
    /\ ~wrapped => reissued = {} /\ \A i \in issued, v \in maybe : i <= v

\* Where the candidate of a process stands.
InHand(p) ==
    /\ step[p] = "try" /\ ~wrapped => candidate[p] >= file
    /\ step[p] \in {"write", "sync", "replace"} /\ ~wrapped =>
           candidate[p] > file
    /\ step[p] \in {"syncdir", "return"} =>
           /\ file = candidate[p]
           /\ ~wrapped => \A i \in issued : i < candidate[p]
    /\ step[p] = "return" => maybe = {file}
    /\ step[p] = "replace" => synced[p]
    /\ step[p] \in Steps \ {"idle", "try"} => candidate[p] \notin live[p]

SequenceInv ==
    /\ SequenceTyped
    /\ Locked
    /\ Durable
    /\ \A p \in Processes : InHand(p)

USE Zenon

\* The invariant holds at the start.
LEMMA SequenceInitially == SequenceInit => SequenceInv
<1> SUFFICES ASSUME SequenceInit PROVE SequenceInv
  OBVIOUS
<1>1. 0 \in Ids
  BY SequenceAssumption, SMTT(30) DEF Ids
<1>2. live \in [Processes -> SUBSET Ids]
  BY DEF SequenceInit
<1>3. SequenceTyped
  BY <1>1, <1>2 DEF SequenceInit, SequenceTyped, Steps
<1>4. Locked /\ Durable /\ \A p \in Processes : InHand(p)
  BY DEF SequenceInit, Locked, Durable, InHand
<1>. QED BY <1>3, <1>4 DEF SequenceInv

\* A process that leaves allocate, or is killed, disturbs nobody: its locals
\* are reset and the other processes are as they were.
LEMMA LeavingIsHarmless ==
    ASSUME SequenceInv, NEW p \in Processes, Leave(p),
           lock' = (IF lock = p THEN Nobody ELSE lock),
           live' \in [Processes -> SUBSET Ids],
           \A q \in Processes : q # p => live'[q] = live[q],
           UNCHANGED <<file, maybe, issued, reissued, wrapped>>
    PROVE  SequenceInv'
<1>1. SequenceTyped'
  <2>1. 0 \in Ids
    BY SequenceAssumption, SMTT(30) DEF Ids
  <2>2. /\ last' \in [Processes -> Ids]
        /\ candidate' \in [Processes -> Ids]
    BY <2>1 DEF SequenceInv, SequenceTyped, Leave
  <2>3. /\ step' \in [Processes -> Steps]
        /\ synced' \in [Processes -> BOOLEAN]
    BY DEF SequenceInv, SequenceTyped, Leave, GoTo, Steps
  <2>. QED BY <2>2, <2>3 DEF SequenceInv, SequenceTyped
<1>2. Locked'
  BY DEF SequenceInv, SequenceTyped, Locked, Leave, GoTo
<1>3. Durable'
  BY DEF SequenceInv, Durable
<1>4. ASSUME NEW q \in Processes PROVE InHand(q)'
  BY DEF SequenceInv, SequenceTyped, InHand, Leave, GoTo
<1>. QED BY <1>1, <1>2, <1>3, <1>4 DEF SequenceInv

\* Entering reads the file under the lock.
LEMMA EnterKeeps ==
    ASSUME SequenceInv, NEW p \in Processes, Enter(p) PROVE SequenceInv'
<1>1. SequenceTyped'
  BY DEF SequenceInv, SequenceTyped, Enter, GoTo, Ids, Steps
<1>2. Locked'
  BY SequenceAssumption DEF SequenceInv, SequenceTyped, Locked, Enter, GoTo
<1>3. Durable'
  BY DEF SequenceInv, Durable, Enter
<1>4. ASSUME NEW q \in Processes PROVE InHand(q)'
  BY SMTT(30) DEF SequenceInv, SequenceTyped, InHand, Enter, GoTo, Ids, Steps
<1>. QED BY <1>1, <1>2, <1>3, <1>4 DEF SequenceInv

\* A turn of the loop moves the candidate up, or marks the wrap.
LEMMA TryKeeps ==
    ASSUME SequenceInv, NEW p \in Processes, Try(p) PROVE SequenceInv'
<1> DEFINE n == Successor(candidate[p])
<1>1. n \in Ids /\ (n <= candidate[p] \/ n = candidate[p] + 1)
  BY SequenceAssumption, SMTT(30) DEF SequenceInv, SequenceTyped, Successor, Ids
<1>2. lock = p /\ step[p] = "try"
  BY DEF SequenceInv, Locked, Try
<1>3. CASE n = last[p] /\ ~Takes(p, n)
  <2>1. Leave(p) /\ lock' = Nobody
    BY <1>3 DEF Try
  <2>2. UNCHANGED <<file, maybe, live, issued, reissued>>
    BY DEF Try
  <2>3. wrapped' = (wrapped \/ n <= candidate[p])
    BY DEF Try
  <2>4. SequenceTyped'
    BY <2>1, <2>2, <2>3, SequenceAssumption, SMTT(30) DEF SequenceInv, SequenceTyped, Leave, GoTo, Ids, Steps
  <2>5. Locked'
    BY <1>2, <2>1 DEF SequenceInv, SequenceTyped, Locked, Leave, GoTo
  <2>6. Durable'
    BY <2>2, <2>3 DEF SequenceInv, SequenceTyped, Durable
  <2>7. ASSUME NEW q \in Processes PROVE InHand(q)'
    BY <1>2, <2>1, <2>2, <2>3
    DEF SequenceInv, SequenceTyped, Locked, InHand, Leave, GoTo
  <2>. QED BY <2>4, <2>5, <2>6, <2>7 DEF SequenceInv
<1>4. CASE ~(n = last[p] /\ ~Takes(p, n))
  <2>1. /\ candidate' = [candidate EXCEPT ![p] = n]
        /\ step' = [step EXCEPT ![p] = IF Takes(p, n) THEN "write" ELSE "try"]
        /\ UNCHANGED <<file, maybe, lock, last, synced, live, issued, reissued>>
        /\ wrapped' = (wrapped \/ n <= candidate[p])
    BY <1>4 DEF Try, GoTo
  <2>2. SequenceTyped'
    BY <1>1, <2>1 DEF SequenceInv, SequenceTyped, Steps
  <2>3. Locked'
    BY <1>2, <2>1 DEF SequenceInv, SequenceTyped, Locked
  <2>4. Durable'
    BY <2>1 DEF SequenceInv, SequenceTyped, Durable
  <2>5. ASSUME NEW q \in Processes PROVE InHand(q)'
    <3>1. CASE q # p
      BY <1>2, <2>1, <3>1
      DEF SequenceInv, SequenceTyped, Locked, InHand
    <3>2. CASE q = p
      <4>1. ~wrapped' => n = candidate[p] + 1 /\ candidate[p] >= file
        BY <1>1, <1>2, <2>1 DEF SequenceInv, SequenceTyped, InHand
      <4>2. candidate[p] \in Int /\ file \in Int
        BY SequenceAssumption, SMTT(30) DEF SequenceInv, SequenceTyped, Ids
      <4>. QED
        BY <3>2, <2>1, <4>1, <4>2, SMTT(30) DEF SequenceInv, SequenceTyped, InHand, Takes
    <3>. QED BY <3>1, <3>2
  <2>. QED BY <2>2, <2>3, <2>4, <2>5 DEF SequenceInv
<1>. QED BY <1>3, <1>4

\* Writing and syncing the temporary file move the process along.
LEMMA TemporaryKeeps ==
    ASSUME SequenceInv, NEW p \in Processes,
           WriteTemporary(p) \/ SyncTemporary(p)
    PROVE  SequenceInv'
<1>1. SequenceTyped'
  BY DEF SequenceInv, SequenceTyped, WriteTemporary, SyncTemporary, GoTo,
         Steps
<1>2. Locked'
  BY DEF SequenceInv, SequenceTyped, Locked, WriteTemporary, SyncTemporary,
         GoTo
<1>3. Durable'
  BY DEF SequenceInv, Durable, WriteTemporary, SyncTemporary
<1>4. ASSUME NEW q \in Processes PROVE InHand(q)'
  BY ZenonT(60) DEF SequenceInv, SequenceTyped, InHand, WriteTemporary, SyncTemporary,
         GoTo, Steps
<1>. QED BY <1>1, <1>2, <1>3, <1>4 DEF SequenceInv

\* The rename raises the file: every id handed out was at most the old one.
LEMMA ReplaceKeeps ==
    ASSUME SequenceInv, NEW p \in Processes, Replace(p) PROVE SequenceInv'
<1>1. /\ step[p] = "replace"
      /\ synced[p]
      /\ lock = p
      /\ file' = candidate[p]
      /\ maybe' = maybe \cup {candidate[p]}
      /\ step' = [step EXCEPT ![p] = "syncdir"]
      /\ UNCHANGED <<lock, last, candidate, synced, live, issued, reissued,
                     wrapped>>
  BY DEF SequenceInv, Locked, InHand, Replace, GoTo
<1>2. SequenceTyped'
  BY <1>1 DEF SequenceInv, SequenceTyped, Steps
<1>3. ~wrapped => \A i \in issued : i < candidate[p]
  BY <1>1, SequenceAssumption, SMTT(30) DEF SequenceInv, SequenceTyped, Durable, InHand, Ids
<1>4. Durable'
  BY <1>1, <1>3, SequenceAssumption, SMTT(30) DEF SequenceInv, SequenceTyped, Durable, Ids
<1>5. Locked'
  BY <1>1 DEF SequenceInv, SequenceTyped, Locked
<1>6. ASSUME NEW q \in Processes PROVE InHand(q)'
  BY <1>1, <1>3 DEF SequenceInv, SequenceTyped, Locked, InHand, Steps
<1>. QED BY <1>2, <1>4, <1>5, <1>6 DEF SequenceInv

\* The directory's sync leaves one value a power loss can leave.
LEMMA SyncDirectoryKeeps ==
    ASSUME SequenceInv, NEW p \in Processes, SyncDirectory(p)
    PROVE  SequenceInv'
<1>1. /\ step[p] = "syncdir"
      /\ lock = p
      /\ maybe' = {file}
      /\ step' = [step EXCEPT ![p] = "return"]
      /\ UNCHANGED <<file, lock, last, candidate, synced, live, issued,
                     reissued, wrapped>>
  BY DEF SequenceInv, Locked, SyncDirectory, GoTo
<1>2. SequenceTyped'
  BY <1>1 DEF SequenceInv, SequenceTyped, Steps
<1>3. Durable'
  BY <1>1 DEF SequenceInv, Durable
<1>4. Locked'
  BY <1>1 DEF SequenceInv, SequenceTyped, Locked
<1>5. ASSUME NEW q \in Processes PROVE InHand(q)'
  BY <1>1 DEF SequenceInv, SequenceTyped, Locked, InHand, Steps
<1>. QED BY <1>2, <1>3, <1>4, <1>5 DEF SequenceInv

\* What is returned is above all that was returned, and durable.
LEMMA ReturnKeeps ==
    ASSUME SequenceInv, NEW p \in Processes, Return(p) PROVE SequenceInv'
<1>1. /\ step[p] = "return"
      /\ lock = p
      /\ lock' = Nobody
      /\ issued' = issued \cup {candidate[p]}
      /\ reissued' = reissued \cup (issued \cap {candidate[p]})
      /\ live' = [live EXCEPT ![p] = @ \cup {candidate[p]}]
      /\ Leave(p)
      /\ UNCHANGED <<file, maybe, wrapped>>
  BY DEF SequenceInv, Locked, Return
<1>2. maybe = {file} /\ file = candidate[p]
  BY <1>1 DEF SequenceInv, InHand
<1>3. ~wrapped => \A i \in issued : i < candidate[p]
  BY <1>1 DEF SequenceInv, InHand
<1>4. SequenceTyped'
  <2>1. live' \in [Processes -> SUBSET Ids] /\ issued' \subseteq Ids
    BY <1>1 DEF SequenceInv, SequenceTyped
  <2>. QED
    BY <1>1, <2>1, SequenceAssumption, SMTT(30) DEF SequenceInv, SequenceTyped, Leave, GoTo, Ids, Steps
<1>5. Durable'
  <2>1. candidate[p] \in Int /\ issued \subseteq Int
    BY SequenceAssumption, SMTT(30) DEF SequenceInv, SequenceTyped, Ids
  <2>2. ~wrapped => candidate[p] \notin issued
    BY <1>3, <2>1, SMTT(30)
  <2>. QED
    BY <1>1, <1>2, <1>3, <2>1, <2>2, SMTT(30) DEF SequenceInv, Durable
<1>6. Locked'
  BY <1>1 DEF SequenceInv, SequenceTyped, Locked, Leave, GoTo
<1>7. ASSUME NEW q \in Processes PROVE InHand(q)'
  <2>1. step'[q] = "idle"
    BY <1>1 DEF SequenceInv, SequenceTyped, Locked, Leave, GoTo
  <2>. QED BY <2>1 DEF InHand
<1>. QED BY <1>4, <1>5, <1>6, <1>7 DEF SequenceInv

\* A power loss leaves one of the values, and nobody inside.
LEMMA PowerLossKeeps ==
    ASSUME SequenceInv, PowerLoss PROVE SequenceInv'
<1>1. PICK v \in maybe : file' = v /\ maybe' = {v}
  BY DEF PowerLoss
<1>2. SequenceTyped'
  BY <1>1, SequenceAssumption, SMTT(30) DEF SequenceInv, SequenceTyped, PowerLoss, Ids, Steps
<1>3. Durable'
  BY <1>1 DEF SequenceInv, Durable, PowerLoss
<1>4. Locked' /\ \A q \in Processes : InHand(q)'
  BY DEF PowerLoss, Locked, InHand
<1>. QED BY <1>2, <1>3, <1>4 DEF SequenceInv

\* Every step keeps the invariant.
LEMMA SequenceStep == SequenceInv /\ [SequenceNext]_svars => SequenceInv'
<1> SUFFICES ASSUME SequenceInv, [SequenceNext]_svars PROVE SequenceInv'
  OBVIOUS
<1>1. CASE UNCHANGED svars
  BY <1>1
  DEF svars, SequenceInv, SequenceTyped, Locked, Durable, InHand
<1>2. ASSUME NEW p \in Processes, Allocate(p) PROVE SequenceInv'
  BY <1>2, EnterKeeps, TryKeeps, TemporaryKeeps, ReplaceKeeps,
     SyncDirectoryKeeps, ReturnKeeps DEF Allocate
<1>3. ASSUME NEW p \in Processes, Fail(p) PROVE SequenceInv'
  <2>1. lock = p
    BY <1>3 DEF SequenceInv, Locked, Fail
  <2>2. live' \in [Processes -> SUBSET Ids]
    BY <1>3 DEF SequenceInv, SequenceTyped, Fail
  <2>. QED BY <1>3, <2>1, <2>2, LeavingIsHarmless DEF Fail
<1>4. ASSUME NEW p \in Processes, Kill(p) PROVE SequenceInv'
  <2>1. /\ live' \in [Processes -> SUBSET Ids]
        /\ \A q \in Processes : q # p => live'[q] = live[q]
    BY <1>4 DEF SequenceInv, SequenceTyped, Kill
  <2>. QED BY <1>4, <2>1, LeavingIsHarmless DEF Kill
<1>5. ASSUME NEW p \in Processes, NEW r \in live[p], EndReservation(p, r)
      PROVE  SequenceInv'
  <2>1. /\ step[p] = "idle"
        /\ live' \in [Processes -> SUBSET Ids]
        /\ \A q \in Processes : q # p => live'[q] = live[q]
        /\ UNCHANGED <<file, maybe, lock, step, last, candidate, synced,
                       issued, reissued, wrapped>>
    BY <1>5 DEF SequenceInv, SequenceTyped, EndReservation
  <2>. QED
    BY <2>1 DEF SequenceInv, SequenceTyped, Locked, Durable, InHand
<1>. QED
  BY <1>1, <1>2, <1>3, <1>4, <1>5, PowerLossKeeps DEF SequenceNext

\* The inductive invariant of the reservation sequence.
THEOREM SequenceIsSafe == SequenceSpec => []SequenceInv
  BY SequenceInitially, SequenceStep, PTL DEF SequenceSpec

\* allocate returns no id twice before the sequence wraps, however its
\* processes are killed and the power lost.
THEOREM NoIdTwice == SequenceSpec => []NeverReissued
<1>1. SequenceInv => NeverReissued
  BY DEF SequenceInv, Durable, NeverReissued
<1>. QED BY <1>1, SequenceIsSafe, PTL

\* allocate never gives a process an id it has in use, after a wrap either.
THEOREM NoIdInUse == SequenceSpec => []NeverInUse
<1>1. SequenceInv => NeverInUse
  BY DEF SequenceInv, InHand, NeverInUse, Steps
<1>. QED BY <1>1, SequenceIsSafe, PTL

\* The sequence file can always be read back.
THEOREM FileIsReadable == SequenceSpec => []AlwaysReadable
<1>1. SequenceInv => AlwaysReadable
  BY SequenceAssumption, SMTT(30) DEF SequenceInv, SequenceTyped, AlwaysReadable, Ids, Torn
<1>. QED BY <1>1, SequenceIsSafe, PTL

\* allocate's ids are sound: not issued twice, not in use, durable.
THEOREM IdsAreSound == SequenceSpec => []IdsSound
<1>1. NeverReissued /\ NeverInUse /\ AlwaysReadable => IdsSound
  BY DEF IdsSound
<1>. QED BY <1>1, NoIdTwice, NoIdInUse, FileIsReadable, PTL

-----------------------------------------------------------------------------
(* The results.                                                            *)

Places ==
    {"new", "running", "storing", "freeing", "pushing", "calling", "sending",
     "pruning", "popping", "over", "dead"}

EventTypes ==
    /\ provider \in {"fake", "native"}
    /\ thread \in [EvTasks -> Places]
    /\ DOMAIN outcome = EvTasks /\ DOMAIN etype = EvTasks
    /\ DOMAIN uncalled = EvTasks /\ DOMAIN stale = EvTasks
    /\ owed \in [EvTasks -> SUBSET Registrations]
    /\ endpoints \subseteq Registrations
    /\ DOMAIN regpc = Registrations
    /\ recorded \subseteq EvTasks

Published == {"sending", "pruning", "popping", "over"}

\* Where the result of t is, by the place of its thread.
ResultPlaced(t) ==
    /\ thread[t] \in {"new", "running"} => outcome[t] = "none"
    /\ thread[t] \in {"freeing", "pushing", "calling", "popping"} => outcome[t] # "none"
    /\ thread[t] \in {"new", "running", "storing"} => t \notin kept
    /\ thread[t] = "storing" => provider = "fake" /\ outcome[t] # "none"
    /\ thread[t] \in {"freeing", "pushing", "calling"} => (t \in kept <=> provider = "fake")
    /\ t \in recorded => thread[t] \in Published
    /\ thread[t] \in {"sending", "pruning"} =>
          /\ t \in recorded
          /\ t \in kept <=> (provider = "fake" /\ outcome[t] # "none")
    /\ thread[t] = "popping" => provider = "fake" /\ t \in kept
    /\ thread[t] = "over" => (t \in recorded <=> t \notin kept)

\* The result is in one place on the way, too, up to the fake's own copy.
ResultsPlaced == EventTypes /\ \A t \in EvTasks : ResultPlaced(t)

\* Who waits for t is either still to be called or has been told, or has no
\* endpoint that answers; who waits has an event of the type it asked for.
WaitersServed(t) ==
    /\ thread[t] \in {"new", "running", "storing", "freeing", "pushing"} => owed[t] = {}
    /\ \A r \in owed[t] :
          /\ Wants(r, t) /\ regpc[r] \in {"done", "gone"} /\ etype[t] = r.evtype
          /\ t \in recorded /\ r \in endpoints /\ Answers(r) =>
                r \in uncalled[t] \/ <<t, r>> \in delivered
    /\ thread[t] \in {"pruning", "popping", "over"} /\ t \in recorded => uncalled[t] = {}

TypeTold ==
    \A r \in Registrations : regpc[r] \in {"done", "gone"} => qrcType = r.evtype

Served == ResultsPlaced /\ TypeTold /\ \A t \in EvTasks : WaitersServed(t)

\* The initial state.
LEMMA EventsInitially == EventsInit => Served
  <1> SUFFICES ASSUME EventsInit
               PROVE  Served
    OBVIOUS
  <1>1. EventTypes
    BY DEF EventsInit, EventTypes, Places
  <1>2. \A t \in EvTasks : ResultPlaced(t)
    BY DEF EventsInit, ResultPlaced, Published
  <1>3. TypeTold
    BY DEF EventsInit, TypeTold
  <1>4. \A t \in EvTasks : WaitersServed(t)
    BY DEF EventsInit, WaitersServed
  <1> QED
    BY <1>1, <1>2, <1>3, <1>4 DEF Served, ResultsPlaced

\* A step of the thread of t leaves the results of the others alone.
LEMMA ThreadMoves ==
    ASSUME ResultsPlaced, NEW t \in EvTasks, NEW from, NEW to \in Places, ThreadAt(t, from, to)
    PROVE  /\ thread' \in [EvTasks -> Places] /\ thread[t] = from /\ thread'[t] = to
           /\ \A u \in EvTasks \ {t} : thread'[u] = thread[u]
  BY DEF ResultsPlaced, EventTypes, ThreadAt

\* One circuit moves, the results of the others stay where they are.
LEMMA OthersPlaced ==
    ASSUME ResultsPlaced, NEW t \in EvTasks, provider' = provider, ResultPlaced(t)',
           \A u \in EvTasks \ {t} :
              /\ thread'[u] = thread[u] /\ outcome'[u] = outcome[u]
              /\ u \in kept' <=> u \in kept
              /\ u \in recorded' <=> u \in recorded
    PROVE  \A u \in EvTasks : ResultPlaced(u)'
  <1> SUFFICES ASSUME NEW u \in EvTasks, u # t
               PROVE  ResultPlaced(u)'
    OBVIOUS
  <1>1. ResultPlaced(u)
    BY DEF ResultsPlaced
  <1> QED
    BY <1>1 DEF ResultPlaced

\* Where a finished dispatch goes.
LEMMA DispatchEnds ==
    ASSUME NEW t \in EvTasks, provider \in {"fake", "native"}
    PROVE  /\ AfterDispatch(t) \in {"over", "popping"}
           /\ AfterDispatch(t) = "popping" <=> (provider = "fake" /\ outcome[t] # "none")
  BY DEF AfterDispatch

\* Every step keeps each result in its one place.
LEMMA PlacedStep ==
    ResultsPlaced /\ [EventsNext]_evvars => ResultsPlaced'
  <1> SUFFICES ASSUME ResultsPlaced, [EventsNext]_evvars
               PROVE  ResultsPlaced'
    OBVIOUS
  <1>p. provider' = provider /\ provider \in {"fake", "native"}
    BY DEF EventsNext, evvars, threadvars, sendvars, regvars, StartThread, Execute, StoreResult,
           FreeResources, FreeRaises, MakeEvent, PublishRefused, PublishEvent, EndQueued, SendOne,
           PruneStale, PopTask, CancelRunning, Register, SetType, TellQrc, Unregister,
           EndpointFails, ResultsPlaced, EventTypes
  <1>t. /\ thread \in [EvTasks -> Places] /\ DOMAIN outcome = EvTasks /\ DOMAIN etype = EvTasks
        /\ DOMAIN uncalled = EvTasks /\ DOMAIN stale = EvTasks
        /\ owed \in [EvTasks -> SUBSET Registrations]
        /\ endpoints \subseteq Registrations /\ DOMAIN regpc = Registrations
        /\ recorded \subseteq EvTasks
        /\ \A u \in EvTasks : ResultPlaced(u)
    BY DEF ResultsPlaced, EventTypes
  \* A thread that moves, with what it does to its own result.
  <1>1. ASSUME NEW t \in EvTasks, NEW from, NEW to \in Places, ThreadAt(t, from, to),
               DOMAIN outcome' = EvTasks, DOMAIN etype' = EvTasks,
               DOMAIN uncalled' = EvTasks, DOMAIN stale' = EvTasks,
               owed' \in [EvTasks -> SUBSET Registrations],
               endpoints' \subseteq Registrations, regpc' = regpc, recorded' \subseteq EvTasks,
               \A u \in EvTasks \ {t} :
                  /\ outcome'[u] = outcome[u]
                  /\ u \in kept' <=> u \in kept
                  /\ u \in recorded' <=> u \in recorded,
               thread'[t] = to => ResultPlaced(t)'
        PROVE  ResultsPlaced'
    <2>1. /\ thread' \in [EvTasks -> Places] /\ thread'[t] = to
          /\ \A u \in EvTasks \ {t} : thread'[u] = thread[u]
      BY <1>1, ThreadMoves
    <2>2. \A u \in EvTasks : ResultPlaced(u)'
      BY <1>1, <1>p, <2>1, OthersPlaced
    <2>3. EventTypes'
      BY <1>1, <1>p, <1>t, <2>1 DEF EventTypes
    <2> QED
      BY <2>2, <2>3 DEF ResultsPlaced
  \* What a step that leaves the results alone has to show.
  <1>2. ASSUME UNCHANGED <<thread, outcome, kept, recorded>>,
               DOMAIN etype' = EvTasks, DOMAIN uncalled' = EvTasks, DOMAIN stale' = EvTasks,
               owed' \in [EvTasks -> SUBSET Registrations],
               endpoints' \subseteq Registrations, DOMAIN regpc' = Registrations
        PROVE  ResultsPlaced'
    <2>1. \A u \in EvTasks : ResultPlaced(u)'
      BY <1>2, <1>p, <1>t DEF ResultPlaced
    <2>2. EventTypes'
      BY <1>2, <1>p, <1>t DEF EventTypes
    <2> QED
      BY <2>1, <2>2 DEF ResultsPlaced
  <1>3. ASSUME NEW t \in EvTasks, StartThread(t)
        PROVE  ResultsPlaced'
    <2>1. /\ ThreadAt(t, "new", "running") /\ "running" \in Places
          /\ UNCHANGED <<outcome, etype, uncalled, stale, owed, endpoints, regpc, kept, recorded>>
      BY <1>3 DEF StartThread, sendvars, regvars, Places
    <2>2. thread[t] = "new" /\ thread'[t] = "running"
      BY <2>1, ThreadMoves
    <2>3. ResultPlaced(t)'
      BY <1>t, <2>1, <2>2 DEF ResultPlaced, Published
    <2> QED
      BY <1>1, <1>t, <2>1, <2>3
  <1>4. ASSUME NEW t \in EvTasks, Execute(t)
        PROVE  ResultsPlaced'
    <2>1. PICK to \in {"storing", "freeing"} :
             /\ ThreadAt(t, "running", to) /\ to \in Places
             /\ to = "storing" <=> provider = "fake"
      BY <1>4, <1>p DEF Execute, Places
    <2>2. PICK o \in {"done", "failed"} : outcome' = [outcome EXCEPT ![t] = o]
      BY <1>4 DEF Execute, EndsWith
    <2>3. UNCHANGED <<etype, uncalled, stale, owed, endpoints, regpc, kept, recorded>>
      BY <1>4 DEF Execute, sendvars, regvars
    <2>4. thread[t] = "running" /\ thread'[t] = to
      BY <2>1, ThreadMoves
    <2>5. DOMAIN outcome' = EvTasks /\ outcome'[t] = o /\ \A u \in EvTasks \ {t} : outcome'[u] = outcome[u]
      BY <1>t, <2>2
    <2>6. ResultPlaced(t)'
      BY <1>p, <1>t, <2>1, <2>3, <2>4, <2>5 DEF ResultPlaced, Published
    <2> QED
      BY <1>1, <1>t, <2>1, <2>3, <2>5, <2>6
  <1>5. ASSUME NEW t \in EvTasks, StoreResult(t)
        PROVE  ResultsPlaced'
    <2>1. /\ ThreadAt(t, "storing", "freeing") /\ "freeing" \in Places /\ kept' = kept \cup {t}
          /\ UNCHANGED <<outcome, etype, uncalled, stale, owed, endpoints, regpc, recorded>>
      BY <1>5 DEF StoreResult, sendvars, regvars, Places
    <2>2. thread[t] = "storing" /\ thread'[t] = "freeing"
      BY <2>1, ThreadMoves
    <2>3. ResultPlaced(t)'
      BY <1>p, <1>t, <2>1, <2>2 DEF ResultPlaced, Published
    <2> QED
      BY <1>1, <1>t, <2>1, <2>3
  <1>6. ASSUME NEW t \in EvTasks, FreeResources(t) \/ FreeRaises(t)
        PROVE  ResultsPlaced'
    <2>1. PICK to \in {"pushing", "dead"} :
          /\ ThreadAt(t, "freeing", to) /\ to \in Places
          /\ UNCHANGED <<outcome, etype, uncalled, stale, owed, endpoints, regpc, kept, recorded>>
      BY <1>6 DEF FreeResources, FreeRaises, sendvars, regvars, Places
    <2>2. thread[t] = "freeing" /\ thread'[t] = to
      BY <2>1, ThreadMoves
    <2>3. ResultPlaced(t)'
      BY <1>p, <1>t, <2>1, <2>2 DEF ResultPlaced, Published
    <2> QED
      BY <1>1, <1>t, <2>1, <2>3
  <1>7. ASSUME NEW t \in EvTasks, MakeEvent(t)
        PROVE  ResultsPlaced'
    <2>1. /\ ThreadAt(t, "pushing", "calling") /\ "calling" \in Places
          /\ UNCHANGED <<outcome, uncalled, stale, endpoints, regpc, kept, recorded>>
      BY <1>7 DEF MakeEvent, regvars, Places
    <2>2. PICK w \in SUBSET Registrations : owed' = [owed EXCEPT ![t] = w]
      BY <1>7, <1>t DEF MakeEvent
    <2>3. DOMAIN etype' = EvTasks /\ owed' \in [EvTasks -> SUBSET Registrations]
      BY <1>7, <1>t, <2>2 DEF MakeEvent
    <2>4. thread[t] = "pushing" /\ thread'[t] = "calling"
      BY <2>1, ThreadMoves
    <2>5. ResultPlaced(t)'
      BY <1>p, <1>t, <2>1, <2>4 DEF ResultPlaced, Published
    <2> QED
      BY <1>1, <1>t, <2>1, <2>3, <2>5
  <1>8. ASSUME NEW t \in EvTasks, PublishRefused(t)
        PROVE  ResultsPlaced'
    <2>1. PICK to \in {"popping", "over"} :
             /\ ThreadAt(t, "calling", to) /\ to \in Places
             /\ to = "popping" <=> provider = "fake"
      BY <1>8, <1>p DEF PublishRefused, Places
    <2>2. /\ kept' = kept \cup {t}
          /\ UNCHANGED <<outcome, etype, uncalled, stale, owed, endpoints, regpc, recorded>>
      BY <1>8 DEF PublishRefused, sendvars, regvars
    <2>3. thread[t] = "calling" /\ thread'[t] = to
      BY <2>1, ThreadMoves
    <2>4. ResultPlaced(t)'
      BY <1>p, <1>t, <2>1, <2>2, <2>3 DEF ResultPlaced, Published
    <2> QED
      BY <1>1, <1>t, <2>1, <2>2, <2>4
  <1>9. ASSUME NEW t \in EvTasks, PublishEvent(t) \/ EndQueued(t)
        PROVE  ResultsPlaced'
    <2>0. /\ AfterDispatch(t) \in {"over", "popping"}
          /\ AfterDispatch(t) = "popping" <=> (provider = "fake" /\ outcome[t] # "none")
      BY <1>p, DispatchEnds
    <2>1. PICK from \in {"calling", "new"}, to \in {"sending", AfterDispatch(t)} :
             ThreadAt(t, from, to)
      BY <1>9 DEF PublishEvent, EndQueued, NextSend
    <2>2. /\ recorded' = recorded \cup {t}
          /\ UNCHANGED <<outcome, etype, stale, owed, endpoints, regpc, kept>>
          /\ DOMAIN uncalled' = EvTasks
      BY <1>9, <1>t DEF PublishEvent, EndQueued, regvars
    <2>3. to \in Places /\ to \in Published
      BY <2>0, <2>1 DEF Places, Published
    <2>4. thread[t] = from /\ thread'[t] = to
      BY <2>1, <2>3, ThreadMoves
    <2>5. t \in kept <=> (provider = "fake" /\ outcome[t] # "none")
      BY <1>p, <1>t, <2>1, <2>4 DEF ResultPlaced
    <2>6. ResultPlaced(t)'
      BY <1>p, <1>t, <2>0, <2>1, <2>2, <2>3, <2>4, <2>5 DEF ResultPlaced
    <2> QED
      BY <1>1, <1>t, <2>1, <2>2, <2>3, <2>6
  <1>10. ASSUME NEW t \in EvTasks, SendOne(t) \/ PruneStale(t)
         PROVE  ResultsPlaced'
    <2>0. /\ AfterDispatch(t) \in {"over", "popping"}
          /\ AfterDispatch(t) = "popping" <=> (provider = "fake" /\ outcome[t] # "none")
      BY <1>p, DispatchEnds
    <2>1. PICK from \in {"sending", "pruning"}, to \in {"sending", "pruning", AfterDispatch(t)} :
             ThreadAt(t, from, to)
      BY <1>10 DEF SendOne, PruneStale, AfterPut
    <2>2. /\ UNCHANGED <<outcome, etype, owed, regpc, kept, recorded>>
          /\ DOMAIN uncalled' = EvTasks /\ DOMAIN stale' = EvTasks /\ endpoints' \subseteq Registrations
      BY <1>10, <1>t DEF SendOne, PruneStale, sendvars, regvars
    <2>3. to \in Places /\ to \in Published
      BY <2>0, <2>1 DEF Places, Published
    <2>4. thread[t] = from /\ thread'[t] = to
      BY <2>1, <2>3, ThreadMoves
    <2>5. t \in recorded /\ (t \in kept <=> (provider = "fake" /\ outcome[t] # "none"))
      BY <1>t, <2>1, <2>4 DEF ResultPlaced
    <2>6. ResultPlaced(t)'
      BY <1>p, <2>0, <2>1, <2>2, <2>3, <2>4, <2>5 DEF ResultPlaced
    <2> QED
      BY <1>1, <1>t, <2>1, <2>2, <2>3, <2>6
  <1>11. ASSUME NEW t \in EvTasks, PopTask(t)
         PROVE  ResultsPlaced'
    <2>1. /\ ThreadAt(t, "popping", "over") /\ "over" \in Places /\ "over" \in Published
          /\ kept' = IF t \in recorded THEN kept \ {t} ELSE kept
          /\ UNCHANGED <<outcome, etype, uncalled, stale, owed, endpoints, regpc, recorded>>
      BY <1>11 DEF PopTask, KeptAfterPush, sendvars, regvars, Places, Published
    <2>2. thread[t] = "popping" /\ thread'[t] = "over"
      BY <2>1, ThreadMoves
    <2>3. ResultPlaced(t)'
      BY <1>p, <1>t, <2>1, <2>2 DEF ResultPlaced, Published
    <2> QED
      BY <1>1, <1>t, <2>1, <2>3
  <1>12. ASSUME NEW ts, CancelRunning(ts)
         PROVE  ResultsPlaced'
    BY <1>2, <1>12, <1>t DEF CancelRunning, sendvars, regvars
  <1>13. ASSUME NEW r \in Registrations, Register(r) \/ SetType(r) \/ TellQrc(r) \/ Unregister(r)
         PROVE  ResultsPlaced'
    <2>1. UNCHANGED <<thread, outcome, kept, recorded, etype, uncalled, stale, owed>>
      BY <1>13 DEF Register, SetType, TellQrc, Unregister, threadvars, sendvars
    <2>2. endpoints' \subseteq Registrations /\ DOMAIN regpc' = Registrations
      BY <1>13, <1>t DEF Register, SetType, TellQrc, Unregister
    <2> QED
      BY <1>2, <1>t, <2>1, <2>2
  <1>14. ASSUME NEW c, EndpointFails(c)
         PROVE  ResultsPlaced'
    BY <1>2, <1>14, <1>t DEF EndpointFails, threadvars, sendvars, regvars
  <1>15. CASE UNCHANGED evvars
    BY <1>2, <1>15, <1>t DEF evvars, threadvars, sendvars, regvars
  <1> QED
    BY <1>3, <1>4, <1>5, <1>6, <1>7, <1>8, <1>9, <1>10, <1>11, <1>12, <1>13, <1>14, <1>15
       DEF EventsNext

\* A thread that got past free_resources leaves its result with the
\* controller or with the QRC, never with both and never with neither
\* (publish_completion, _push_event and the fake's store before the push).
THEOREM ResultsAreInOnePlace == EventsSpec => []ResultInOnePlace
  <1>1. ResultsPlaced => ResultInOnePlace
    BY DEF ResultsPlaced, ResultPlaced, ResultInOnePlace
  <1>2. EventsInit => ResultsPlaced
    BY EventsInitially DEF Served
  <1> QED
    BY <1>1, <1>2, PlacedStep, PTL DEF EventsSpec

\* What clients asked for is of one type.
OneType == \A r, s \in Registrations : r.evtype = s.evtype

\* Registrations are never taken up again, and endpoints that fail stay so.
Forward ==
    /\ \A r \in Registrations : regpc[r] \in {"done", "gone"} =>
          regpc'[r] \in {"done", "gone"} /\ (r \in endpoints' => r \in endpoints)
    /\ alive' \subseteq alive
    /\ delivered \subseteq delivered'

\* No step takes back a delivery, a departure or a failure.
LEMMA StepsForward ==
    ResultsPlaced /\ [EventsNext]_evvars => Forward
  <1> SUFFICES ASSUME ResultsPlaced, [EventsNext]_evvars
               PROVE  Forward
    OBVIOUS
  <1>t. DOMAIN regpc = Registrations
    BY DEF ResultsPlaced, EventTypes
  <1>1. ASSUME NEW t \in EvTasks,
               \/ StartThread(t) \/ Execute(t) \/ StoreResult(t) \/ FreeResources(t)
               \/ FreeRaises(t) \/ MakeEvent(t) \/ PublishRefused(t) \/ PublishEvent(t)
               \/ EndQueued(t) \/ PopTask(t)
        PROVE  Forward
    BY <1>1 DEF StartThread, Execute, StoreResult, FreeResources, FreeRaises, MakeEvent,
                PublishRefused, PublishEvent, EndQueued, PopTask, sendvars, regvars, Forward
  <1>2. ASSUME NEW t \in EvTasks, SendOne(t) \/ PruneStale(t)
        PROVE  Forward
    BY <1>2 DEF SendOne, PruneStale, sendvars, regvars, Forward
  <1>3. ASSUME NEW r \in Registrations, Register(r) \/ SetType(r) \/ TellQrc(r) \/ Unregister(r)
        PROVE  Forward
    BY <1>3, <1>t DEF Register, SetType, TellQrc, Unregister, threadvars, sendvars, Forward
  <1>4. ASSUME NEW ts, CancelRunning(ts)
        PROVE  Forward
    BY <1>4 DEF CancelRunning, sendvars, regvars, Forward
  <1>5. ASSUME NEW c, EndpointFails(c)
        PROVE  Forward
    BY <1>5 DEF EndpointFails, sendvars, regvars, Forward
  <1>6. CASE UNCHANGED evvars
    BY <1>6 DEF evvars, sendvars, regvars, Forward
  <1> QED
    BY <1>1, <1>2, <1>3, <1>4, <1>5, <1>6 DEF EventsNext

\* Nobody who waits for a result is forgotten by a step of another circuit.
LEMMA WaitersStay ==
    ASSUME Served, Forward, NEW u \in EvTasks,
           thread'[u] = thread[u], owed'[u] = owed[u], etype'[u] = etype[u],
           uncalled'[u] = uncalled[u], u \in recorded' <=> u \in recorded
    PROVE  WaitersServed(u)'
  <1>1. WaitersServed(u) /\ owed[u] \subseteq Registrations
    BY DEF Served, ResultsPlaced, EventTypes
  <1> QED
    BY <1>1 DEF WaitersServed, Forward, Wants, Answers

\* The type the QRC was told is the one that all who asked for it want.
LEMMA TypeStays ==
    ASSUME OneType, Served, [EventsNext]_evvars
    PROVE  TypeTold'
  <1>t. DOMAIN regpc = Registrations /\ TypeTold
    BY DEF Served, ResultsPlaced, EventTypes
  <1>1. CASE qrcType' = qrcType /\ regpc' = regpc
    BY <1>1, <1>t DEF TypeTold
  <1>2. ASSUME NEW r \in Registrations, Register(r) \/ SetType(r) \/ TellQrc(r) \/ Unregister(r)
        PROVE  TypeTold'
    BY <1>2, <1>t DEF Register, SetType, TellQrc, Unregister, TypeTold, OneType
  <1>3. ASSUME NEW t \in EvTasks,
               \/ StartThread(t) \/ Execute(t) \/ StoreResult(t) \/ FreeResources(t)
               \/ FreeRaises(t) \/ MakeEvent(t) \/ PublishRefused(t) \/ PublishEvent(t)
               \/ EndQueued(t) \/ SendOne(t) \/ PruneStale(t) \/ PopTask(t)
        PROVE  qrcType' = qrcType /\ regpc' = regpc
    BY <1>3 DEF StartThread, Execute, StoreResult, FreeResources, FreeRaises, MakeEvent,
                PublishRefused, PublishEvent, EndQueued, SendOne, PruneStale, PopTask, regvars
  <1>4. ASSUME NEW ts, CancelRunning(ts) \/ EndpointFails(ts)
        PROVE  qrcType' = qrcType /\ regpc' = regpc
    BY <1>4 DEF CancelRunning, EndpointFails, regvars
  <1>5. CASE UNCHANGED evvars
    BY <1>1, <1>5 DEF evvars, regvars
  <1> QED
    BY <1>1, <1>2, <1>3, <1>4, <1>5 DEF EventsNext

\* Every step serves those who wait for a result, if there is one type of
\* event.
LEMMA ServedStep ==
    ASSUME OneType, Served, [EventsNext]_evvars
    PROVE  Served'
  <1>t. /\ ResultsPlaced /\ \A u \in EvTasks : WaitersServed(u) /\ ResultPlaced(u)
        /\ DOMAIN etype = EvTasks /\ DOMAIN uncalled = EvTasks
        /\ owed \in [EvTasks -> SUBSET Registrations] /\ endpoints \subseteq Registrations
        /\ provider \in {"fake", "native"}
    BY DEF Served, ResultsPlaced, EventTypes
  <1>f. Forward
    BY <1>t, StepsForward
  <1>g. ResultsPlaced' /\ TypeTold'
    BY <1>t, PlacedStep, TypeStays
  <1>1. SUFFICES \A u \in EvTasks : WaitersServed(u)'
    BY <1>1, <1>g DEF Served
  <1>o. ASSUME NEW t \in EvTasks, WaitersServed(t)',
               \A u \in EvTasks \ {t} :
                  /\ thread'[u] = thread[u] /\ owed'[u] = owed[u] /\ etype'[u] = etype[u]
                  /\ uncalled'[u] = uncalled[u]
                  /\ u \in recorded' <=> u \in recorded
        PROVE  \A u \in EvTasks : WaitersServed(u)'
    BY <1>f, <1>o, WaitersStay
  \* Before the event nobody waits, and afterwards the QRC only cleans up.
  <1>2. ASSUME NEW t \in EvTasks,
               \/ StartThread(t) \/ Execute(t) \/ StoreResult(t) \/ FreeResources(t)
               \/ FreeRaises(t) \/ PublishRefused(t) \/ PopTask(t) \/ PruneStale(t)
        PROVE  \A u \in EvTasks : WaitersServed(u)'
    <2>1. UNCHANGED <<etype, owed, uncalled, recorded>>
      BY <1>2 DEF StartThread, Execute, StoreResult, FreeResources, FreeRaises, PublishRefused,
                  PopTask, PruneStale, sendvars
    <2>2. PICK from, to \in Places :
             /\ ThreadAt(t, from, to)
             /\ \/ /\ from \in {"new", "running", "storing", "freeing"}
                   /\ to \in {"running", "storing", "freeing", "pushing", "dead"}
                \/ /\ from \in {"calling", "popping", "pruning"}
                   /\ to \in {"popping", "over"}
      <3>1. AfterDispatch(t) \in {"popping", "over"}
        BY <1>t, DispatchEnds
      <3> QED
        BY <1>2, <3>1 DEF StartThread, Execute, StoreResult, FreeResources, FreeRaises,
           PublishRefused, PopTask, PruneStale, Places
    <2>3. /\ thread[t] = from /\ thread'[t] = to
          /\ \A u \in EvTasks \ {t} : thread'[u] = thread[u]
      BY <1>t, <2>2, ThreadMoves
    <2>4. WaitersServed(t) /\ ResultPlaced(t) /\ owed[t] \subseteq Registrations
      BY <1>t
    <2>5. WaitersServed(t)'
      BY <1>f, <2>1, <2>2, <2>3, <2>4
         DEF WaitersServed, ResultPlaced, Published, Forward, Wants, Answers
    <2> QED
      BY <1>o, <2>1, <2>3, <2>5

  <1>3. ASSUME NEW t \in EvTasks, MakeEvent(t)
        PROVE  \A u \in EvTasks : WaitersServed(u)'
    <2>1. /\ ThreadAt(t, "pushing", "calling") /\ "calling" \in Places
          /\ UNCHANGED <<uncalled, recorded, endpoints, regpc>>
          /\ etype' = [etype EXCEPT ![t] = qrcType]
          /\ owed' = [owed EXCEPT ![t] = {r \in endpoints : regpc[r] = "done" /\ Wants(r, t)}]
      BY <1>3 DEF MakeEvent, regvars, Places
    <2>2. /\ thread[t] = "pushing" /\ thread'[t] = "calling"
          /\ \A u \in EvTasks \ {t} : thread'[u] = thread[u]
      BY <1>t, <2>1, ThreadMoves
    <2>3. /\ etype'[t] = qrcType
          /\ owed'[t] = {r \in endpoints : regpc[r] = "done" /\ Wants(r, t)}
          /\ \A u \in EvTasks \ {t} : etype'[u] = etype[u] /\ owed'[u] = owed[u]
      BY <1>t, <2>1
    <2>4. t \notin recorded'
      BY <1>t, <2>1, <2>2 DEF ResultPlaced, Published
    <2>5. \A r \in owed'[t] : Wants(r, t) /\ regpc'[r] \in {"done", "gone"} /\ etype'[t] = r.evtype
      BY <1>t, <2>1, <2>3 DEF Served, TypeTold
    <2>6. WaitersServed(t)'
      BY <2>2, <2>4, <2>5 DEF WaitersServed, Wants
    <2> QED
      BY <1>o, <2>1, <2>2, <2>3, <2>6
  <1>4. ASSUME NEW t \in EvTasks, PublishEvent(t)
        PROVE  \A u \in EvTasks : WaitersServed(u)'
    <2>0. AfterDispatch(t) \in {"over", "popping"}
      BY <1>t, DispatchEnds
    <2>1. /\ UNCHANGED <<etype, owed, endpoints, regpc, alive, delivered>>
          /\ recorded' = recorded \cup {t}
          /\ uncalled' = [uncalled EXCEPT ![t] = MatchesOf(t, etype[t])]
      BY <1>4 DEF PublishEvent, regvars
    <2>2. PICK to \in {"sending", "over", "popping"} :
             /\ ThreadAt(t, "calling", to) /\ to \in Places
             /\ to # "sending" => MatchesOf(t, etype[t]) = {}
      BY <1>4, <2>0 DEF PublishEvent, NextSend, Places
    <2>3. /\ thread[t] = "calling" /\ thread'[t] = to
          /\ \A u \in EvTasks \ {t} : thread'[u] = thread[u]
      BY <1>t, <2>2, ThreadMoves
    <2>4. /\ uncalled'[t] = MatchesOf(t, etype[t])
          /\ \A u \in EvTasks \ {t} : uncalled'[u] = uncalled[u]
      BY <1>t, <2>1
    <2>5. \A r \in owed[t] : r \in endpoints => r \in uncalled'[t]
      BY <1>t, <2>4 DEF WaitersServed, MatchesOf
    <2>6. WaitersServed(t)'
      BY <1>t, <2>1, <2>2, <2>3, <2>4, <2>5 DEF WaitersServed, Wants, Answers
    <2> QED
      BY <1>o, <2>1, <2>3, <2>4, <2>6
  <1>5. ASSUME NEW t \in EvTasks, EndQueued(t)
        PROVE  \A u \in EvTasks : WaitersServed(u)'
    <2>0. AfterDispatch(t) \in {"over", "popping"}
      BY <1>t, DispatchEnds
    <2>1. /\ UNCHANGED <<etype, owed, endpoints, regpc, alive, delivered>>
          /\ recorded' = recorded \cup {t}
          /\ uncalled' = [uncalled EXCEPT ![t] = MatchesOf(t, ctlType)]
      BY <1>5 DEF EndQueued, regvars
    <2>2. PICK to \in {"sending", "over", "popping"} :
             /\ ThreadAt(t, "new", to) /\ to \in Places
             /\ to # "sending" => MatchesOf(t, ctlType) = {}
      BY <1>5, <2>0 DEF EndQueued, NextSend, Places
    <2>3. /\ thread[t] = "new" /\ thread'[t] = to
          /\ \A u \in EvTasks \ {t} : thread'[u] = thread[u]
      BY <1>t, <2>2, ThreadMoves
    <2>4. /\ uncalled'[t] = MatchesOf(t, ctlType)
          /\ \A u \in EvTasks \ {t} : uncalled'[u] = uncalled[u]
      BY <1>t, <2>1
    <2>5. owed'[t] = {}
      BY <1>t, <2>1, <2>3 DEF WaitersServed
    <2>6. WaitersServed(t)'
      BY <2>2, <2>3, <2>4, <2>5 DEF WaitersServed
    <2> QED
      BY <1>o, <2>1, <2>3, <2>4, <2>6
  <1>6. ASSUME NEW t \in EvTasks, SendOne(t)
        PROVE  \A u \in EvTasks : WaitersServed(u)'
    <2>0. AfterDispatch(t) \in {"over", "popping"}
      BY <1>t, DispatchEnds
    <2>1. PICK r \in uncalled[t] :
             /\ \E f : ThreadAt(t, "sending", AfterPut(t, uncalled[t] \ {r}, f))
             /\ uncalled' = [uncalled EXCEPT ![t] = uncalled[t] \ {r}]
             /\ Answers(r) => <<t, r>> \in delivered'
      BY <1>6, <1>t DEF SendOne
    <2>2. UNCHANGED <<etype, owed, endpoints, regpc, alive, recorded>>
      BY <1>6 DEF SendOne, regvars
    <2>3. PICK to \in {"sending", "pruning", "over", "popping"} :
             /\ ThreadAt(t, "sending", to) /\ to \in Places
             /\ to # "sending" => uncalled[t] \ {r} = {}
      BY <2>0, <2>1 DEF AfterPut, Places
    <2>4. /\ thread[t] = "sending" /\ thread'[t] = to
          /\ \A u \in EvTasks \ {t} : thread'[u] = thread[u]
      BY <1>t, <2>3, ThreadMoves
    <2>5. /\ uncalled'[t] = uncalled[t] \ {r}
          /\ \A u \in EvTasks \ {t} : uncalled'[u] = uncalled[u]
      BY <1>t, <2>1
    <2>6. \A s \in owed[t] : t \in recorded /\ s \in endpoints /\ Answers(s) =>
             s \in uncalled'[t] \/ <<t, s>> \in delivered'
      BY <1>f, <1>t, <2>1, <2>5 DEF WaitersServed, Forward
    <2>7. WaitersServed(t)'
      BY <1>t, <2>2, <2>3, <2>4, <2>5, <2>6 DEF WaitersServed, Wants, Answers
    <2> QED
      BY <1>o, <2>2, <2>4, <2>5, <2>7
  <1>7. CASE UNCHANGED <<thread, etype, owed, uncalled, recorded>>
    BY <1>7, <1>f, WaitersStay
  <1>8. ASSUME NEW r \in Registrations, Register(r) \/ SetType(r) \/ TellQrc(r) \/ Unregister(r)
        PROVE  UNCHANGED <<thread, etype, owed, uncalled, recorded>>
    BY <1>8 DEF Register, SetType, TellQrc, Unregister, threadvars, sendvars
  <1>9. ASSUME NEW x, CancelRunning(x) \/ EndpointFails(x)
        PROVE  UNCHANGED <<thread, etype, owed, uncalled, recorded>>
    BY <1>9 DEF CancelRunning, EndpointFails, threadvars, sendvars
  <1>10. UNCHANGED evvars => UNCHANGED <<thread, etype, owed, uncalled, recorded>>
    BY DEF evvars, threadvars, sendvars
  <1> QED
    BY <1>2, <1>3, <1>4, <1>5, <1>6, <1>7, <1>8, <1>9, <1>10 DEF EventsNext

\* A result is kept once, and everyone whose registration had returned when
\* it was pushed, that has not left and answers, is told, for any number of
\* tasks and clients, as long as they ask for one type of event: the QRC
\* makes its events of the type that it was told last
\* (register_event_notification, _dispatch_completion_deliveries).
THEOREM ResultsReachTheirClients == OneType => (EventsSpec => []ResultsReachOnce)
  <1>1. SUFFICES ASSUME OneType
                 PROVE  EventsSpec => []ResultsReachOnce
    OBVIOUS
  <1>2. Served => ResultsReachOnce
    <2>1. Served => RegisteredIsTold
      BY DEF Served, ResultsPlaced, EventTypes, WaitersServed, RegisteredIsTold
    <2>2. Served => ResultInOnePlace
      BY DEF Served, ResultsPlaced, ResultPlaced, ResultInOnePlace
    <2> QED
      BY <2>1, <2>2 DEF ResultsReachOnce
  <1>3. Served /\ [EventsNext]_evvars => Served'
    BY <1>1, ServedStep
  <1> QED
    BY <1>2, <1>3, EventsInitially, PTL DEF EventsSpec
============================================================================
