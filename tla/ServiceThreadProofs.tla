------------------------- MODULE ServiceThreadProofs -------------------------
(***************************************************************************)
(* The threads inside a QPM service: the handshake of the threads that     *)
(* drain the out-of-resources queue (OorDrain), for any number of threads, *)
(* and the worker pool (QRCWorkers), for any number of workers and         *)
(* circuits and any size of the queues.                                    *)
(***************************************************************************)
EXTENDS OorDrain, QRCWorkers, Integers, FiniteSetTheorems, TLAPS

-----------------------------------------------------------------------------
(* The drain handshake.                                                    *)

\* NoRequestLost is not inductive: it says nothing of a raised flag that no
\* caller is owed, and only the lock's owner tells a thread that is turned
\* away that somebody else is inside.
FlagHasReader == requested => \E t \in Threads : dpc[t] # "out"

OwedIsFlagged == owed => requested

DrainInv == DrainTypeOK /\ OneDrainer /\ FlagHasReader /\ OwedIsFlagged

\* The handshake starts with nobody inside and no request.
LEMMA DrainInitially == DrainInit => DrainInv
  BY ThreadAssumption
  DEF DrainInit, DrainInv, DrainTypeOK, OneDrainer, FlagHasReader, OwedIsFlagged, Steps

\* Every step of every thread keeps the handshake's invariant.
LEMMA DrainStep == DrainInv /\ [DrainNext]_ovars => DrainInv'
<1>. SUFFICES ASSUME DrainInv, [DrainNext]_ovars PROVE DrainInv'
  OBVIOUS
<1>. USE ThreadAssumption DEF DrainInv, DrainTypeOK, OneDrainer, FlagHasReader,
                              OwedIsFlagged, Steps, DrainGoto
<1>1. CASE UNCHANGED ovars
  BY <1>1 DEF ovars
<1>2. ASSUME NEW t \in Threads, Request(t) PROVE DrainInv'
  BY <1>2 DEF Request
<1>3. ASSUME NEW t \in Threads, Acquire(t) PROVE DrainInv'
  <2>1. CASE holder = NoThread
    BY <1>3, <2>1 DEF Acquire
  <2>2. CASE holder # NoThread
    \* The flag keeps its reader: the holder is still inside.
    <3>1. holder \in Threads /\ dpc[holder] # "out" /\ holder # t
      BY <1>3, <2>2 DEF Acquire
    <3>2. dpc'[holder] # "out" /\ UNCHANGED <<holder, requested, owed>>
      BY <1>3, <2>2, <3>1 DEF Acquire
    <3>. QED  BY <1>3, <2>2, <3>1, <3>2 DEF Acquire
  <2>. QED  BY <2>1, <2>2
<1>4. ASSUME NEW t \in Threads, ClearRequest(t) PROVE DrainInv'
  BY <1>4 DEF ClearRequest
<1>5. ASSUME NEW t \in Threads, Nested(t) PROVE DrainInv'
  BY <1>5 DEF Nested
<1>6. ASSUME NEW t \in Threads, EndPass(t) PROVE DrainInv'
  BY <1>6 DEF EndPass
<1>7. ASSUME NEW t \in Threads, Release(t) PROVE DrainInv'
  BY <1>7 DEF Release
<1>8. ASSUME NEW t \in Threads, Check(t) PROVE DrainInv'
  BY <1>8 DEF Check
<1>. QED
  BY <1>1, <1>2, <1>3, <1>4, <1>5, <1>6, <1>7, <1>8 DEF DrainNext

\* One thread drains at a time, whatever the number of callers.
THEOREM DrainExclusive == Spec => []OneDrainer
  BY DrainInitially, DrainStep, PTL DEF Spec, DrainInv

\* No call of process_oor_queue loses its request, whatever the number of
\* callers and however their steps interleave.
THEOREM DrainKeepsRequests == Spec => []NoRequestLost
<1>1. DrainInv => NoRequestLost
  BY DEF DrainInv, FlagHasReader, OwedIsFlagged, NoRequestLost
<1>. QED
  BY <1>1, DrainInitially, DrainStep, PTL DEF Spec

-----------------------------------------------------------------------------
(* The worker pool.                                                        *)

USE DEF loopVars, processVars, reportVars, stopVars

\* A runner that is about to launch or settle a circuit has one in hand, and
\* one that is about to deliver a result knows whose it is.
InHand ==
    \A w \in Workers :
        /\ pc[w] \in {"launch", "size", "free", "settle"} => hand[w] \in Circuits
        /\ pc[w] \in {"deliver", "deliverAbort"} => ending[w] \in Circuits

TypedInv == WorkersTypeOK /\ InHand

----------------------------------------------------------------------------
USE Zenon

\* What happens to InHand when one runner moves.
LEMMA InHandStep ==
    ASSUME TypedInv, NEW w \in Workers, NEW l \in PCs,
           pc' = [pc EXCEPT ![w] = l],
           \E h : hand' = [hand EXCEPT ![w] = h],
           \E e : ending' = [ending EXCEPT ![w] = e],
           l \in {"launch", "size", "free", "settle"} => hand'[w] \in Circuits,
           l \in {"deliver", "deliverAbort"} => ending'[w] \in Circuits
    PROVE  InHand'
BY DEF TypedInv, WorkersTypeOK, InHand

\* A step that leaves a runner alone, written as an update.
LEMMA SameHand ==
    ASSUME TypedInv, NEW w \in Workers
    PROVE  /\ hand = [hand EXCEPT ![w] = hand[w]]
           /\ ending = [ending EXCEPT ![w] = ending[w]]
           /\ pc = [pc EXCEPT ![w] = pc[w]]
BY DEF TypedInv, WorkersTypeOK

\* A count stays one when it is raised.
LEMMA CountTyped ==
    ASSUME NEW f \in [Circuits -> Nat], NEW c \in Circuits
    PROVE  [f EXCEPT ![c] = @ + 1] \in [Circuits -> Nat]
BY SMTT(30)

\* What a queue holds.
LEMMA QueueTyped ==
    ASSUME WorkersTypeOK, NEW w \in Workers
    PROVE  /\ queue[w] \in Seq(Circuits \cup {NoCircuit})
           /\ Len(queue[w]) \in Nat
           /\ queue[w] # <<>> =>
                /\ Head(queue[w]) \in Circuits \cup {NoCircuit}
                /\ Tail(queue[w]) \in Seq(Circuits \cup {NoCircuit})
                /\ Len(Tail(queue[w])) = Len(queue[w]) - 1
BY SMTT(30) DEF WorkersTypeOK

\* Every step of a runner keeps the types.
LEMMA RunnerTyped ==
    ASSUME TypedInv, NEW w \in Workers, Runner(w)
    PROVE  TypedInv'
<1> USE WorkersAssumption DEF Goto
<1>a. WorkersTypeOK /\ InHand
  BY DEF TypedInv
<1>b. {"loop", "get", "check", "deliver", "launch", "size", "free", "settle",
       "deliverAbort", "exited"} = PCs
  BY DEF PCs
<1>1. CASE Loop(w)
  <2>1. WorkersTypeOK'
    BY <1>1, <1>a, <1>b DEF Loop, WorkersTypeOK
  <2>2. InHand'
    BY <1>1, <1>b, InHandStep, SameHand DEF Loop
  <2> QED  BY <2>1, <2>2 DEF TypedInv
<1>2. CASE Get(w)
  <2>1. Head(queue[w]) \in Circuits \cup {NoCircuit}
    BY <1>2, <1>a, QueueTyped DEF Get
  <2>2. Tail(queue[w]) \in Seq(Circuits \cup {NoCircuit})
    BY <1>2, <1>a, QueueTyped DEF Get
  <2>3. WorkersTypeOK'
    BY <1>2, <1>a, <1>b, <2>1, <2>2 DEF Get, WorkersTypeOK
  <2>4. InHand'
    BY <1>2, <1>b, InHandStep, SameHand DEF Get
  <2> QED  BY <2>3, <2>4 DEF TypedInv
<1>3. CASE GetEmpty(w)
  <2>1. WorkersTypeOK'
    BY <1>3, <1>a, <1>b DEF GetEmpty, WorkersTypeOK
  <2>2. InHand'
    BY <1>3, <1>b, InHandStep, SameHand DEF GetEmpty
  <2> QED  BY <2>1, <2>2 DEF TypedInv
<1>4. CASE Checked(w)
  <2>1. WorkersTypeOK'
    BY <1>4, <1>a, <1>b DEF Checked, WorkersTypeOK
  <2>2. hand[w] # NoCircuit => hand[w] \in Circuits
    BY <1>a DEF WorkersTypeOK
  <2>3. InHand'
    BY <1>4, <1>b, <2>2, InHandStep, SameHand DEF Checked
  <2> QED  BY <2>1, <2>3 DEF TypedInv
<1>5. CASE Deliver(w)
  <2>1. ending[w] \in Circuits
    BY <1>5, <1>a DEF Deliver, InHand
  <2>2. results' \in [Circuits -> Nat]
    BY <1>5, <1>a, <2>1, CountTyped, SMTT(30) DEF Deliver, WorkersTypeOK
  <2>3. WorkersTypeOK'
    BY <1>5, <1>a, <1>b, <2>2 DEF Deliver, WorkersTypeOK
  <2>4. InHand'
    BY <1>5, <1>b, InHandStep, SameHand DEF Deliver
  <2> QED  BY <2>3, <2>4 DEF TypedInv
<1>6. ASSUME NEW c \in Circuits, AskRunning(w, c)
      PROVE  TypedInv'
  <2>1. CASE UNCHANGED <<todo, process>> /\ Goto(w, "exited")
    <3>1. WorkersTypeOK'
      BY <1>6, <2>1, <1>a, <1>b DEF AskRunning, WorkersTypeOK
    <3>2. InHand'
      BY <1>6, <2>1, <1>b, InHandStep, SameHand DEF AskRunning
    <3> QED  BY <3>1, <3>2 DEF TypedInv
  <2>2. CASE /\ todo' = [todo EXCEPT ![w] = @ \ {c}]
             /\ process' = [process EXCEPT ![c] =
                               IF c \in overdue THEN "exited" ELSE @]
             /\ UNCHANGED pc
    <3>1. todo' \in [Workers -> SUBSET Circuits]
      BY <2>2, <1>a DEF WorkersTypeOK
    <3>2. process' \in [Circuits -> {"none", "running", "lost", "exited"}]
      BY <2>2, <1>a DEF WorkersTypeOK
    <3>3. WorkersTypeOK'
      BY <1>6, <2>2, <1>a, <3>1, <3>2 DEF AskRunning, WorkersTypeOK
    <3>4. InHand'
      BY <1>6, <2>2, <1>a DEF AskRunning, InHand
    <3> QED  BY <3>3, <3>4 DEF TypedInv
  <2> QED  BY <1>6, <2>1, <2>2 DEF AskRunning
<1>7. ASSUME NEW c \in Circuits, AskEnded(w, c)
      PROVE  TypedInv'
  <2>1. todo' \in [Workers -> SUBSET Circuits]
    BY <1>7, <1>a DEF AskEnded, WorkersTypeOK
  <2>2. active' \in [Workers -> SUBSET Circuits]
    BY <1>7, <1>a DEF AskEnded, WorkersTypeOK
  <2>3. CASE UNCHANGED <<freed, ending, pc>>
    <3>1. WorkersTypeOK'
      BY <1>7, <2>1, <2>2, <2>3, <1>a DEF AskEnded, WorkersTypeOK
    <3>2. InHand'
      BY <1>7, <2>3, <1>a DEF AskEnded, InHand
    <3> QED  BY <3>1, <3>2 DEF TypedInv
  <2>4. CASE /\ freed' = [freed EXCEPT ![c] = @ + 1]
             /\ ending' = [ending EXCEPT ![w] = c]
             /\ Goto(w, "deliver")
    <3>1. freed' \in [Circuits -> Nat]
      BY <2>4, <1>a, CountTyped DEF WorkersTypeOK
    <3>2. ending'[w] = c
      BY <2>4, <1>a DEF WorkersTypeOK
    <3>3. WorkersTypeOK'
      BY <1>7, <2>1, <2>2, <2>4, <3>1, <1>a, <1>b DEF AskEnded, WorkersTypeOK
    <3>4. InHand'
      BY <1>7, <2>4, <3>2, <1>b, InHandStep, SameHand DEF AskEnded
    <3> QED  BY <3>3, <3>4 DEF TypedInv
  <2> QED  BY <1>7, <2>3, <2>4 DEF AskEnded
<1>8. CASE Launch(w)
  <2>1. hand[w] \in Circuits
    BY <1>8, <1>a DEF Launch, InHand
  <2>2. process' \in [Circuits -> {"none", "running", "lost", "exited"}]
    BY <1>8, <2>1, <1>a DEF Launch, WorkersTypeOK
  <2>3. WorkersTypeOK'
    BY <1>8, <2>2, <1>a, <1>b DEF Launch, WorkersTypeOK
  <2>4. InHand'
    BY <1>8, <2>1, <1>b, InHandStep, SameHand DEF Launch
  <2> QED  BY <2>3, <2>4 DEF TypedInv
<1>9. CASE Size(w)
  <2>1. hand[w] \in Circuits
    BY <1>9, <1>a DEF Size, InHand
  <2>2. WorkersTypeOK'
    BY <1>9, <1>a, <1>b DEF Size, WorkersTypeOK
  <2>3. InHand'
    BY <1>9, <2>1, <1>b, InHandStep, SameHand DEF Size
  <2> QED  BY <2>2, <2>3 DEF TypedInv
<1>10. CASE Free(w)
  <2>1. hand[w] \in Circuits
    BY <1>10, <1>a DEF Free, InHand
  <2>2. WorkersTypeOK'
    BY <1>10, <1>a, <1>b DEF Free, WorkersTypeOK
  <2>3. InHand'
    BY <1>10, <2>1, <1>b, InHandStep, SameHand DEF Free
  <2> QED  BY <2>2, <2>3 DEF TypedInv
<1>11. CASE Settle(w)
  <2>1. hand[w] \in Circuits
    BY <1>11, <1>a DEF Settle, InHand
  <2>2. CASE process[hand[w]] # "none"
    <3>1. active' = [active EXCEPT ![w] = @ \cup {hand[w]}]
      BY <1>11, <2>2 DEF Settle
    <3>2. active' \in [Workers -> SUBSET Circuits]
      BY <3>1, <2>1, <1>a DEF WorkersTypeOK
    <3>3. WorkersTypeOK'
      BY <1>11, <2>2, <3>2, <1>a, <1>b DEF Settle, WorkersTypeOK
    <3>4. /\ pc' = [pc EXCEPT ![w] = "loop"]
          /\ hand' = [hand EXCEPT ![w] = NoCircuit]
          /\ ending' = ending
      BY <1>11, <2>2 DEF Settle
    <3>5. InHand'
      BY <3>4, <1>b, InHandStep, SameHand
    <3> QED  BY <3>3, <3>5 DEF TypedInv
  <2>3. CASE process[hand[w]] = "none"
    <3>1. freed' \in [Circuits -> Nat]
      BY <1>11, <2>1, <2>3, <1>a, CountTyped, SMTT(30) DEF Settle, WorkersTypeOK
    <3>2. CASE ending' = [ending EXCEPT ![w] = hand[w]] /\ Goto(w, "deliverAbort")
      <4>1. ending'[w] = hand[w]
        BY <3>2, <1>a DEF WorkersTypeOK
      <4>2. WorkersTypeOK'
        BY <1>11, <2>1, <2>3, <3>1, <3>2, <1>a, <1>b DEF Settle, WorkersTypeOK
      <4>3. InHand'
        BY <1>11, <2>1, <3>2, <4>1, <1>b, InHandStep DEF Settle
      <4> QED  BY <4>2, <4>3 DEF TypedInv
    <3>3. CASE ending' = ending /\ Goto(w, "exited")
      <4>1. WorkersTypeOK'
        BY <1>11, <2>3, <3>1, <3>3, <1>a, <1>b DEF Settle, WorkersTypeOK
      <4>2. InHand'
        BY <1>11, <3>3, <1>b, InHandStep, SameHand DEF Settle
      <4> QED  BY <4>1, <4>2 DEF TypedInv
    <3> QED  BY <1>11, <2>3, <3>2, <3>3 DEF Settle
  <2> QED  BY <2>2, <2>3
<1>12. CASE DeliverAbort(w)
  <2>1. ending[w] \in Circuits
    BY <1>12, <1>a DEF DeliverAbort, InHand
  <2>2. results' \in [Circuits -> Nat]
    BY <1>12, <1>a, <2>1, CountTyped, SMTT(30) DEF DeliverAbort, WorkersTypeOK
  <2>3. WorkersTypeOK'
    BY <1>12, <1>a, <1>b, <2>2 DEF DeliverAbort, WorkersTypeOK
  <2>4. InHand'
    BY <1>12, <1>b, InHandStep, SameHand DEF DeliverAbort
  <2> QED  BY <2>3, <2>4 DEF TypedInv
<1> QED
  BY <1>1, <1>2, <1>3, <1>4, <1>5, <1>6, <1>7, <1>8, <1>9, <1>10, <1>11,
     <1>12 DEF Runner

\* So does every step.
LEMMA NextTyped ==
    ASSUME TypedInv, [WorkersNext]_wvars
    PROVE  TypedInv'
<1> USE WorkersAssumption
<1>a. WorkersTypeOK /\ InHand
  BY DEF TypedInv
<1>1. ASSUME NEW c \in Circuits, AsyncRun(c)
      PROVE  TypedInv'
  <2>1. PICK w \in Workers :
           queue' = [queue EXCEPT ![w] = Append(@, c)]
    BY <1>1 DEF AsyncRun
  <2>2. queue' \in [Workers -> Seq(Circuits \cup {NoCircuit})]
    BY <2>1, <1>a, QueueTyped, SMTT(30) DEF WorkersTypeOK
  <2>3. WorkersTypeOK'
    BY <1>1, <2>2, <1>a, ZenonT(60) DEF AsyncRun, WorkersTypeOK
  <2>4. InHand'
    BY <1>1, <1>a DEF AsyncRun, InHand
  <2> QED  BY <2>3, <2>4 DEF TypedInv
<1>2. ASSUME NEW c \in Circuits, Exit(c)
      PROVE  TypedInv'
  <2>1. \/ process' = [process EXCEPT ![c] = "exited"]
        \/ process' = [process EXCEPT ![c] = "lost"]
    BY <1>2 DEF Exit
  <2>2. process' \in [Circuits -> {"none", "running", "lost", "exited"}]
    BY <2>1, <1>a DEF WorkersTypeOK
  <2>3. WorkersTypeOK'
    BY <1>2, <2>2, <1>a DEF Exit, WorkersTypeOK
  <2>4. InHand'
    BY <1>2, <1>a DEF Exit, InHand
  <2> QED  BY <2>3, <2>4 DEF TypedInv
<1>3. ASSUME NEW c \in Circuits, Expire(c)
      PROVE  TypedInv'
  <2>1. WorkersTypeOK'
    BY <1>3, <1>a DEF Expire, WorkersTypeOK
  <2>2. InHand'
    BY <1>3, <1>a DEF Expire, InHand
  <2> QED  BY <2>1, <2>2 DEF TypedInv
<1>4. CASE BeginShutdown
  <2>1. WorkersTypeOK'
    BY <1>4, <1>a DEF BeginShutdown, WorkersTypeOK
  <2>2. InHand'
    BY <1>4, <1>a DEF BeginShutdown, InHand
  <2> QED  BY <2>1, <2>2 DEF TypedInv
<1>5. CASE Wake
  <2>1. queue' \in [Workers -> Seq(Circuits \cup {NoCircuit})]
    BY <1>5, <1>a, QueueTyped, SMTT(30) DEF Wake
  <2>2. WorkersTypeOK'
    BY <1>5, <2>1, <1>a DEF Wake, WorkersTypeOK
  <2>3. InHand'
    BY <1>5, <1>a DEF Wake, InHand
  <2> QED  BY <2>2, <2>3 DEF TypedInv
<1>6. CASE UNCHANGED wvars
  BY <1>6, <1>a DEF wvars, TypedInv, WorkersTypeOK, InHand
<1> QED
  BY <1>1, <1>2, <1>3, <1>4, <1>5, <1>6, RunnerTyped DEF WorkersNext

\* TypedInv holds at the start of QRCCircuitManager, with or without faults.
LEMMA WorkersInv == WorkersSpec => []TypedInv
<1>1. WorkersInit => TypedInv
  <2> SUFFICES ASSUME WorkersInit PROVE TypedInv
    OBVIOUS
  <2>1. pc \in [Workers -> PCs]
    BY DEF WorkersInit, PCs
  <2>2. queue \in [Workers -> Seq(Circuits \cup {NoCircuit})]
    BY SMTT(30) DEF WorkersInit
  <2>3. active \in [Workers -> SUBSET Circuits]
    BY DEF WorkersInit
  <2>4. todo \in [Workers -> SUBSET Circuits]
    BY DEF WorkersInit
  <2>5. WorkersTypeOK
    BY <2>1, <2>2, <2>3, <2>4 DEF WorkersInit, WorkersTypeOK
  <2>6. InHand
    BY DEF WorkersInit, InHand
  <2> QED  BY <2>5, <2>6 DEF TypedInv
<1> QED  BY <1>1, NextTyped, PTL DEF WorkersSpec

\* The worker pool of util_qrc.py is well typed whatever fails: in particular a
\* runner never makes None active and never reports a result for no circuit.
THEOREM WorkersTyped == WorkersSpec => []WorkersTypeOK
<1>1. TypedInv => WorkersTypeOK
  BY DEF TypedInv
<1> QED  BY <1>1, WorkersInv, PTL

----------------------------------------------------------------------------
\* async_run and the runners together never overfill a queue: the check of the
\* queue's size and the put are under one lock, and only they add circuits.
THEOREM QueueIsBounded == WorkersSpec => []QueueBounded
<1> USE WorkersAssumption
<1>1. WorkersInit => QueueBounded
  BY SMTT(30) DEF WorkersInit, QueueBounded
<1>2. TypedInv /\ QueueBounded /\ [WorkersNext]_wvars => QueueBounded'
  <2> SUFFICES ASSUME TypedInv, QueueBounded, [WorkersNext]_wvars
               PROVE  QueueBounded'
    OBVIOUS
  <2>a. WorkersTypeOK
    BY DEF TypedInv
  <2>b. woken \in BOOLEAN
    BY <2>a DEF WorkersTypeOK
  <2>1. CASE UNCHANGED <<queue, woken>>
    BY <2>1 DEF QueueBounded
  <2>2. ASSUME NEW w \in Workers, Get(w)
        PROVE  QueueBounded'
    <3>1. queue' = [queue EXCEPT ![w] = Tail(queue[w])] /\ woken' = woken
      BY <2>2 DEF Get
    <3>2. Len(Tail(queue[w])) = Len(queue[w]) - 1
      BY <2>2, <2>a, QueueTyped DEF Get
    <3>3. \A v \in Workers : Len(queue'[v]) <= Len(queue[v])
      BY <3>1, <3>2, <2>a, QueueTyped, SMTT(30) DEF WorkersTypeOK
    <3>4. \A v \in Workers : Len(queue'[v]) \in Int
      BY <3>1, <3>2, <2>a, QueueTyped, SMTT(30) DEF WorkersTypeOK
    <3> QED  BY <3>1, <3>3, <3>4, <2>a, QueueTyped, SMTT(30) DEF QueueBounded
  <2>3. ASSUME NEW c \in Circuits, AsyncRun(c)
        PROVE  QueueBounded'
    <3>1. PICK w \in Workers :
             /\ Len(queue[w]) < QueueLimit
             /\ queue' = [queue EXCEPT ![w] = Append(@, c)]
      BY <2>3 DEF AsyncRun, Eligible
    <3>2. Len(Append(queue[w], c)) = Len(queue[w]) + 1
      BY <2>a, QueueTyped, SMTT(30)
    <3>3. woken' = woken
      BY <2>3 DEF AsyncRun
    <3>4. Len(queue'[w]) <= QueueLimit
      BY <3>1, <3>2, <2>a, QueueTyped, SMTT(30) DEF WorkersTypeOK
    <3>5. \A v \in Workers \ {w} : queue'[v] = queue[v]
      BY <3>1, <2>a DEF WorkersTypeOK
    <3>6. Len(queue'[w]) \in Int
      BY <3>1, <3>2, <2>a, QueueTyped, SMTT(30) DEF WorkersTypeOK
    <3> QED  BY <3>3, <3>4, <3>5, <3>6, <2>b, SMTT(30) DEF QueueBounded
  <2>4. CASE Wake
    <3>1. ~woken /\ woken'
      BY <2>4 DEF Wake
    <3>2. \A v \in Workers : Len(queue'[v]) = Len(queue[v]) + 1
      BY <2>4, <2>a, QueueTyped, SMTT(30) DEF Wake
    <3> QED  BY <3>1, <3>2, <2>a, QueueTyped, SMTT(30) DEF QueueBounded
  <2> QED
    BY <2>1, <2>2, <2>3, <2>4, ZenonT(60) DEF WorkersNext, Runner, Loop, GetEmpty, Checked,
       Deliver, AskRunning, AskEnded, Launch, Size, Free, Settle, DeliverAbort,
       Exit, Expire, BeginShutdown, wvars
<1> QED  BY <1>1, <1>2, WorkersInv, PTL DEF WorkersSpec

----------------------------------------------------------------------------
\* What a step of one runner leaves alone: the other workers' state, and the
\* flag, which nothing ever lowers.
LEMMA OthersKept ==
    ASSUME TypedInv, NEW v \in Workers, Runner(v)
    PROVE  /\ stopping => stopping'
           /\ \A w \in Workers \ {v} :
                /\ pc'[w] = pc[w]
                /\ queue'[w] = queue[w]
                /\ state'[w] = state[w]
                /\ hand'[w] = hand[w]
<1> USE DEF Goto
<1>a. WorkersTypeOK
  BY DEF TypedInv
<1>1. /\ \E l : pc' = [pc EXCEPT ![v] = l]
      /\ \E q : queue' = [queue EXCEPT ![v] = q]
      /\ \E s : state' = [state EXCEPT ![v] = s]
      /\ \E h : hand' = [hand EXCEPT ![v] = h]
  <2>1. /\ pc = [pc EXCEPT ![v] = pc[v]]
        /\ queue = [queue EXCEPT ![v] = queue[v]]
        /\ state = [state EXCEPT ![v] = state[v]]
        /\ hand = [hand EXCEPT ![v] = hand[v]]
    BY <1>a DEF WorkersTypeOK
  <2>2. \E l : pc' = [pc EXCEPT ![v] = l]
    BY <2>1 DEF Runner, Loop, Get, GetEmpty, Checked, Deliver, AskRunning,
       AskEnded, Launch, Size, Free, Settle, DeliverAbort
  <2>3. \E q : queue' = [queue EXCEPT ![v] = q]
    BY <2>1 DEF Runner, Loop, Get, GetEmpty, Checked, Deliver, AskRunning,
       AskEnded, Launch, Size, Free, Settle, DeliverAbort
  <2>4. \E s : state' = [state EXCEPT ![v] = s]
    BY <2>1 DEF Runner, Loop, Get, GetEmpty, Checked, Deliver, AskRunning,
       AskEnded, Launch, Size, Free, Settle, DeliverAbort
  <2>5. \E h : hand' = [hand EXCEPT ![v] = h]
    BY <2>1 DEF Runner, Loop, Get, GetEmpty, Checked, Deliver, AskRunning,
       AskEnded, Launch, Size, Free, Settle, DeliverAbort
  <2> QED  BY <2>2, <2>3, <2>4, <2>5
<1>2. stopping => stopping'
  BY DEF Runner, Loop, Get, GetEmpty, Checked, Deliver, AskRunning, AskEnded,
     Launch, Size, Free, Settle, DeliverAbort
<1> QED  BY <1>1, <1>2, <1>a DEF WorkersTypeOK

\* A worker that says it is busy has a full queue or a runner about to free it,
\* provided get_exec_status does not raise out of check_active_tasks: the one
\* fault that ends a runner with a circuit in hand.
THEOREM BusyIsReasoned ==
    "status" \notin Faults => (WorkersSpec => []BusyHasReason)
<1> SUFFICES ASSUME "status" \notin Faults
             PROVE  WorkersSpec => []BusyHasReason
  OBVIOUS
<1> USE WorkersAssumption
<1>1. WorkersInit => BusyHasReason
  BY DEF WorkersInit, BusyHasReason
<1>2. TypedInv /\ BusyHasReason /\ [WorkersNext]_wvars => BusyHasReason'
  <2> SUFFICES ASSUME TypedInv, BusyHasReason, [WorkersNext]_wvars
               PROVE  BusyHasReason'
    OBVIOUS
  <2>a. WorkersTypeOK
    BY DEF TypedInv
  <2>1. ASSUME NEW v \in Workers, Runner(v)
        PROVE  BusyHasReason'
    <3> SUFFICES ASSUME state'[v] = "BUSY", ~stopping'
                 PROVE  \/ Len(queue'[v]) >= QueueLimit
                        \/ /\ hand'[v] # NoCircuit
                           /\ pc'[v] \in {"check", "deliver", "launch", "size",
                                          "free"}
      BY <2>1, OthersKept, ZenonT(60) DEF BusyHasReason
    <3> USE DEF Goto
    <3>s. ~stopping
      BY <2>1, OthersKept
    <3>b. state[v] = "BUSY" =>
              \/ Len(queue[v]) >= QueueLimit
              \/ /\ hand[v] # NoCircuit
                 /\ pc[v] \in {"check", "deliver", "launch", "size", "free"}
      BY <3>s DEF BusyHasReason
    <3>q. Len(queue[v]) \in Nat
      BY <2>a, QueueTyped
    <3>1. CASE Loop(v)
      BY <3>1, <3>b, <3>s DEF Loop
    <3>2. CASE Get(v)
      <4>1. hand'[v] # NoCircuit /\ pc'[v] = "check"
        BY <3>2, <2>a DEF Get, WorkersTypeOK
      <4> QED  BY <4>1
    <3>3. CASE GetEmpty(v)
      <4>1. Len(queue[v]) = 0
        BY <3>3, SMTT(30) DEF GetEmpty
      <4>2. state[v] = "BUSY" /\ pc[v] = "get"
        BY <3>3 DEF GetEmpty
      <4> QED  BY <4>1, <4>2, <3>b, SMTT(30)
    <3>4. CASE Checked(v)
      BY <3>4, <3>b, <2>a DEF Checked, WorkersTypeOK
    <3>5. CASE Deliver(v)
      BY <3>5, <3>b, <2>a DEF Deliver, WorkersTypeOK
    <3>6. ASSUME NEW c \in Circuits, AskRunning(v, c)
          PROVE  UNCHANGED <<queue, state, hand, pc>>
      BY <3>6 DEF AskRunning
    <3>7. ASSUME NEW c \in Circuits, AskEnded(v, c)
          PROVE  /\ UNCHANGED <<queue, state, hand>>
                 /\ pc[v] = "check"
                 /\ pc'[v] \in {"check", "deliver"}
      BY <3>7, <2>a DEF AskEnded, WorkersTypeOK
    <3>8. CASE Launch(v)
      BY <3>8, <3>b, <2>a DEF Launch, WorkersTypeOK
    <3>9. CASE Size(v)
      <4>1. UNCHANGED <<queue, state, hand>>
        BY <3>9 DEF Size
      <4>2. Len(queue[v]) < QueueLimit => pc'[v] = "free"
        BY <3>9, <2>a DEF Size, WorkersTypeOK
      <4>3. Len(queue[v]) < QueueLimit \/ Len(queue[v]) >= QueueLimit
        BY <3>q, SMTT(30)
      <4> QED  BY <4>1, <4>2, <4>3, <3>b
    <3>10. CASE Free(v)
      BY <3>10, <2>a DEF Free, WorkersTypeOK
    <3>11. CASE Settle(v)
      <4>1. UNCHANGED <<queue, state>> /\ pc[v] = "settle"
        BY <3>11 DEF Settle
      <4> QED  BY <4>1, <3>b
    <3>12. CASE DeliverAbort(v)
      <4>1. UNCHANGED <<queue, state>> /\ pc[v] = "deliverAbort"
        BY <3>12 DEF DeliverAbort
      <4> QED  BY <4>1, <3>b
    <3> QED
      BY <2>1, <3>1, <3>2, <3>3, <3>4, <3>5, <3>6, <3>7, <3>8, <3>9, <3>10,
         <3>11, <3>12, <3>b DEF Runner
  <2>2. ASSUME NEW c \in Circuits, AsyncRun(c)
        PROVE  BusyHasReason'
    <3>1. PICK w \in Workers :
             /\ state[w] = "FREE"
             /\ queue' = [queue EXCEPT ![w] = Append(@, c)]
             /\ state' = [state EXCEPT ![w] =
                     IF Len(queue[w]) + 1 >= QueueLimit THEN "BUSY" ELSE @]
      BY <2>2 DEF AsyncRun, Eligible
    <3>2. UNCHANGED <<hand, pc, stopping>>
      BY <2>2 DEF AsyncRun
    <3>3. Len(queue'[w]) = Len(queue[w]) + 1
      BY <3>1, <2>a, QueueTyped, SMTT(30) DEF WorkersTypeOK
    <3>4. state'[w] = "BUSY" => Len(queue'[w]) >= QueueLimit
      BY <3>1, <3>3, <2>a DEF WorkersTypeOK
    <3>5. \A v \in Workers \ {w} : state'[v] = state[v] /\ queue'[v] = queue[v]
      BY <3>1, <2>a DEF WorkersTypeOK
    <3> QED  BY <3>2, <3>4, <3>5 DEF BusyHasReason
  <2>3. CASE UNCHANGED <<queue, state, hand, pc>> /\ (stopping => stopping')
    BY <2>3 DEF BusyHasReason
  <2>4. CASE Wake
    BY <2>4 DEF Wake, BusyHasReason
  <2> QED
    BY <2>1, <2>2, <2>3, <2>4, SMTT(30) DEF WorkersNext, Exit, Expire, BeginShutdown, wvars
<1> QED  BY <1>1, <1>2, WorkersInv, PTL DEF WorkersSpec

\* A runner ends only because of a shutdown, provided nothing raises in the
\* three places from which an exception leaves the runner's loop: the status
\* request, free_resources and the event sink of a circuit not launched.
THEOREM OnlyShutdownEnds ==
    Faults \cap {"status", "escape", "push"} = {}
        => (WorkersSpec => []OnlyShutdownEndsRunners)
<1> SUFFICES ASSUME Faults \cap {"status", "escape", "push"} = {}
             PROVE  WorkersSpec => []OnlyShutdownEndsRunners
  OBVIOUS
<1>1. WorkersInit => OnlyShutdownEndsRunners
  BY DEF WorkersInit, OnlyShutdownEndsRunners
<1>2. TypedInv /\ OnlyShutdownEndsRunners /\ [WorkersNext]_wvars
        => OnlyShutdownEndsRunners'
  <2> SUFFICES ASSUME TypedInv, OnlyShutdownEndsRunners, [WorkersNext]_wvars
               PROVE  OnlyShutdownEndsRunners'
    OBVIOUS
  <2>1. ASSUME NEW v \in Workers, Runner(v)
        PROVE  OnlyShutdownEndsRunners'
    <3>1. pc'[v] = "exited" => pc[v] = "exited" \/ stopping
      <4> USE DEF Goto
      <4>a. pc \in [Workers -> PCs]
        BY DEF TypedInv, WorkersTypeOK
      <4>1. Loop(v) => (pc'[v] = "exited" => stopping)
        BY <4>a DEF Loop
      <4>2. Get(v) \/ GetEmpty(v) \/ Checked(v) \/ Deliver(v)
              => pc'[v] # "exited"
        BY <4>a DEF Get, GetEmpty, Checked, Deliver
      <4>3. ASSUME NEW c \in Circuits, AskRunning(v, c) \/ AskEnded(v, c)
            PROVE  pc'[v] # "exited"
        BY <4>3, <4>a DEF AskRunning, AskEnded
      <4>4. Launch(v) \/ Size(v) \/ Free(v) => pc'[v] # "exited"
        BY <4>a DEF Launch, Size, Free
      <4>5. Settle(v) \/ DeliverAbort(v) => pc'[v] # "exited"
        BY <4>a DEF Settle, DeliverAbort
      <4> QED  BY <2>1, <4>1, <4>2, <4>3, <4>4, <4>5 DEF Runner
    <3> QED  BY <2>1, <3>1, OthersKept DEF OnlyShutdownEndsRunners
  <2>2. CASE UNCHANGED pc /\ (stopping => stopping')
    BY <2>2 DEF OnlyShutdownEndsRunners
  <2> QED
    BY <2>1, <2>2, SMTT(30) DEF WorkersNext, AsyncRun, Exit, Expire, BeginShutdown, Wake, wvars
<1> QED  BY <1>1, <1>2, WorkersInv, PTL DEF WorkersSpec

----------------------------------------------------------------------------
Queued(w, c) == \E i \in 1..Len(queue[w]) : queue[w][i] = c
Unreported(w, c) == Queued(w, c) \/ hand[w] = c \/ c \in active[w]
Has(w, c) == Unreported(w, c) \/ ending[w] = c

\* A runner's hands are empty when it takes from its queue, and it asks only
\* about what is active.
HandsSound ==
    \A w \in Workers :
        /\ todo[w] \subseteq active[w]
        /\ pc[w] \in {"loop", "get", "deliverAbort"} => hand[w] = NoCircuit
        /\ pc[w] \notin {"deliver", "deliverAbort"} => ending[w] = NoCircuit

\* No circuit is in a queue twice.
QueuedOnce ==
    \A w \in Workers, c \in Circuits : \A i, j \in 1..Len(queue[w]) :
        queue[w][i] = c /\ queue[w][j] = c => i = j

\* A circuit is in one place of one worker, and how far its report is follows
\* from the place.
PlacesSound ==
    /\ \A w \in Workers, c \in Circuits :
        /\ Unreported(w, c) => c \in accepted /\ freed[c] = 0
        /\ ending[w] = c => c \in accepted /\ freed[c] = 1 /\ results[c] = 0
        /\ Queued(w, c) => hand[w] # c /\ c \notin active[w]
        /\ hand[w] = c => c \notin active[w]
        /\ \A v \in Workers : Has(w, c) /\ Has(v, c) => w = v
    /\ \A c \in Circuits : c \notin accepted => freed[c] = 0
    /\ ResultAfterRelease /\ QueuedOnce

\* Without a fault that loses a report, what is accepted is somewhere until its
\* result is out.
NotDropped ==
    \A c \in accepted : results[c] = 0 => \E w \in Workers : Has(w, c)

LosingFaults == {"decode", "push", "escape"}

\* Every step keeps what a runner has in hand sound.
LEMMA HandsStep == TypedInv /\ HandsSound /\ [WorkersNext]_wvars => HandsSound'
<1> SUFFICES ASSUME TypedInv, HandsSound, [WorkersNext]_wvars PROVE HandsSound'
  OBVIOUS
<1> USE WorkersAssumption DEF Goto
<1>a. WorkersTypeOK
  BY DEF TypedInv
<1>1. ASSUME NEW w \in Workers, Runner(w) PROVE HandsSound'
  <2>1. ASSUME Loop(w) \/ Checked(w) \/ Size(w) \/ Free(w) \/ Launch(w) PROVE HandsSound'
    BY <2>1, <1>a, ZenonT(60) DEF HandsSound, Loop, Checked, Size, Free, Launch, WorkersTypeOK
  <2>2. CASE Get(w)
    BY <2>2, <1>a DEF HandsSound, Get, WorkersTypeOK
  <2>3. CASE GetEmpty(w)
    BY <2>3, <1>a DEF HandsSound, GetEmpty, WorkersTypeOK
  <2>4. CASE Deliver(w)
    BY <2>4, <1>a DEF HandsSound, Deliver, WorkersTypeOK
  <2>5. ASSUME NEW c \in Circuits, AskRunning(w, c) PROVE HandsSound'
    <3>1. /\ todo' = [todo EXCEPT ![w] = @ \ {c}] \/ todo' = todo
          /\ pc' = pc \/ pc' = [pc EXCEPT ![w] = "exited"]
          /\ UNCHANGED <<active, hand, ending>> /\ pc[w] = "check"
      BY <2>5 DEF AskRunning
    <3>t. DOMAIN todo = Workers
      BY <1>a DEF WorkersTypeOK
    <3>2. \A v \in Workers : todo'[v] = todo[v] \/ todo'[v] = todo[v] \ {c}
      BY <3>1, <3>t
    <3>3. \A v \in Workers : pc'[v] = pc[v] \/ (v = w /\ pc'[v] = "exited")
      BY <3>1, <1>a DEF WorkersTypeOK
    <3> QED BY <3>1, <3>2, <3>3 DEF HandsSound
  <2>6. ASSUME NEW c \in Circuits, AskEnded(w, c) PROVE HandsSound'
    <3>1. /\ \A v \in Workers : todo'[v] = IF v = w THEN todo[w] \ {c} ELSE todo[v]
          /\ \A v \in Workers : active'[v] = IF v = w THEN active[w] \ {c} ELSE active[v]
      BY <2>6, <1>a DEF AskEnded, WorkersTypeOK
    <3>2. \A v \in Workers : todo'[v] \subseteq active'[v]
      BY <3>1 DEF HandsSound
    <3> QED BY <2>6, <3>2, <1>a, SMTT(30) DEF HandsSound, AskEnded, WorkersTypeOK
  <2>7. CASE Settle(w)
    <3>0. /\ active' = active \/ active' = [active EXCEPT ![w] = @ \cup {hand[w]}]
          /\ todo' = todo
      BY <2>7 DEF Settle
    <3>t. DOMAIN active = Workers
      BY <1>a DEF WorkersTypeOK
    <3>1. \A v \in Workers : /\ active'[v] = active[v] \/ active'[v] = active[v] \cup {hand[w]}
                             /\ todo'[v] = todo[v]
      BY <3>0, <3>t
    <3> QED BY <2>7, <3>1, <1>a, SMTT(30) DEF HandsSound, Settle, WorkersTypeOK
  <2>8. CASE DeliverAbort(w)
    BY <2>8, <1>a, ZenonT(60) DEF HandsSound, DeliverAbort, WorkersTypeOK
  <2> QED BY <1>1, <2>1, <2>2, <2>3, <2>4, <2>5, <2>6, <2>7, <2>8 DEF Runner
<1>2. CASE UNCHANGED <<pc, hand, ending, todo, active>>
  BY <1>2 DEF HandsSound
<1> QED BY <1>1, <1>2 DEF WorkersNext, AsyncRun, Exit, Expire, BeginShutdown, Wake, wvars

\* What a queue holds after a put and after a get.
LEMMA AppendHolds ==
    ASSUME NEW S, NEW s \in Seq(S), NEW d \in S
    PROVE  /\ Len(Append(s, d)) = Len(s) + 1
           /\ \A i \in 1..Len(s) : Append(s, d)[i] = s[i]
           /\ Append(s, d)[Len(s) + 1] = d
BY SMTT(30)

\* What is left of a sequence without its head.
LEMMA TailHolds ==
    ASSUME NEW S, NEW s \in Seq(S), s # <<>>
    PROVE  /\ Len(s) \in Nat \ {0} /\ Len(Tail(s)) = Len(s) - 1
           /\ s[1] = Head(s)
           /\ \A i \in 1..Len(Tail(s)) : Tail(s)[i] = s[i + 1]
BY SMTT(30)

\* A step that moves no circuit.
LEMMA NothingMoves ==
    ASSUME PlacesSound,
           \A w \in Workers : /\ hand'[w] = hand[w] /\ ending'[w] = ending[w]
                              /\ active'[w] = active[w] /\ queue'[w] = queue[w],
           UNCHANGED <<accepted, freed, results>>
    PROVE  PlacesSound' /\ (NotDropped => NotDropped')
<1>1. \A w \in Workers : \A c : Queued(w, c)' <=> Queued(w, c)
  BY DEF Queued
<1>2. \A w \in Workers : \A c :
          (Unreported(w, c)' <=> Unreported(w, c)) /\ (Has(w, c)' <=> Has(w, c))
  BY <1>1 DEF Unreported, Has
<1>q. QueuedOnce
  BY DEF PlacesSound
<1>3. QueuedOnce'
  BY <1>q, SMTT(30) DEF QueuedOnce
<1>4. ResultAfterRelease'
  BY DEF PlacesSound, ResultAfterRelease
<1>5. PlacesSound'
  BY <1>1, <1>2, <1>3, <1>4, SMTT(30) DEF PlacesSound
<1>6. NotDropped => NotDropped'
  BY <1>2 DEF NotDropped
<1> QED BY <1>5, <1>6

\* What a step leaves alone that moves one circuit d at worker w.
OthersStay(w, d) ==
    \A v \in Workers, c \in Circuits : v # w \/ c # d =>
        /\ hand'[v] = c <=> hand[v] = c
        /\ c \in active'[v] <=> c \in active[v]
        /\ ending'[v] = c <=> ending[v] = c

OthersQueued(w, d) ==
    \A v \in Workers, c \in Circuits :
        v # w \/ c # d => (Queued(v, c)' <=> Queued(v, c))

OthersCounted(d) ==
    \A c \in Circuits \ {d} :
        /\ c \in accepted' <=> c \in accepted
        /\ freed'[c] = freed[c] /\ results'[c] = results[c]

\* Where d is afterwards, and what has been given back and reported of it.
Arrives(w, d) ==
    /\ d \in accepted'
    /\ Unreported(w, d)' => freed'[d] = 0
    /\ ending'[w] = d => freed'[d] = 1 /\ results'[d] = 0
    /\ Queued(w, d)' => hand'[w] # d /\ d \notin active'[w]
    /\ hand'[w] = d => d \notin active'[w]
    /\ results'[d] <= freed'[d] /\ freed'[d] <= 1

\* A step that moves one circuit d, within worker w or in or out of it.
LEMMA OneMoves ==
    ASSUME PlacesSound, accepted' \subseteq Circuits,
           NEW w \in Workers, NEW d \in Circuits,
           OthersStay(w, d), OthersQueued(w, d), OthersCounted(d), Arrives(w, d),
           \A v \in Workers \ {w} : ~Has(v, d), QueuedOnce'
    PROVE  /\ PlacesSound'
           /\ NotDropped /\ (Has(w, d)' \/ results'[d] # 0) => NotDropped'
<1>1. \A v \in Workers, c \in Circuits : v # w \/ c # d =>
          (Unreported(v, c)' <=> Unreported(v, c)) /\ (Has(v, c)' <=> Has(v, c))
  BY DEF Unreported, Has, OthersStay, OthersQueued
<1>2. \A v \in Workers, c \in Circuits : \A u \in Workers :
          Has(v, c)' /\ Has(u, c)' => v = u
  <2>1. \A v \in Workers : Has(v, d)' => v = w
    BY <1>1
  <2>2. ASSUME NEW v \in Workers, NEW c \in Circuits \ {d}, NEW u \in Workers,
               Has(v, c)', Has(u, c)'
        PROVE  v = u
    BY <1>1, <2>2 DEF PlacesSound
  <2> QED BY <2>1, <2>2, SMTT(30)
<1>3. ASSUME NEW v \in Workers, NEW c \in Circuits
      PROVE  /\ Unreported(v, c)' => c \in accepted' /\ freed'[c] = 0
             /\ ending'[v] = c => c \in accepted' /\ freed'[c] = 1 /\ results'[c] = 0
             /\ Queued(v, c)' => hand'[v] # c /\ c \notin active'[v]
             /\ hand'[v] = c => c \notin active'[v]
  <2>1. CASE c # d
    BY <1>1, <2>1, SMTT(30) DEF PlacesSound, OthersStay, OthersQueued, OthersCounted
  <2>2. CASE c = d /\ v = w
    BY <2>2 DEF Arrives
  <2>3. CASE c = d /\ v # w
    BY <1>1, <2>3 DEF Has, Unreported, Arrives
  <2> QED BY <2>1, <2>2, <2>3
<1>4. \A c \in Circuits : c \notin accepted' => freed'[c] = 0
  BY DEF PlacesSound, OthersCounted, Arrives
<1>5. ResultAfterRelease'
  BY DEF PlacesSound, ResultAfterRelease, OthersCounted, Arrives
<1>6. PlacesSound'
  BY <1>2, <1>3, <1>4, <1>5, SMTT(30) DEF PlacesSound
<1>7. ASSUME NotDropped, Has(w, d)' \/ results'[d] # 0, NEW c \in accepted', results'[c] = 0
      PROVE  \E v \in Workers : Has(v, c)'
  <2>1. CASE c = d
    BY <1>7, <2>1
  <2>2. CASE c # d
    BY <1>1, <1>7, <2>2 DEF NotDropped, OthersCounted
  <2> QED BY <2>1, <2>2
<1> QED BY <1>6, <1>7 DEF NotDropped

\* A circuit async_run puts in a queue.
LEMMA AsyncRunPlaces ==
    ASSUME TypedInv, PlacesSound, NEW d \in Circuits, AsyncRun(d)
    PROVE  PlacesSound' /\ (NotDropped => NotDropped')
<1>a. WorkersTypeOK
  BY DEF TypedInv
<1>1. PICK w \in Workers : queue' = [queue EXCEPT ![w] = Append(@, d)]
  BY DEF AsyncRun
<1>2. /\ d \notin accepted /\ accepted' = accepted \cup {d}
      /\ UNCHANGED <<active, hand, ending, freed, results>>
  BY DEF AsyncRun
<1>. DEFINE q == queue[w]
<1>3. /\ q \in Seq(Circuits \cup {NoCircuit}) /\ Len(q) \in Nat
      /\ \A v \in Workers : queue'[v] = IF v = w THEN Append(q, d) ELSE queue[v]
  BY <1>a, <1>1, QueueTyped DEF WorkersTypeOK
<1>4. /\ Len(queue'[w]) = Len(q) + 1
      /\ \A i \in 1..Len(q) : queue'[w][i] = q[i]
      /\ queue'[w][Len(q) + 1] = d
  <2>. DEFINE S == Circuits \cup {NoCircuit}
  <2>1. q \in Seq(S) /\ d \in S /\ queue'[w] = Append(q, d)
    BY <1>3
  <2>. HIDE DEF S, q
  <2> QED BY <2>1, AppendHolds, SMTT(30)
<1>5. \A v \in Workers : ~Has(v, d)
  BY <1>2 DEF PlacesSound, Has
<1>6. ASSUME NEW v \in Workers, NEW c \in Circuits, v # w \/ c # d
      PROVE  Queued(v, c)' <=> Queued(v, c)
  <2>1. CASE v # w
    BY <1>3, <2>1 DEF Queued
  <2>2. CASE v = w /\ c # d
    <3>1. Queued(w, c) => Queued(w, c)'
      BY <1>3, <1>4, SMTT(30) DEF Queued
    <3>2. ASSUME NEW i \in 1..Len(queue'[w]), queue'[w][i] = c PROVE Queued(w, c)
      <4>1. i \in 1..Len(q) \/ i = Len(q) + 1
        BY <1>3, <1>4, <3>2, SMTT(30)
      <4>2. i \in 1..Len(q) /\ q[i] = c
        BY <1>4, <2>2, <3>2, <4>1
      <4> QED BY <4>2 DEF Queued
    <3> QED BY <2>2, <3>1, <3>2 DEF Queued
  <2> QED BY <1>6, <2>1, <2>2
<1>7. Queued(w, d)'
  BY <1>3, <1>4, SMTT(30) DEF Queued
<1>8. QueuedOnce'
  <2>0. SUFFICES ASSUME NEW v \in Workers, NEW c \in Circuits,
                        NEW i \in 1..Len(queue'[v]), NEW j \in 1..Len(queue'[v]),
                        queue'[v][i] = c, queue'[v][j] = c
                 PROVE  i = j
    BY DEF QueuedOnce
  <2>o. QueuedOnce
    BY DEF PlacesSound
  <2>1. CASE v # w
    BY <1>3, <2>o, <2>0, <2>1, SMTT(30) DEF QueuedOnce
  <2>2. CASE v = w
    <3>0. i \in 1..Len(queue'[w]) /\ j \in 1..Len(queue'[w]) /\ queue'[w][i] = queue'[w][j]
      BY <2>0, <2>2
    <3>n. /\ \A k \in 1..Len(queue'[w]) : k \in 1..Len(q) \/ k = Len(q) + 1
          /\ Len(q) \in Nat
      BY <1>3, <1>4, SMTT(30)
    <3>1. \A k \in 1..Len(q) : q[k] # d
      BY <1>5 DEF Has, Unreported, Queued
    <3>2. CASE c = d
      BY <1>4, <2>0, <2>2, <3>n, <3>1, <3>2
    <3>3. CASE c # d
      <4>1. i \in 1..Len(q) /\ j \in 1..Len(q)
        BY <1>4, <2>0, <2>2, <3>n, <3>3
      <4>2. q[i] = c /\ q[j] = c
        BY <1>4, <2>0, <2>2, <4>1
      <4> QED BY <2>o, <4>1, <4>2 DEF QueuedOnce
    <3> QED BY <3>2, <3>3
  <2> QED BY <2>1, <2>2
<1>9. freed'[d] = 0 /\ results'[d] = 0 /\ accepted' \subseteq Circuits
  BY <1>a, <1>2, SMTT(30) DEF PlacesSound, ResultAfterRelease, WorkersTypeOK
<1>10. hand'[w] # d /\ d \notin active'[w] /\ ending'[w] # d
  BY <1>2, <1>5 DEF Has, Unreported
<1>11. OthersStay(w, d) /\ OthersQueued(w, d) /\ OthersCounted(d)
  BY <1>2, <1>6 DEF OthersStay, OthersQueued, OthersCounted
<1>12. Arrives(w, d)
  BY <1>2, <1>9, <1>10, SMTT(30) DEF Arrives
<1>13. Has(w, d)'
  BY <1>7 DEF Has, Unreported
<1> QED BY <1>5, <1>8, <1>9, <1>11, <1>12, <1>13, OneMoves

\* A circuit goes from the head of its queue to the runner's hand.
LEMMA GetPlaces ==
    ASSUME TypedInv, HandsSound, PlacesSound, NEW w \in Workers, Get(w)
    PROVE  PlacesSound' /\ (NotDropped => NotDropped')
<1>a. WorkersTypeOK /\ NoCircuit \notin Circuits
  BY WorkersAssumption DEF TypedInv
<1>. DEFINE q == queue[w]
<1>d. PICK d : d = Head(q)
  OBVIOUS
<1>1. /\ queue' = [queue EXCEPT ![w] = Tail(q)] /\ hand' = [hand EXCEPT ![w] = d]
      /\ UNCHANGED <<active, ending, accepted, freed, results>>
      /\ q # <<>> /\ hand[w] = NoCircuit
  BY <1>d DEF Get, HandsSound
<1>2. q \in Seq(Circuits \cup {NoCircuit}) /\ d \in Circuits \cup {NoCircuit}
  BY <1>a, <1>d, <1>1, QueueTyped
<1>3. /\ \A v \in Workers : queue'[v] = IF v = w THEN Tail(q) ELSE queue[v]
      /\ \A v \in Workers : hand'[v] = IF v = w THEN d ELSE hand[v]
  BY <1>a, <1>1 DEF WorkersTypeOK
<1>4. /\ Len(q) \in Nat \ {0} /\ Len(queue'[w]) = Len(q) - 1 /\ q[1] = d
      /\ \A i \in 1..Len(queue'[w]) : queue'[w][i] = q[i + 1]
  <2>. DEFINE S == Circuits \cup {NoCircuit}
  <2>1. q \in Seq(S) /\ q # <<>> /\ queue'[w] = Tail(q)
    BY <1>1, <1>2, <1>3
  <2>. HIDE DEF S, q
  <2> QED BY <1>d, <2>1, TailHolds
<1>5. ASSUME NEW v \in Workers, NEW c \in Circuits, v # w \/ c # d
      PROVE  Queued(v, c)' <=> Queued(v, c)
  <2>1. CASE v # w
    BY <1>3, <2>1 DEF Queued
  <2>2. CASE v = w /\ c # d
    <3>1. ASSUME NEW i \in 1..Len(q), q[i] = c PROVE Queued(w, c)'
      <4>1. i # 1
        BY <1>4, <2>2, <3>1
      <4>2. i - 1 \in 1..Len(queue'[w]) /\ (i - 1) + 1 = i
        BY <1>4, <3>1, <4>1, SMTT(30)
      <4>3. queue'[w][i - 1] = q[i]
        BY <1>4, <4>2
      <4> QED BY <3>1, <4>2, <4>3 DEF Queued
    <3>2. ASSUME NEW i \in 1..Len(queue'[w]), queue'[w][i] = c PROVE Queued(w, c)
      <4>1. i + 1 \in 1..Len(q) /\ q[i + 1] = c
        BY <1>4, <3>2, SMTT(30)
      <4> QED BY <4>1 DEF Queued
    <3> QED BY <2>2, <3>1, <3>2 DEF Queued
  <2> QED BY <1>5, <2>1, <2>2
<1>6. QueuedOnce'
  <2>0. SUFFICES ASSUME NEW v \in Workers, NEW c \in Circuits,
                        NEW i \in 1..Len(queue'[v]), NEW j \in 1..Len(queue'[v]),
                        queue'[v][i] = c, queue'[v][j] = c
                 PROVE  i = j
    BY DEF QueuedOnce
  <2>o. QueuedOnce
    BY DEF PlacesSound
  <2>1. CASE v # w
    BY <1>3, <2>o, <2>0, <2>1, SMTT(30) DEF QueuedOnce
  <2>2. CASE v = w
    <3>n. \A k \in 1..Len(queue'[w]) : k \in Int /\ k + 1 \in 1..Len(q)
      BY <1>4, SMTT(30)
    <3>1. /\ i + 1 \in 1..Len(q) /\ j + 1 \in 1..Len(q) /\ i \in Int /\ j \in Int
          /\ q[i + 1] = c /\ q[j + 1] = c
      BY <1>4, <2>0, <2>2, <3>n
    <3>2. i + 1 = j + 1
      BY <2>o, <3>1 DEF QueuedOnce
    <3> QED BY <3>1, <3>2, SMTT(30)
  <2> QED BY <2>1, <2>2
<1>7. CASE d \in Circuits
  <2>1. Queued(w, d) /\ 1 \in 1..Len(q)
    BY <1>4, SMTT(30) DEF Queued
  <2>q. QueuedOnce
    BY DEF PlacesSound
  <2>2. ~Queued(w, d)'
    <3>1. ASSUME NEW i \in 1..Len(queue'[w]), queue'[w][i] = d PROVE FALSE
      <4>1. i + 1 \in 1..Len(q) /\ q[i + 1] = d /\ i + 1 # 1
        BY <1>4, <3>1, SMTT(30)
      <4>2. 1 = i + 1
        BY <1>4, <1>7, <2>1, <2>q, <4>1, SMTT(30) DEF QueuedOnce
      <4> QED BY <4>1, <4>2
    <3> QED BY <3>1 DEF Queued
  <2>3. /\ d \in accepted /\ freed[d] = 0 /\ d \notin active[w] /\ ending[w] # d
        /\ results[d] <= freed[d] /\ accepted \subseteq Circuits
        /\ \A v \in Workers \ {w} : ~Has(v, d)
    BY <1>a, <1>7, <2>1, SMTT(30) DEF PlacesSound, Unreported, Has, ResultAfterRelease, WorkersTypeOK
  <2>4. \A v \in Workers, c \in Circuits : v # w \/ c # d =>
            (hand'[v] = c <=> hand[v] = c)
    BY <1>a, <1>1, <1>3
  <2>5. hand'[w] = d
    BY <1>3
  <2>6. /\ freed'[d] = 0 /\ ending'[w] # d /\ d \in accepted' /\ d \notin active'[w]
        /\ results'[d] <= freed'[d] /\ freed'[d] <= 1 /\ accepted' \subseteq Circuits
    BY <1>1, <2>3, SMTT(30)
  <2>7. Has(w, d)'
    BY <2>5 DEF Has, Unreported
  <2>8. OthersStay(w, d) /\ OthersQueued(w, d) /\ OthersCounted(d)
    BY <1>1, <1>5, <2>4 DEF OthersStay, OthersQueued, OthersCounted
  <2>9. Arrives(w, d)
    BY <2>2, <2>6, SMTT(30) DEF Arrives
  <2>10. \A v \in Workers \ {w} : ~Has(v, d)
    BY <2>3
  <2> QED BY <1>6, <1>7, <2>6, <2>7, <2>8, <2>9, <2>10, OneMoves
<1>8. CASE d \notin Circuits
  <2>1. \A v \in Workers, c \in Circuits :
            /\ Queued(v, c)' <=> Queued(v, c)
            /\ hand'[v] = c <=> hand[v] = c
    BY <1>1, <1>3, <1>5, <1>8, <1>a
  <2>2. \A v \in Workers, c \in Circuits :
            (Unreported(v, c)' <=> Unreported(v, c)) /\ (Has(v, c)' <=> Has(v, c))
    BY <1>1, <2>1 DEF Unreported, Has
  <2>3. PlacesSound'
    BY <1>1, <1>6, <2>1, <2>2, SMTT(30) DEF PlacesSound, ResultAfterRelease
  <2>4. NotDropped => NotDropped'
    BY <1>1, <1>a, <2>2 DEF NotDropped, WorkersTypeOK
  <2> QED BY <2>3, <2>4
<1> QED BY <1>7, <1>8

\* Shutdown's None moves no circuit.
LEMMA WakePlaces ==
    ASSUME TypedInv, PlacesSound, Wake
    PROVE  PlacesSound' /\ (NotDropped => NotDropped')
<1>a. WorkersTypeOK /\ NoCircuit \notin Circuits
  BY WorkersAssumption DEF TypedInv
<1>1. UNCHANGED <<hand, active, ending, accepted, freed, results>>
  BY DEF Wake
<1>2. ASSUME NEW v \in Workers
      PROVE  /\ Len(queue[v]) \in Nat /\ Len(queue'[v]) = Len(queue[v]) + 1
             /\ \A i \in 1..Len(queue[v]) : queue'[v][i] = queue[v][i]
             /\ queue'[v][Len(queue[v]) + 1] = NoCircuit
  <2>. DEFINE S == Circuits \cup {NoCircuit}
  <2>1. queue[v] \in Seq(S) /\ NoCircuit \in S /\ queue'[v] = Append(queue[v], NoCircuit)
    BY <1>a DEF Wake, WorkersTypeOK
  <2>2. Len(queue[v]) \in Nat
    BY <2>1, SMTT(30)
  <2>. HIDE DEF S
  <2> QED BY <2>1, <2>2, AppendHolds, SMTT(30)
<1>3. ASSUME NEW v \in Workers, NEW c \in Circuits, NEW i \in 1..Len(queue'[v]),
             queue'[v][i] = c
      PROVE  i \in 1..Len(queue[v]) /\ queue[v][i] = c
  BY <1>2, <1>3, <1>a, SMTT(30)
<1>4. \A v \in Workers, c \in Circuits : Queued(v, c)' <=> Queued(v, c)
  BY <1>2, <1>3, SMTT(30) DEF Queued
<1>5. \A v \in Workers, c \in Circuits :
          (Unreported(v, c)' <=> Unreported(v, c)) /\ (Has(v, c)' <=> Has(v, c))
  BY <1>1, <1>4 DEF Unreported, Has
<1>q. QueuedOnce
  BY DEF PlacesSound
<1>6. QueuedOnce'
  BY <1>3, <1>q, SMTT(30) DEF QueuedOnce
<1>7. PlacesSound'
  BY <1>1, <1>4, <1>5, <1>6, SMTT(30) DEF PlacesSound, ResultAfterRelease
<1>8. NotDropped => NotDropped'
  BY <1>1, <1>a, <1>5 DEF NotDropped, WorkersTypeOK
<1> QED BY <1>7, <1>8

\* Where d may be once a runner had it, and what has then been given back.
Leaves(w, d) ==
    /\ hand'[w] # d
    /\ d \in active'[w] => freed'[d] = 0
    /\ ending'[w] = d => freed'[d] = 1 /\ results'[d] = 0
    /\ results'[d] <= freed'[d] /\ freed'[d] <= 1

\* A runner moves a circuit it has taken from its queue on.
LEMMA MovesOn ==
    ASSUME TypedInv, PlacesSound, NEW w \in Workers, NEW d \in Circuits,
           Has(w, d), ~Queued(w, d), UNCHANGED <<queue, accepted>>,
           OthersStay(w, d), OthersCounted(d), Leaves(w, d)
    PROVE  /\ PlacesSound'
           /\ \/ d \in active'[w] \/ ending'[w] = d \/ results'[d] # 0
              => (NotDropped => NotDropped')
<1>1. /\ d \in accepted' /\ accepted' \subseteq Circuits
      /\ \A v \in Workers \ {w} : ~Has(v, d)
  BY SMTT(30) DEF PlacesSound, Has, TypedInv, WorkersTypeOK
<1>2. \A v \in Workers, c \in Circuits : Queued(v, c)' <=> Queued(v, c)
  BY DEF Queued
<1>q. QueuedOnce
  BY DEF PlacesSound
<1>3. QueuedOnce'
  BY <1>q, SMTT(30) DEF QueuedOnce
<1>4. ~Queued(w, d)' /\ (Unreported(w, d)' => freed'[d] = 0)
  BY <1>2 DEF Unreported, Leaves
<1>5. d \in active'[w] \/ ending'[w] = d => Has(w, d)'
  BY DEF Has, Unreported
<1>6. OthersQueued(w, d)
  BY <1>2 DEF OthersQueued
<1>7. Arrives(w, d)
  BY <1>1, <1>4 DEF Arrives, Leaves
<1>8. /\ PlacesSound'
      /\ NotDropped /\ (Has(w, d)' \/ results'[d] # 0) => NotDropped'
  BY <1>1, <1>3, <1>6, <1>7, OneMoves
<1> QED BY <1>5, <1>8

\* A runner's step keeps every circuit in one place, and drops none unless a
\* report is lost.
LEMMA RunnerPlaces ==
    ASSUME TypedInv, HandsSound, PlacesSound, NEW w \in Workers, Runner(w)
    PROVE  /\ PlacesSound'
           /\ Faults \cap LosingFaults = {} => (NotDropped => NotDropped')
<1>a. WorkersTypeOK /\ NoCircuit \notin Circuits
  BY WorkersAssumption DEF TypedInv
<1>b. /\ DOMAIN hand = Workers /\ DOMAIN ending = Workers /\ DOMAIN active = Workers
      /\ DOMAIN freed = Circuits /\ DOMAIN results = Circuits
  BY <1>a DEF WorkersTypeOK
<1>1. ASSUME Loop(w) \/ Checked(w) \/ Size(w) \/ Free(w) \/ Launch(w)
             \/ \E c \in Circuits : AskRunning(w, c)
      PROVE  PlacesSound' /\ (NotDropped => NotDropped')
  <2>1. UNCHANGED <<hand, ending, active, queue, accepted, freed, results>>
    BY <1>1 DEF Loop, Checked, Size, Free, Launch, AskRunning
  <2> QED BY <2>1, NothingMoves
<1>2. CASE GetEmpty(w)
  <2>1. \A v \in Workers : hand'[v] = hand[v]
    BY <1>2, <1>b DEF GetEmpty, HandsSound
  <2>2. UNCHANGED <<ending, active, queue, accepted, freed, results>>
    BY <1>2 DEF GetEmpty
  <2> QED BY <2>1, <2>2, NothingMoves
<1>3. ASSUME NEW d \in Circuits, AskEnded(w, d)
      PROVE  /\ PlacesSound'
             /\ "decode" \notin Faults => (NotDropped => NotDropped')
  <2>1. /\ active' = [active EXCEPT ![w] = @ \ {d}]
        /\ UNCHANGED <<queue, hand, results, accepted>>
        /\ d \in active[w] /\ ending[w] = NoCircuit
    BY <1>3 DEF AskEnded, HandsSound
  <2>2. \A v \in Workers : active'[v] = IF v = w THEN active[w] \ {d} ELSE active[v]
    BY <2>1, <1>b
  <2>3. /\ Has(w, d) /\ ~Queued(w, d) /\ freed[d] = 0 /\ results[d] \in Nat
        /\ results[d] <= 0 /\ hand[w] # d
    BY <2>1, <1>a, SMTT(30) DEF Has, Unreported, PlacesSound, ResultAfterRelease, WorkersTypeOK
  <2>4. CASE freed' = [freed EXCEPT ![d] = @ + 1] /\ ending' = [ending EXCEPT ![w] = d]
    <3>1. /\ freed'[d] = 1 /\ \A c \in Circuits \ {d} : freed'[c] = freed[c]
          /\ \A v \in Workers : ending'[v] = IF v = w THEN d ELSE ending[v]
      <4>1. /\ freed'[d] = freed[d] + 1 /\ \A c \in Circuits \ {d} : freed'[c] = freed[c]
            /\ \A v \in Workers : ending'[v] = IF v = w THEN d ELSE ending[v]
        BY <2>4, <1>b
      <4>2. freed'[d] = 1
        BY <2>3, <4>1, SMTT(30)
      <4> QED BY <4>1, <4>2
    <3>2. results'[d] = 0
      BY <2>1, <2>3, SMTT(30)
    <3>3. OthersStay(w, d)
      BY <2>1, <2>2, <3>1, <1>a, SMTT(30) DEF OthersStay
    <3>4. OthersCounted(d)
      BY <2>1, <3>1 DEF OthersCounted
    <3>5. Leaves(w, d) /\ ending'[w] = d
      BY <2>1, <2>2, <2>3, <3>1, <3>2, SMTT(30) DEF Leaves
    <3> QED BY <2>1, <2>3, <3>3, <3>4, <3>5, MovesOn, ZenonT(60)
  <2>5. CASE "decode" \in Faults /\ UNCHANGED <<freed, ending>>
    <3>1. /\ ending'[w] # d /\ d \notin active'[w] /\ hand'[w] # d
          /\ results'[d] <= freed'[d] /\ freed'[d] <= 1
      BY <2>1, <2>2, <2>3, <2>5, <1>a, SMTT(30)
    <3>3. OthersStay(w, d)
      BY <2>1, <2>2, <2>5, SMTT(30) DEF OthersStay
    <3>4. OthersCounted(d) /\ Leaves(w, d)
      BY <2>1, <2>5, <3>1 DEF OthersCounted, Leaves
    <3>5. PlacesSound'
      BY <2>1, <2>3, <3>3, <3>4, MovesOn
    <3> QED BY <2>5, <3>5
  <2> QED BY <1>3, <2>4, <2>5 DEF AskEnded
<1>4. ASSUME Deliver(w) \/ DeliverAbort(w)
      PROVE  /\ PlacesSound'
             /\ "push" \notin Faults => (NotDropped => NotDropped')
  <2>1. PICK d \in Circuits : ending[w] = d
    BY <1>4 DEF TypedInv, InHand, Deliver, DeliverAbort
  <2>2. /\ ending' = [ending EXCEPT ![w] = NoCircuit]
        /\ UNCHANGED <<queue, active, hand, freed, accepted>>
    BY <1>4 DEF Deliver, DeliverAbort
  <2>3. /\ Has(w, d) /\ freed[d] = 1 /\ results[d] = 0
        /\ ~Queued(w, d) /\ d \notin active[w] /\ hand[w] # d
    BY <2>1, SMTT(30) DEF PlacesSound, Has, Unreported
  <2>4. \A v \in Workers : ending'[v] = IF v = w THEN NoCircuit ELSE ending[v]
    BY <2>2, <1>b
  <2>5. OthersStay(w, d)
    BY <2>1, <2>2, <2>4, <1>a DEF OthersStay
  <2>6. ending'[w] # d
    BY <2>4, <1>a
  <2>7. CASE results' = [results EXCEPT ![ending[w]] = @ + 1]
    <3>1. /\ results'[d] = 1 /\ \A c \in Circuits \ {d} : results'[c] = results[c]
          /\ freed'[d] = 1
      <4>1. /\ results'[d] = results[d] + 1
            /\ \A c \in Circuits \ {d} : results'[c] = results[c]
        BY <2>1, <2>7, <1>b
      <4>2. results'[d] = 1
        BY <2>3, <4>1, SMTT(30)
      <4> QED BY <2>2, <2>3, <4>1, <4>2
    <3>2. OthersCounted(d) /\ Leaves(w, d) /\ results'[d] # 0
      BY <2>2, <2>3, <2>6, <3>1, SMTT(30) DEF OthersCounted, Leaves
    <3> QED BY <2>2, <2>3, <2>5, <3>2, MovesOn
  <2>8. CASE "push" \in Faults /\ UNCHANGED results
    <3>1. /\ results'[d] = 0 /\ \A c \in Circuits \ {d} : results'[c] = results[c]
          /\ freed'[d] = 1
      BY <2>2, <2>3, <2>8
    <3>2. OthersCounted(d) /\ Leaves(w, d)
      BY <2>2, <2>3, <2>6, <3>1, SMTT(30) DEF OthersCounted, Leaves
    <3>3. PlacesSound'
      BY <2>2, <2>3, <2>5, <3>2, MovesOn
    <3> QED BY <2>8, <3>3
  <2> QED BY <1>4, <2>7, <2>8 DEF Deliver, DeliverAbort
<1>5. CASE Settle(w)
  <2>1. PICK d \in Circuits : hand[w] = d
    BY <1>5 DEF TypedInv, InHand, Settle
  <2>2. /\ hand' = [hand EXCEPT ![w] = NoCircuit]
        /\ UNCHANGED <<queue, results, accepted>> /\ ending[w] = NoCircuit
    BY <1>5 DEF Settle, HandsSound
  <2>3. /\ Has(w, d) /\ ~Queued(w, d) /\ freed[d] = 0 /\ results[d] \in Nat
        /\ results[d] <= 0 /\ d \notin active[w]
    BY <2>1, <1>a, SMTT(30) DEF Has, Unreported, PlacesSound, ResultAfterRelease, WorkersTypeOK
  <2>4. /\ \A v \in Workers : hand'[v] = IF v = w THEN NoCircuit ELSE hand[v]
        /\ hand'[w] # d /\ results'[d] = 0
    BY <2>2, <2>3, <1>a, <1>b, SMTT(30)
  <2>5. CASE /\ active' = [active EXCEPT ![w] = @ \cup {hand[w]}]
             /\ UNCHANGED <<freed, ending>>
    <3>1. \A v \in Workers : active'[v] = IF v = w THEN active[w] \cup {d} ELSE active[v]
      BY <2>1, <2>5, <1>b
    <3>2. OthersStay(w, d)
      BY <2>1, <2>4, <2>5, <3>1, <1>a, SMTT(30) DEF OthersStay
    <3>3. /\ d \in active'[w] /\ ending'[w] # d /\ freed'[d] = 0
          /\ \A c \in Circuits \ {d} : freed'[c] = freed[c] /\ results'[c] = results[c]
      BY <2>2, <2>3, <2>5, <3>1, <1>a, SMTT(30)
    <3>4. OthersCounted(d) /\ Leaves(w, d)
      BY <2>2, <2>4, <3>3, SMTT(30) DEF OthersCounted, Leaves
    <3> QED BY <2>2, <2>3, <3>2, <3>3, <3>4, MovesOn
  <2>6. CASE /\ freed' = [freed EXCEPT ![hand[w]] = @ + 1] /\ UNCHANGED active
             /\ \/ ending' = [ending EXCEPT ![w] = hand[w]]
                \/ "escape" \in Faults /\ UNCHANGED ending
    <3>1. freed'[d] = 1 /\ \A c \in Circuits \ {d} : freed'[c] = freed[c]
      BY <2>1, <2>3, <2>6, <1>b, SMTT(30)
    <3>2. CASE ending' = [ending EXCEPT ![w] = hand[w]]
      <4>1. \A v \in Workers : ending'[v] = IF v = w THEN d ELSE ending[v]
        BY <2>1, <3>2, <1>b
      <4>2. OthersStay(w, d)
        BY <2>1, <2>2, <2>4, <2>6, <4>1, <1>a, ZenonT(60) DEF OthersStay
      <4>3. OthersCounted(d) /\ Leaves(w, d) /\ ending'[w] = d
        BY <2>2, <2>3, <2>4, <2>6, <3>1, <4>1, SMTT(30) DEF OthersCounted, Leaves
      <4> QED BY <2>2, <2>3, <4>2, <4>3, MovesOn
    <3>3. CASE "escape" \in Faults /\ UNCHANGED ending
      <4>1. OthersStay(w, d)
        BY <2>1, <2>4, <2>6, <3>3, <1>a DEF OthersStay
      <4>2. ending'[w] # d /\ d \notin active'[w]
        BY <2>2, <2>3, <2>6, <3>3, <1>a, ZenonT(60)
      <4>3. OthersCounted(d) /\ Leaves(w, d)
        BY <2>2, <2>4, <3>1, <4>2, SMTT(30) DEF OthersCounted, Leaves
      <4>4. PlacesSound'
        BY <2>2, <2>3, <4>1, <4>3, MovesOn
      <4> QED BY <3>3, <4>4 DEF LosingFaults
    <3> QED BY <2>6, <3>2, <3>3
  <2> QED BY <1>5, <2>5, <2>6 DEF Settle
<1> QED BY <1>1, <1>2, <1>3, <1>4, <1>5, GetPlaces DEF Runner, LosingFaults

ReportInv == TypedInv /\ HandsSound /\ PlacesSound

\* Every step keeps every circuit in one place.
LEMMA ReportStep ==
    ASSUME ReportInv, [WorkersNext]_wvars
    PROVE  /\ ReportInv'
           /\ Faults \cap LosingFaults = {} => (NotDropped => NotDropped')
<1>1. TypedInv' /\ HandsSound'
  BY NextTyped, HandsStep DEF ReportInv
<1>2. ASSUME \/ \E c \in Circuits : Exit(c) \/ Expire(c)
             \/ BeginShutdown \/ UNCHANGED wvars
      PROVE  PlacesSound' /\ (NotDropped => NotDropped')
  <2>1. UNCHANGED <<hand, ending, active, queue, accepted, freed, results>>
    BY <1>2 DEF Exit, Expire, BeginShutdown, wvars
  <2> QED BY <2>1, NothingMoves DEF ReportInv
<1>3. /\ PlacesSound'
      /\ Faults \cap LosingFaults = {} => (NotDropped => NotDropped')
  BY <1>2, RunnerPlaces, AsyncRunPlaces, WakePlaces DEF ReportInv, WorkersNext
<1> QED BY <1>1, <1>3 DEF ReportInv

\* A pool starts without circuits.
LEMMA ReportInitially == WorkersInit => ReportInv /\ NotDropped
<1> SUFFICES ASSUME WorkersInit PROVE ReportInv /\ NotDropped
  OBVIOUS
<1>1. WorkersTypeOK
  <2>1. pc \in [Workers -> PCs] /\ queue \in [Workers -> Seq(Circuits \cup {NoCircuit})]
    BY SMTT(30) DEF WorkersInit, PCs
  <2>2. active \in [Workers -> SUBSET Circuits] /\ todo \in [Workers -> SUBSET Circuits]
    BY DEF WorkersInit
  <2> QED BY <2>1, <2>2 DEF WorkersInit, WorkersTypeOK
<1>2. InHand /\ HandsSound
  BY DEF WorkersInit, InHand, HandsSound
<1>3. \A w \in Workers, c \in Circuits : ~Has(w, c) /\ queue[w] = << >>
  BY WorkersAssumption, SMTT(30) DEF WorkersInit, Has, Unreported, Queued
<1>4. PlacesSound
  BY <1>3, SMTT(30) DEF WorkersInit, PlacesSound, QueuedOnce, ResultAfterRelease, Has, Unreported
<1>5. NotDropped
  BY DEF WorkersInit, NotDropped
<1> QED BY <1>1, <1>2, <1>4, <1>5 DEF ReportInv, TypedInv

\* Whatever fails, a runner gives a circuit's resources back at most once and
\* reports it at most once, not before.
THEOREM ResultsFollowRelease == WorkersSpec => []ResultAfterRelease
<1>1. ReportInv => ResultAfterRelease
  BY DEF ReportInv, PlacesSound
<1> QED BY <1>1, ReportInitially, ReportStep, PTL DEF WorkersSpec

\* Unless a report is lost (the output of a failed process cannot be decoded,
\* or free_resources or the event sink raises), a circuit async_run accepted is
\* with exactly one runner until its one result is out, for any pool.
THEOREM CircuitsReportedOnce ==
    Faults \cap LosingFaults = {} => (WorkersSpec => []ReportedOnce)
<1> SUFFICES ASSUME Faults \cap LosingFaults = {} PROVE WorkersSpec => []ReportedOnce
  OBVIOUS
<1>1. ReportInv /\ NotDropped => ReportedOnce
  <2> SUFFICES ASSUME ReportInv, NotDropped, NEW c \in Circuits
               PROVE  Cardinality(Holders(c)) + results[c] = IF c \in accepted THEN 1 ELSE 0
    BY DEF ReportedOnce, OneHolder, ReportInv, PlacesSound
  <2>1. Holders(c) = {w \in Workers : Has(w, c)}
    <3>1. \A w \in Workers : DOMAIN queue[w] = 1..Len(queue[w])
      BY SMTT(30) DEF ReportInv, TypedInv, WorkersTypeOK
    <3> QED BY <3>1 DEF Holders, Has, Unreported, Queued
  <2>2. results[c] \in Nat /\ freed[c] \in Nat /\ results[c] <= freed[c] /\ freed[c] <= 1
    BY DEF ReportInv, TypedInv, WorkersTypeOK, PlacesSound, ResultAfterRelease
  <2>3. ASSUME NEW w \in Workers, Has(w, c)
        PROVE  Holders(c) = {w} /\ c \in accepted /\ results[c] = 0
    <3>1. c \in accepted /\ results[c] = 0
      BY <2>2, <2>3, SMTT(30) DEF ReportInv, PlacesSound, Has
    <3>2. \A v \in Workers : Has(v, c) => v = w
      BY <2>3 DEF ReportInv, PlacesSound
    <3> QED BY <2>1, <2>3, <3>1, <3>2
  <2>4. CASE \E w \in Workers : Has(w, c)
    <3>1. PICK w \in Workers : Has(w, c)
      BY <2>4
    <3>2. Cardinality({w}) = 1
      BY FS_Singleton
    <3> QED BY <2>3, <3>1, <3>2, SMTT(30)
  <2>5. CASE ~\E w \in Workers : Has(w, c)
    <3>1. Holders(c) = {}
      BY <2>1, <2>5
    <3>2. Cardinality(Holders(c)) = 0
      BY <3>1, FS_EmptySet
    <3>3. c \in accepted => results[c] = 1
      BY <2>2, <2>5, SMTT(30) DEF NotDropped
    <3>4. c \notin accepted => results[c] = 0
      BY <2>2, SMTT(30) DEF ReportInv, PlacesSound
    <3> QED BY <3>2, <3>3, <3>4, SMTT(30)
  <2> QED BY <2>4, <2>5
<1> QED BY <1>1, ReportInitially, ReportStep, PTL DEF WorkersSpec
=============================================================================
