--------------------------- MODULE QPMCompletion ---------------------------
(***************************************************************************)
(* The completion queue of one reservation: publish_completion,            *)
(* peek_completion, read_completion and the purge worker of                *)
(* QPMTargetController in services/util/qpm/controller.py, with their      *)
(* retention policy. Every operation holds the controller's lock from end  *)
(* to end, so each is one step, and the helpers it calls in turn are       *)
(* functions from one value of the store to the next. The clock counts     *)
(* units of any length.                                                    *)
(***************************************************************************)
EXTENDS Integers, Sequences, FiniteSets, SequencesExt

CONSTANTS
    CTasks,
    NoSelector,      \* a poll without a selector
    Sizes,           \* sizes a record may have
    TTL,             \* completion_ttl_seconds
    TerminalTTL,     \* terminal_reservation_retention_seconds
    MaxRecords,      \* max_records_per_reservation
    MaxBytes,        \* max_bytes_per_reservation
    PurgeInterval,   \* purge_interval_seconds
    PublishBound,    \* records a task may get: a cancelled task whose
                     \* provider answers late gets a second one
    MaxTime          \* bound on the clock

\* _completion_retention_int refuses a limit that is not positive.
ASSUME CompletionAssumption ==
    /\ NoSelector \notin CTasks
    /\ Sizes \subseteq Nat
    /\ {TTL, TerminalTTL, MaxRecords, MaxBytes, PurgeInterval}
          \subseteq Nat \ {0}
    /\ PublishBound \in Nat
    /\ MaxTime \in Nat

VARIABLES
    now,
    stage,      \* how far the controller is with each task
    closed,     \* the reservation's close was accepted
    store,      \* the queue, and what is remembered beside it
    published,  \* records enqueued for each task
    reads       \* records read for each task

qvars == <<now, stage, closed, store, published, reads>>

Never == -1

EmptyIndex == [t \in CTasks |-> <<>>]

CompletionInit ==
    /\ now = 0
    /\ stage = [t \in CTasks |-> "new"]
    /\ closed = FALSE
    /\ store = [live |-> FALSE, records |-> <<>>, index |-> EmptyIndex,
                bytes |-> 0, terminalAt |-> Never, evicted |-> {},
                collected |-> FALSE, lastPurge |-> Never]
    /\ published = [t \in CTasks |-> 0]
    /\ reads = [t \in CTasks |-> 0]

----------------------------------------------------------------------------
Without(s, gone) == SelectSeq(s, LAMBDA r : r \notin gone)

Weight(rs) == MapThenSumSet(LAMBDA r : r.size, rs)

\* Seeded fault: the index keeps a record that has left the queue.
RemoveUnindexed(st, gone) ==
    [st EXCEPT !.records = Without(@, gone),
               !.bytes = Max({0, @ - Weight(gone)})]

\* _remove_completion_record_locked, for each record of a set.
RemoveRecords(st, gone) ==
    [st EXCEPT !.records = Without(@, gone),
               !.index = [t \in CTasks |-> Without(@[t], gone)],
               !.bytes = Max({0, @ - Weight(gone)})]

\* Seeded fault: an eviction is not remembered.
EvictSilently(st, gone) == RemoveRecords(st, gone)

\* ... and _remember_completion_eviction_locked.
Evict(st, gone) ==
    [RemoveRecords(st, gone) EXCEPT !.evicted = @ \cup {r.task : r \in gone}]

\* _completion_record_expired_locked.
Expired(r) == r.at + TTL <= now

\* Seeded fault: only the number of records is limited.
OverflowByCount(st) ==
    {st.records[i] : i \in 1..Max({0, Len(st.records) - MaxRecords})}

\* The oldest records, as many as it takes to be within both limits.
Overflow(st) ==
    LET Oldest(n) == {st.records[i] : i \in 1..n}
        Enough(n) == /\ Len(st.records) - n <= MaxRecords
                     /\ st.bytes - Weight(Oldest(n)) <= MaxBytes
    IN  Oldest(Min({n \in 0..Len(st.records) : Enough(n)}))

\* _enforce_completion_retention_locked.
Enforce(st) ==
    LET fresh == Evict(st, {r \in ToSet(st.records) : Expired(r)})
    IN  Evict(fresh, Overflow(fresh))

\* _enqueue_completion_record_locked, on a queue that is made if need be.
EnqueueRecord(st, r) ==
    Enforce([st EXCEPT !.live = TRUE,
                       !.records = Append(@, r),
                       !.index[r.task] = Append(@, r),
                       !.bytes = @ + r.size])

\* _reservation_has_active_work_locked: only of tasks still registered.
HasActiveWork == \E t \in CTasks : stage[t] \in {"new", "active"}

\* Seeded fault: an idle terminal reservation is settled at once.
SettledAtOnce(st) == Evict(st, ToSet(st.records))

\* _completion_queue_collectable_locked: once the reservation is terminal and
\* idle, its queue goes when it is empty, and is emptied after TerminalTTL.
Settled(st) ==
    IF st.terminalAt + TerminalTTL <= now
    THEN Evict(st, ToSet(st.records))
    ELSE st

Collect(st) ==
    [st EXCEPT !.live = FALSE, !.index = EmptyIndex, !.bytes = 0,
               !.terminalAt = Never, !.collected = TRUE]

\* _purge_completion_queues_locked. Unless it is forced it runs once in
\* PurgeInterval.
PurgeNow(st) ==
    LET kept == Enforce([st EXCEPT !.lastPurge = now])
    IN  IF ~kept.live \/ kept.terminalAt = Never \/ HasActiveWork
        THEN kept
        ELSE IF Settled(kept).records = <<>>
             THEN Collect(Settled(kept))
             ELSE Settled(kept)

Purge(st) ==
    IF st.lastPurge # Never /\ now - st.lastPurge < PurgeInterval
    THEN st
    ELSE PurgeNow(st)

\* _completion_record_for_selector_locked: the records a poll may return the
\* first of.
Matching(st, sel) == IF sel = NoSelector THEN st.records ELSE st.index[sel]

\* _completion_eviction_for_selector_locked.
Remembered(st, sel) == sel \in st.evicted \/ st.collected

\* What _poll_completion_locked answers.
Answer(st, sel) ==
    IF st.live /\ Matching(st, sel) # <<>> THEN "ready"
    ELSE IF Remembered(st, sel) THEN "no-longer-retained"
    ELSE "not-ready"

----------------------------------------------------------------------------
NewRecord(t, size) ==
    [task |-> t, n |-> published[t] + 1, size |-> size, at |-> now]

\* A registered task is authorized; once the reservation is closed it is
\* refused, and fails without a record.
Start(t) ==
    /\ stage[t] = "new"
    /\ stage' = [stage EXCEPT ![t] = IF closed THEN "ended" ELSE "active"]
    /\ UNCHANGED <<now, closed, store, published, reads>>

\* A task ends, and its record is to be published by a call of its own.
End(t) ==
    /\ stage[t] = "active"
    /\ stage' = [stage EXCEPT ![t] = "ended"]
    /\ UNCHANGED <<now, closed, store, published, reads>>

\* A task is cancelled or failed, and its record enqueued under the same lock
\* (_terminal_completion_delivery_locked).
EndDelivering(t) ==
    \E size \in Sizes :
        /\ stage[t] \in {"new", "active"}
        /\ published[t] < PublishBound
        /\ stage' = [stage EXCEPT ![t] = "ended"]
        /\ store' = EnqueueRecord(store, NewRecord(t, size))
        /\ published' = [published EXCEPT ![t] = @ + 1]
        /\ UNCHANGED <<now, closed, reads>>

\* cleanup_task, when the task is retired or its circuit deleted.
CleanupTask(t) ==
    /\ stage[t] \in {"new", "active", "ended"}
    /\ stage' = [stage EXCEPT ![t] = "retained"]
    /\ UNCHANGED <<now, closed, store, published, reads>>

\* publish_completion. The provider's result ends a task that had not ended.
Publish(t) ==
    \E size \in Sizes :
        /\ stage[t] \in {"active", "ended", "retained"}
        /\ published[t] < PublishBound
        /\ stage' = [stage EXCEPT ![t] = IF @ = "active" THEN "ended" ELSE @]
        /\ store' = EnqueueRecord(Purge(store), NewRecord(t, size))
        /\ published' = [published EXCEPT ![t] = @ + 1]
        /\ UNCHANGED <<now, closed, reads>>

\* A provider's result for a task that has been read and forgotten is dropped.
PublishForgotten(t) ==
    /\ stage[t] = "forgotten"
    /\ store' = Purge(store)
    /\ UNCHANGED <<now, stage, closed, published, reads>>

\* peek_completion. A poll makes the queue of a reservation it finds none for.
Peek(sel) ==
    /\ LET st == Purge(store)
       IN  store' = IF st.live \/ Remembered(st, sel) THEN st
                    ELSE [st EXCEPT !.live = TRUE]
    /\ UNCHANGED <<now, stage, closed, published, reads>>

\* read_completion of a record: it is consumed, its task's snapshot dropped,
\* and the queues purged again.
Read(sel) ==
    LET st == Purge(store)
        r == Head(Matching(st, sel))
    IN  /\ Answer(st, sel) = "ready"
        /\ stage' = [stage EXCEPT ![r.task] =
                IF @ = "retained" THEN "forgotten" ELSE @]
        /\ store' = Purge(RemoveRecords(st, {r}))
        /\ reads' = [reads EXCEPT ![r.task] = @ + 1]
        /\ UNCHANGED <<now, closed, published>>

\* A round of _completion_purge_worker.
PurgeWorker ==
    /\ store' = PurgeNow(store)
    /\ UNCHANGED <<now, stage, closed, published, reads>>

\* _close_reservation is accepted: nothing holds or awaits capacity any more.
Close ==
    /\ ~closed
    /\ \A t \in CTasks : stage[t] # "active"
    /\ closed' = TRUE
    /\ store' = [store EXCEPT !.live = TRUE, !.terminalAt = now]
    /\ UNCHANGED <<now, stage, published, reads>>

Tick ==
    /\ now < MaxTime
    /\ now' = now + 1
    /\ UNCHANGED <<stage, closed, store, published, reads>>

CompletionNext ==
    \/ \E t \in CTasks : \/ Start(t) \/ End(t) \/ EndDelivering(t)
                        \/ CleanupTask(t) \/ Publish(t) \/ PublishForgotten(t)
    \/ \E sel \in CTasks \cup {NoSelector} : Peek(sel) \/ Read(sel)
    \/ PurgeWorker
    \/ Close
    \/ Tick

CompletionSpec == CompletionInit /\ [][CompletionNext]_qvars

----------------------------------------------------------------------------
\* The queue, its index by circuit and task and its byte count are kept apart,
\* and agree after every operation: what a poll by cid finds is what a poll in
\* order would come to.
IndexAgrees ==
    /\ store.bytes = Weight(ToSet(store.records))
    /\ \A t \in CTasks :
          store.index[t] = SelectSeq(store.records, LAMBDA r : r.task = t)

\* A client that asks for a result which was published and which it has not
\* read gets it, or is told it is no longer retained. It is never told to keep
\* waiting, whatever was evicted, collected or published late in between.
NeverToldToWait ==
    \A t \in CTasks :
        published[t] > reads[t] => Answer(Purge(store), t) # "not-ready"

\* No operation leaves a reservation's queue above either limit, nor a queue
\* of nothing behind that still holds records.
WithinRetention ==
    /\ Len(store.records) <= MaxRecords
    /\ Weight(ToSet(store.records)) <= MaxBytes
    /\ store.records # <<>> => store.live

\* The records a step removes before their own TTL, or their terminal
\* reservation's, has run out.
LeftEarly ==
    {r \in ToSet(store.records) \ ToSet(store'.records) :
        /\ ~Expired(r)
        /\ store.terminalAt = Never \/ store.terminalAt + TerminalTTL > now}

\* A record leaves its queue early only for a reason. Either it is the one that
\* a read takes, and no older record of its task stays behind; or the limits
\* are exceeded by a new record, and no older record at all stays behind.
LeavesForReason ==
    [][LeftEarly # {} =>
        \/ \E r \in LeftEarly :
              /\ LeftEarly = {r}
              /\ reads' = [reads EXCEPT ![r.task] = @ + 1]
              /\ \A q \in ToSet(store'.records) : q.task = r.task => q.n > r.n
        \/ /\ published' # published
           /\ \A r \in LeftEarly, q \in ToSet(store'.records) :
                 q.at >= r.at]_qvars

\* The queue keeps what it promises to keep, and says so truly.
RetentionSound ==
    [](IndexAgrees /\ NeverToldToWait /\ WithinRetention) /\ LeavesForReason
=============================================================================
