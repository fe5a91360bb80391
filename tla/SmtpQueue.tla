----------------------------- MODULE SmtpQueue ------------------------------
(***************************************************************************)
(* The distributed SMTP queue: messages and queue events in a store that   *)
(* several nodes share, sessions that submit messages, and the delivery    *)
(* attempts that every node runs.                                          *)
(*                                                                         *)
(* A queue event is a row (due, queue_id) -> lock_expiry.  A node scans    *)
(* the events, spawns a task for each due event whose lock has expired,    *)
(* and the task locks the event by compare-and-swap before it touches the  *)
(* message.  Nothing renews the lock: an attempt may outlive it.           *)
(*                                                                         *)
(* Which tasks are spawned when (channel, timers, concurrency limiters) is *)
(* left open here and fixed by QueueManager.                               *)
(***************************************************************************)
EXTENDS QueueMessage

CONSTANTS
    Nodes,          \* servers of the cluster
    Ids,            \* queue ids
    Workers,        \* tokio tasks that run a locked delivery attempt
    LockExpiry,     \* LOCK_EXPIRY, in ticks
    Releases,       \* delays FUTURERELEASE may ask for
    Refills,        \* delays the rate limiter may answer
    RcptAnswers,    \* statuses a remote server may give a recipient
    DomainAnswers,  \* statuses a delivery that ends early may give the domain
    QuotaLimit,     \* quota id -> maximum number of messages
    NullSender,     \* messages with an empty return path
    Faults,         \* which store accesses may fail
    MaxTime         \* bound on the clock

ASSUME QueueAssumption ==
    /\ LockExpiry \in Nat
    /\ Releases \subseteq Nat /\ Refills \subseteq Nat
    /\ RcptAnswers \subseteq {"completed", "temp", "perm"}
    /\ DomainAnswers \subseteq {"scheduled", "temp", "perm"}
    /\ DOMAIN QuotaLimit \subseteq QuotaIds
    /\ NullSender \subseteq Ids
    /\ Faults \subseteq {"read", "write", "dsn", "lock"}
    /\ MaxTime \in Nat
    /\ None \notin Nodes

VARIABLES
    now,            \* the clock
    events,         \* QueueClass::MessageEvent rows
    messages,       \* QueueClass::Message rows
    links,          \* BlobOp::LinkId rows, by queue id
    counters,       \* QueueClass::QuotaCount counters
    session,        \* the submitting session of each message
    tasks,          \* spawned delivery attempts that hold no lock yet
    held,           \* OnHold events, on their way to or in Queue::on_hold
    att,            \* delivery attempts past try_lock_event
    delivered,      \* history: recipients marked as delivered
    duplicated,     \* history: recipients marked as delivered twice
    failed,         \* history: recipients refused for good, or expired
    reported,       \* history: recipients a queued DSN reports as failed
    rebounced,      \* history: recipients reported as failed twice
    overran,        \* history: messages with an attempt that outlived its lock
    interrupted     \* history: messages with an attempt cut short

store == <<events, messages, links, counters>>
outcome == <<delivered, duplicated, failed, reported, rebounced>>
vars == <<now, store, session, tasks, held, att, outcome, overran, interrupted>>

Event == [due : Nat, id : Ids, lock : Nat]

ASSUME NoneIsNoEvent == None \notin Event

\* Concurrency limiters: the sender's and one per recipient domain.
SenderLimiter == 0
Limiters == {SenderLimiter} \cup Domains

Task == [node : Nodes, ev : Event]
OnHold == [node : Nodes, ev : Event, next : Nat \cup {None}, limiters : SUBSET Limiters]

PC == {"idle", "fetch", "dsn", "decide", "deliver", "session", "finish", "notify"}

Idle == [pc |-> "idle", node |-> None, ev |-> None, msg |-> None, cur |-> 0,
         hold |-> {}, next |-> None]

\* The attempts that may still write to the store.
Active(w) == att[w].pc \notin {"idle", "notify"}

Goto(w, pc) == [att EXCEPT ![w].pc = pc]

-----------------------------------------------------------------------------
(* Store batches.                                                          *)

ClearEvent(due, id) == {e \in events : ~(e.due = due /\ e.id = id)}

SetEvent(evs, due, id, lock) ==
    {e \in evs : ~(e.due = due /\ e.id = id)} \cup {[due |-> due, id |-> id, lock |-> lock]}

Fails(kind) == IF kind \in Faults THEN {TRUE, FALSE} ELSE {FALSE}

\* Mutant: the previous event is not deleted.
SaveChangesKeepsEvent(id, m, prev, next) ==
    /\ messages' = [messages EXCEPT ![id] = ReleaseQuota(m)]
    /\ events' = IF prev = None THEN events ELSE SetEvent(events, next, id, 0)
    /\ UNCHANGED <<links, counters>>

\* save_changes(prev_event, next_event) of the copy m of message id; prev = None
\* leaves the event and its lock alone.  The quota keys of finished recipients
\* leave the stored message; the counters do not change, because the batch with
\* the decrements is replaced by a new one before it is written.
SaveChanges(id, m, prev, next) ==
    /\ messages' = [messages EXCEPT ![id] = ReleaseQuota(m)]
    /\ events' = IF prev = None THEN events
                 ELSE SetEvent(ClearEvent(prev, id), next, id, 0)
    /\ UNCHANGED <<links, counters>>

\* remove(prev_event) of the copy m of message id.
Remove(id, m, prev) ==
    /\ counters' = [q \in QuotaIds |-> counters[q] - IF q \in m.quota THEN 1 ELSE 0]
    /\ links' = links \ {id}
    /\ events' = ClearEvent(prev, id)
    /\ messages' = [messages EXCEPT ![id] = None]

\* A write that fails is logged and otherwise ignored.
Write(id, batch) ==
    \E fails \in Fails("write") :
        IF fails
        THEN UNCHANGED store /\ interrupted' = interrupted \cup {id}
        ELSE batch /\ UNCHANGED interrupted

-----------------------------------------------------------------------------
(* Submission.                                                             *)

\* has_quota: reads the counters, reserves nothing.
HasQuota(m) ==
    /\ session[m] = "new"
    /\ session' = [session EXCEPT ![m] =
                     IF \A q \in DOMAIN QuotaLimit : counters[q] + 1 <= QuotaLimit[q]
                     THEN "checked" ELSE "refused"]
    /\ UNCHANGED <<now, store, tasks, held, att, outcome, overran, interrupted>>

\* Mutant: the reservation is left out of the batch.
QueueWithoutReserve(m, release) ==
    LET msg == NewMessage(now + release, DOMAIN QuotaLimit)
    IN  /\ events' = SetEvent(events, NextEvent(msg), m, 0)
        /\ links' = links \cup {m}
        /\ messages' = [messages EXCEPT ![m] = msg]
        /\ UNCHANGED counters

\* Message::queue: one batch reserves the quota, links the blob and writes the
\* message with its first event.
QueueMessageWrite(m, release) ==
    LET msg == NewMessage(now + release, DOMAIN QuotaLimit)
    IN  /\ counters' = [q \in QuotaIds |-> counters[q] + IF q \in msg.quota THEN 1 ELSE 0]
        /\ events' = SetEvent(events, NextEvent(msg), m, 0)
        /\ links' = links \cup {m}
        /\ messages' = [messages EXCEPT ![m] = msg]

Queue(m) ==
    /\ session[m] = "checked"
    /\ \E fails \in Fails("write") :
         \/ /\ fails
            /\ session' = [session EXCEPT ![m] = "refused"]
            /\ UNCHANGED store
         \/ /\ ~fails
            /\ session' = [session EXCEPT ![m] = "accepted"]
            /\ \E release \in Releases : QueueMessageWrite(m, release)
    /\ UNCHANGED <<now, tasks, held, att, outcome, overran, interrupted>>

-----------------------------------------------------------------------------
(* Spawning attempts.                                                      *)

\* Mutant: locked events are spawned as well.
DueOrLocked == {e \in events : e.due <= now}

\* next_event: the due events that are not locked.
DueEvents == {e \in events : e.due <= now /\ e.lock < now}

\* process_events: one task per due event, with the event as it was read.
Spawn(n) ==
    /\ DueEvents # {}
    /\ tasks' = tasks \cup {[node |-> n, ev |-> e] : e \in DueEvents}
    /\ UNCHANGED <<now, store, session, held, att, outcome, overran, interrupted>>

\* next_on_hold: a message on hold gets a new attempt.
Unhold(h) ==
    /\ h \in held
    /\ held' = held \ {h}
    /\ tasks' = tasks \cup {[node |-> h.node, ev |-> h.ev]}
    /\ UNCHANGED <<now, store, session, att, outcome, overran, interrupted>>

-----------------------------------------------------------------------------
(* A delivery attempt: DeliveryAttempt::try_deliver.                       *)

\* Mutant: the lock is written without comparing it with what the scan saw.
LockAnyway(k, w) ==
    /\ k \in tasks
    /\ \E e \in events : e.due = k.ev.due /\ e.id = k.ev.id
    /\ att[w].pc = "idle"
    /\ LET lock == now + LockExpiry
       IN  /\ events' = SetEvent(events, k.ev.due, k.ev.id, lock)
           /\ att' = [att EXCEPT ![w] =
                        [Idle EXCEPT !.pc = "fetch", !.node = k.node,
                                     !.ev = [k.ev EXCEPT !.lock = lock]]]
    /\ tasks' = tasks \ {k}
    /\ UNCHANGED <<now, messages, links, counters, session, held, outcome,
                   overran, interrupted>>

\* try_lock_event: compare-and-swap on the event as the scan saw it.
TryLock(k, w) ==
    /\ k \in tasks
    /\ k.ev \in events
    /\ att[w].pc = "idle"
    /\ LET lock == now + LockExpiry
       IN  /\ events' = SetEvent(events, k.ev.due, k.ev.id, lock)
           /\ att' = [att EXCEPT ![w] =
                        [Idle EXCEPT !.pc = "fetch", !.node = k.node,
                                     !.ev = [k.ev EXCEPT !.lock = lock]]]
    /\ tasks' = tasks \ {k}
    /\ UNCHANGED <<now, messages, links, counters, session, held, outcome,
                   overran, interrupted>>

\* The event was locked, moved or deleted meanwhile, or the write failed.
LockBusy(k) ==
    /\ k \in tasks
    /\ k.ev \notin events \/ "lock" \in Faults
    /\ tasks' = tasks \ {k}
    /\ UNCHANGED <<now, store, session, held, att, outcome, overran, interrupted>>

\* No message was read, for whatever reason: the event is deleted.
FetchNothing(w) ==
    /\ att[w].pc = "fetch"
    /\ messages[att[w].ev.id] = None \/ "read" \in Faults
    /\ \E fails \in Fails("write") :
         events' = IF fails THEN events ELSE ClearEvent(att[w].ev.due, att[w].ev.id)
    /\ att' = [att EXCEPT ![w] = Idle]
    /\ UNCHANGED <<now, messages, links, counters, session, tasks, held, outcome,
                   overran, interrupted>>

\* The message is read and its expired domains are marked as failed.
Fetch(w) ==
    LET id == att[w].ev.id
        m  == messages[id]
    IN  /\ att[w].pc = "fetch"
        /\ m # None
        /\ att' = [att EXCEPT ![w].pc = "dsn", ![w].msg = HasPendingDelivery(m, now)]
        /\ failed' = [failed EXCEPT ![id] = @ \cup
                        {r \in Rcpts : /\ ~InFinalState(m.rcpt[r])
                                       /\ DomainOf[r] \in PendingDomains(m)
                                       /\ m.domain[DomainOf[r]].expires <= now}]
        /\ UNCHANGED <<now, store, session, tasks, held, delivered, duplicated,
                       reported, rebounced, overran, interrupted>>

\* send_dsn.  The notification is a message of its own in the queue; whether it
\* could be queued is not looked at.
SendDsn(w, to) ==
    LET id == att[w].ev.id
        m  == att[w].msg
        news == IF id \in NullSender THEN {} ELSE DsnFailure(m) \cap DsnReported(m, now)
    IN  /\ att' = [att EXCEPT ![w].pc = to,
                              ![w].msg = IF id \in NullSender THEN HandleDoubleBounce(m)
                                                              ELSE BuildDsn(m, now)]
        /\ \E fails \in Fails("dsn") :
             LET sent == IF fails THEN {} ELSE news
             IN  /\ reported' = [reported EXCEPT ![id] = @ \cup sent]
                 /\ rebounced' = [rebounced EXCEPT ![id] = @ \cup (sent \cap reported[id])]
        /\ UNCHANGED <<now, store, session, tasks, held, delivered, duplicated, failed,
                       overran, interrupted>>

SendDsnBefore(w) == att[w].pc = "dsn" /\ SendDsn(w, "decide")

\* Nothing is left to deliver.
RemoveExpired(w) ==
    LET a == att[w]
    IN  /\ a.pc = "decide"
        /\ PendingDomains(a.msg) = {}
        /\ Write(a.ev.id, Remove(a.ev.id, a.msg, a.ev.due))
        /\ att' = Goto(w, "notify")
        /\ UNCHANGED <<now, session, tasks, held, outcome, overran>>

\* The message was due for a notification only: back into the queue.
Requeue(w) ==
    LET a   == att[w]
        due == NextDeliveryEvent(a.msg, now)
    IN  /\ a.pc = "decide"
        /\ PendingDomains(a.msg) # {}
        /\ due > now
        /\ Write(a.ev.id, SaveChanges(a.ev.id, a.msg, a.ev.due, due))
        /\ att' = Goto(w, "notify")
        /\ UNCHANGED <<now, session, tasks, held, outcome, overran>>

ReadyToDeliver(w) ==
    /\ att[w].pc = "decide"
    /\ PendingDomains(att[w].msg) # {}
    /\ NextDeliveryEvent(att[w].msg, now) <= now

\* The sender is over its concurrency limit: the message goes on hold with its
\* lock, the event stays where it is.
HoldSender(w) ==
    LET a == att[w]
    IN  /\ ReadyToDeliver(w)
        /\ Write(a.ev.id, SaveChanges(a.ev.id, a.msg, None, None))
        /\ att' = [att EXCEPT ![w].pc = "notify", ![w].hold = {SenderLimiter},
                              ![w].next = NextEventAfter(a.msg, now)]
        /\ UNCHANGED <<now, session, tasks, held, outcome, overran>>

\* The sender is over its rate limit until now + refill.
RateLimitSender(w, refill) ==
    LET a    == att[w]
        next == Min({now + refill} \cup ({NextEventAfter(a.msg, now)} \ {None}))
    IN  /\ ReadyToDeliver(w)
        /\ Write(a.ev.id, SaveChanges(a.ev.id, a.msg, a.ev.due, next))
        /\ att' = Goto(w, "notify")
        /\ UNCHANGED <<now, session, tasks, held, outcome, overran>>

AdmitSender(w) ==
    /\ ReadyToDeliver(w)
    /\ att' = [att EXCEPT ![w].pc = "deliver", ![w].cur = 1]
    /\ UNCHANGED <<now, store, session, tasks, held, outcome, overran, interrupted>>

-----------------------------------------------------------------------------
(* The loop over the domains of the message.                               *)

CurrentIsDue(w) ==
    /\ att[w].cur \in Domains
    /\ IsDue(att[w].msg, att[w].cur, now)

NextDomain(w, m) == [att EXCEPT ![w].pc = "deliver", ![w].cur = @ + 1, ![w].msg = m]

SkipDomain(w) ==
    /\ att[w].pc = "deliver"
    /\ att[w].cur \in Domains
    /\ ~CurrentIsDue(w)
    /\ att' = NextDomain(w, att[w].msg)
    /\ UNCHANGED <<now, store, session, tasks, held, outcome, overran, interrupted>>

OpenSession(w) ==
    /\ att[w].pc = "deliver"
    /\ CurrentIsDue(w)
    /\ att' = Goto(w, "session")
    /\ UNCHANGED <<now, store, session, tasks, held, outcome, overran, interrupted>>

\* A domain can be throttled before the session (recipient throttle) and for each
\* remote host (host throttle).
CanThrottle(w) ==
    \/ att[w].pc = "deliver" /\ CurrentIsDue(w)
    \/ att[w].pc = "session"

HoldDomain(w) ==
    /\ CanThrottle(w)
    /\ att' = [NextDomain(w, ThrottleConcurrency(att[w].msg, att[w].cur))
                 EXCEPT ![w].hold = @ \cup {att[w].cur}]
    /\ UNCHANGED <<now, store, session, tasks, held, outcome, overran, interrupted>>

RateLimitDomain(w, refill) ==
    /\ CanThrottle(w)
    /\ att' = NextDomain(w, ThrottleRate(att[w].msg, att[w].cur, now + refill))
    /\ UNCHANGED <<now, store, session, tasks, held, outcome, overran, interrupted>>

\* The remote server answered for every pending recipient.
SessionDone(w, ans) ==
    LET id == att[w].ev.id
        ok == {r \in DOMAIN ans : ans[r] = "completed"}
    IN  /\ att[w].pc = "session"
        /\ DOMAIN ans = PendingRcpts(att[w].msg, att[w].cur)
        /\ att' = NextDomain(w, DeliverDone(att[w].msg, att[w].cur, ans, now))
        /\ duplicated' = [duplicated EXCEPT ![id] = @ \cup (ok \cap delivered[id])]
        /\ delivered' = [delivered EXCEPT ![id] = @ \cup ok]
        /\ failed' = [failed EXCEPT ![id] = @ \cup {r \in DOMAIN ans : ans[r] = "perm"}]
        /\ UNCHANGED <<now, store, session, tasks, held, reported, rebounced,
                       overran, interrupted>>

\* The session ended before the message was accepted.
SessionFailed(w, ans, s) ==
    LET id      == att[w].ev.id
        pending == PendingRcpts(att[w].msg, att[w].cur)
    IN  /\ att[w].pc = "session"
        /\ DOMAIN ans \subseteq pending
        /\ att' = NextDomain(w, DeliverFailed(att[w].msg, att[w].cur, ans, s, now))
        /\ failed' = [failed EXCEPT ![id] = @ \cup
                        {r \in pending : s = "perm" \/ (r \in DOMAIN ans /\ ans[r] = "perm")}]
        /\ UNCHANGED <<now, store, session, tasks, held, delivered, duplicated, reported,
                       rebounced, overran, interrupted>>

-----------------------------------------------------------------------------
(* The end of the attempt.                                                 *)

SendDsnAfter(w) ==
    /\ att[w].pc = "deliver"
    /\ att[w].cur \notin Domains
    /\ SendDsn(w, "finish")

FinishOnHold(w) ==
    LET a == att[w]
    IN  /\ a.pc = "finish"
        /\ a.hold # {}
        /\ Write(a.ev.id, SaveChanges(a.ev.id, a.msg, None, None))
        /\ att' = [att EXCEPT ![w].pc = "notify", ![w].next = NextEventAfter(a.msg, now)]
        /\ UNCHANGED <<now, session, tasks, held, outcome, overran>>

\* Mutant: the message is saved even if no event is left.
FinishAlwaysSaves(w) ==
    LET a == att[w]
    IN  /\ a.pc = "finish"
        /\ a.hold = {}
        /\ Write(a.ev.id, SaveChanges(a.ev.id, a.msg, a.ev.due, NextEvent(a.msg)))
        /\ att' = Goto(w, "notify")
        /\ UNCHANGED <<now, session, tasks, held, outcome, overran>>

FinishIncomplete(w) ==
    LET a == att[w]
    IN  /\ a.pc = "finish"
        /\ a.hold = {}
        /\ NextEvent(a.msg) # None
        /\ Write(a.ev.id, SaveChanges(a.ev.id, a.msg, a.ev.due, NextEvent(a.msg)))
        /\ att' = Goto(w, "notify")
        /\ UNCHANGED <<now, session, tasks, held, outcome, overran>>

FinishCompleted(w) ==
    LET a == att[w]
    IN  /\ a.pc = "finish"
        /\ a.hold = {}
        /\ NextEvent(a.msg) = None
        /\ Write(a.ev.id, Remove(a.ev.id, a.msg, a.ev.due))
        /\ att' = Goto(w, "notify")
        /\ UNCHANGED <<now, session, tasks, held, outcome, overran>>

HoldEntry(a) == [node |-> a.node, ev |-> a.ev, next |-> a.next, limiters |-> a.hold]

\* queue_tx.send: Event::OnHold carries the locked event, Event::Reload nothing.
Notify(w) ==
    LET a == att[w]
    IN  /\ a.pc = "notify"
        /\ held' = held \cup IF a.hold = {} THEN {} ELSE {HoldEntry(a)}
        /\ att' = [att EXCEPT ![w] = Idle]
        /\ UNCHANGED <<now, store, session, tasks, outcome, overran, interrupted>>

-----------------------------------------------------------------------------
(* The environment.                                                        *)

\* A node stops: its tasks and its messages on hold are gone, the store is not.
Crash(n) ==
    LET lost == {w \in Workers : att[w].node = n}
    IN  /\ lost # {} \/ \E k \in tasks \cup held : k.node = n
        /\ att' = [w \in Workers |-> IF w \in lost THEN Idle ELSE att[w]]
        /\ tasks' = {k \in tasks : k.node # n}
        /\ held' = {h \in held : h.node # n}
        /\ interrupted' = interrupted \cup {att[w].ev.id : w \in {v \in lost : Active(v)}}
        /\ UNCHANGED <<now, store, session, outcome, overran>>

Tick ==
    /\ now < MaxTime
    /\ now' = now + 1
    /\ overran' = overran \cup
         {att[w].ev.id : w \in {v \in Workers : Active(v) /\ att[v].ev.lock < now + 1}}
    /\ UNCHANGED <<store, session, tasks, held, att, outcome, interrupted>>

Init ==
    /\ now = 1
    /\ events = {}
    /\ messages = [m \in Ids |-> None]
    /\ links = {}
    /\ counters = [q \in QuotaIds |-> 0]
    /\ session = [m \in Ids |-> "new"]
    /\ tasks = {}
    /\ held = {}
    /\ att = [w \in Workers |-> Idle]
    /\ delivered = [m \in Ids |-> {}]
    /\ duplicated = [m \in Ids |-> {}]
    /\ failed = [m \in Ids |-> {}]
    /\ reported = [m \in Ids |-> {}]
    /\ rebounced = [m \in Ids |-> {}]
    /\ overran = {}
    /\ interrupted = {}

Answers(S, A) == UNION {[T -> A] : T \in SUBSET S}

Attempt(w) ==
    \/ \E k \in tasks : TryLock(k, w)
    \/ FetchNothing(w) \/ Fetch(w)
    \/ SendDsnBefore(w) \/ SendDsnAfter(w)
    \/ RemoveExpired(w) \/ Requeue(w)
    \/ HoldSender(w) \/ AdmitSender(w)
    \/ \E refill \in Refills : RateLimitSender(w, refill) \/ RateLimitDomain(w, refill)
    \/ SkipDomain(w) \/ OpenSession(w) \/ HoldDomain(w)
    \/ /\ att[w].pc = "session"
       /\ \/ \E ans \in [PendingRcpts(att[w].msg, att[w].cur) -> RcptAnswers] :
                SessionDone(w, ans)
          \/ \E ans \in Answers(PendingRcpts(att[w].msg, att[w].cur), RcptAnswers \ {"completed"}),
                s \in DomainAnswers : SessionFailed(w, ans, s)
    \/ FinishOnHold(w) \/ FinishIncomplete(w) \/ FinishCompleted(w)
    \/ Notify(w)

Next ==
    \/ \E m \in Ids : HasQuota(m) \/ Queue(m)
    \/ \E n \in Nodes : Spawn(n) \/ Crash(n)
    \/ \E h \in held : Unhold(h)
    \/ \E k \in tasks : LockBusy(k)
    \/ \E w \in Workers : Attempt(w)
    \/ Tick

Spec == Init /\ [][Next]_vars

-----------------------------------------------------------------------------
(* Properties.                                                             *)

AttRec == [pc : PC, node : Nodes \cup {None}, ev : Event \cup {None},
           msg : Message \cup {None}, cur : Nat, hold : SUBSET Limiters, next : Nat \cup {None}]

\* An attempt has its event from the lock on, its message from the fetch on.
Consistent(a) ==
    /\ a.pc # "idle" => a.node \in Nodes /\ a.ev \in Event
    /\ a.pc \notin {"idle", "fetch"} => a.msg \in Message
    /\ a.pc = "session" => a.cur \in Domains

\* Type invariant of the queue's rows, tasks and attempts.
TypeOK ==
    /\ now \in Nat
    /\ events \subseteq Event
    /\ messages \in [Ids -> Message \cup {None}]
    /\ links \subseteq Ids
    /\ counters \in [QuotaIds -> Int]
    /\ session \in [Ids -> {"new", "checked", "accepted", "refused"}]
    /\ tasks \subseteq Task
    /\ held \subseteq OnHold
    /\ att \in [Workers -> AttRec]
    /\ \A w \in Workers : Consistent(att[w])
    /\ delivered \in [Ids -> SUBSET Rcpts]
    /\ duplicated \in [Ids -> SUBSET Rcpts]
    /\ failed \in [Ids -> SUBSET Rcpts]
    /\ reported \in [Ids -> SUBSET Rcpts]
    /\ rebounced \in [Ids -> SUBSET Rcpts]
    /\ overran \subseteq Ids
    /\ interrupted \subseteq Ids

EventsOf(m) == {e \in events : e.id = m}

\* try_lock_event's compare-and-swap excludes: at most one delivery attempt works on
\* a message, on whatever node, as long as no attempt has outlived its lock.
Exclusive ==
    \A v, w \in Workers :
        v # w /\ Active(v) /\ Active(w) /\ att[v].ev.id = att[w].ev.id
            => att[v].ev.id \in overran

\* queue, save_changes and remove keep the rows of a message together, whatever
\* crashes in between: a stored message has exactly one event and keeps its blob
\* linked, a removed one has neither.  (Unless an attempt outlived its lock.)
RowsTogether ==
    \A m \in Ids \ overran :
        /\ messages[m] # None => (\E e \in events : EventsOf(m) = {e}) /\ m \in links
        /\ messages[m] = None => EventsOf(m) = {} /\ m \notin links

\* A recipient is delivered to twice only if an attempt outlived its lock, or was
\* cut short between the delivery and the save.
AtMostOnce ==
    \A m \in Ids : duplicated[m] # {} => m \in overran \cup interrupted

\* A recipient's failure is reported twice only under the same conditions: the flag
\* RCPT_DSN_SENT is stored by the save that ends the attempt.
BouncedOnce ==
    \A m \in Ids : rebounced[m] # {} => m \in overran \cup interrupted

\* A stored message is not slept through: its event is due by its next retry, or by
\* the time the sender's rate limiter has refilled.
WokenInTime ==
    \A m \in Ids \ overran : \A e \in EventsOf(m) :
        messages[m] # None =>
            \/ e.due <= NextDeliveryEvent(messages[m], now)
            \/ \E r \in Refills : e.due <= now + r

\* An accepted message leaves the queue only when each recipient has been delivered
\* to, refused for good, or given up at its expiration time; crashes, failed writes
\* and overrun locks included.
NoRcptForgotten ==
    \A m \in Ids :
        session[m] = "accepted" /\ messages[m] = None => Rcpts = delivered[m] \cup failed[m]

\* The attempt has read its message.
HasMessage(w) == att[w].pc \notin {"idle", "fetch"}

Copies(m) ==
    ({messages[m]} \ {None})
      \cup {att[w].msg : w \in {v \in Workers : HasMessage(v) /\ att[v].ev.id = m}}

\* build_dsn treats a recipient without a status in a completed domain as a case
\* that should not have happened: it does not happen.
CompletedDomainIsDone ==
    \A m \in Ids : \A c \in Copies(m) : \A r \in Rcpts :
        c.domain[DomainOf[r]].status = "completed" => InFinalState(c.rcpt[r])

HoldersOf(q) == {m \in Ids : messages[m] # None /\ q \in messages[m].quota}

\* The quota counters never fall below what the queued messages have reserved, so
\* has_quota admits no message because of a reservation that was lost.
QuotaCovered ==
    overran = {} => \A q \in QuotaIds : counters[q] >= Cardinality(HoldersOf(q))

\* What the comment "Release quota for completed deliveries" in save_changes says:
\* once the queue is empty again, nothing is reserved.
QuotaReleased ==
    overran = {} /\ (\A m \in Ids : messages[m] = None) =>
        \A q \in QuotaIds : counters[q] = 0

\* What the comment "(DSN has been already sent)" in try_deliver says: when a message
\* has left the queue, its sender has been told of every recipient that was not
\* delivered to, if they asked to be.
FailureReported ==
    \A m \in Ids \ NullSender :
        session[m] = "accepted" /\ messages[m] = None =>
            \A r \in Rcpts \ delivered[m] :
                "failure" \in NotifyFlags[r] => r \in reported[m]

\* What the comment "Message no longer exists, delete queue event." in try_deliver
\* says: a message that is still stored keeps an event.
StoredHasEvent ==
    \A m \in Ids \ overran : messages[m] # None => EventsOf(m) # {}

\* The locked event of a running attempt is moved, deleted or locked again only by
\* the step that ends this attempt, until the lock expires.
LockRespected ==
    [][\A w \in Workers :
          Active(w) /\ att[w].ev \in events \ events' /\ att[w].ev.id \notin overran
            => att'[w].pc \in {"idle", "notify"}]_vars

=============================================================================
