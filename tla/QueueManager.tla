---------------------------- MODULE QueueManager ----------------------------
(***************************************************************************)
(* The queue managers on top of the shared queue: on every node one task   *)
(* that waits for an event of its channel or for its next wake-up, then    *)
(* restarts messages on hold whose limiter has room, scans the queue,      *)
(* spawns an attempt per due event, and computes its next wake-up from the *)
(* first event that is not due yet.                                        *)
(*                                                                         *)
(* The queue itself is SmtpQueue: every step of this module is a step of   *)
(* SmtpQueue or leaves its variables alone.  Here the steps get their      *)
(* timing: attempts are spawned by a scan only, messages go on hold when   *)
(* a concurrency limiter is full and come back when it is not.             *)
(***************************************************************************)
EXTENDS SmtpQueue

CONSTANTS
    MaxConcurrent,  \* max_concurrent of each limiter, None where none is configured
    CrashNodes,     \* bound: nodes that may crash, once (and restart at once)
    LastArrival,    \* bound: no message is queued after this time
    SlowUntil,      \* bound: from this time on, the clock waits for the tasks
    ChanCapacity    \* capacity of the queue_tx channel

ASSUME ManagerAssumption ==
    /\ MaxConcurrent \in [Limiters -> (Nat \ {0}) \cup {None}]
    /\ CrashNodes \subseteq Nodes
    /\ LastArrival \in Nat /\ SlowUntil \in Nat /\ ChanCapacity \in Nat \ {0}
    /\ IsFiniteSet(Workers)
    /\ None \notin OnHold

VARIABLES
    chan,           \* events on their way to each manager
    parked,         \* Queue::on_hold of each node
    mgr,            \* where each manager is, its wake-up time, an OnHold it received
    lingering,      \* finished attempts that have not dropped their in_flight yet
    crashed         \* nodes that have crashed once

manager == <<chan, parked, mgr, lingering, crashed>>
mvars == <<vars, manager>>

\* Event::Reload carries nothing, Event::OnHold the message on hold.
Reload == None

Send(n, e) == Len(chan[n]) < ChanCapacity /\ chan' = [chan EXCEPT ![n] = Append(@, e)]

-----------------------------------------------------------------------------
(* Concurrency limiters (one per sender and one per domain on each node).  *)

\* An attempt has the sender's slot from its admission to its end, a domain's slot
\* during the session.
Slots(n, l) ==
    {w \in Workers : /\ att[w].node = n
                     /\ IF l = SenderLimiter THEN att[w].cur > 0
                        ELSE att[w].pc = "session" /\ att[w].cur = l}

InFlight(n, l) == Cardinality(Slots(n, l)) + IF l = SenderLimiter THEN lingering[n] ELSE 0

\* Mutant: one more than max_concurrent.
IsAllowedOneMore(n, l) == MaxConcurrent[l] # None => InFlight(n, l) <= MaxConcurrent[l]

IsAllowed(n, l) == MaxConcurrent[l] # None => InFlight(n, l) < MaxConcurrent[l]

\* next_on_hold's condition.
CanResume(n, h) ==
    \/ \E l \in h.limiters : IsAllowed(n, l)
    \/ h.next # None /\ h.next <= now

-----------------------------------------------------------------------------
(* The manager's loop.                                                     *)

\* A new manager wakes up at once (SHORT_WAIT).
Started == [pc |-> "wait", wake |-> now, pushed |-> None]

Receive(n) ==
    /\ mgr[n].pc = "wait"
    /\ chan[n] # << >>
    /\ chan' = [chan EXCEPT ![n] = Tail(@)]
    /\ mgr' = [mgr EXCEPT ![n].pc = "resume",
                          ![n].pushed = Head(chan[n])]
    /\ UNCHANGED <<vars, parked, lingering, crashed>>

WakeUp(n) ==
    /\ mgr[n].pc = "wait"
    /\ chan[n] = << >>
    /\ mgr[n].wake # None /\ mgr[n].wake <= now
    /\ mgr' = [mgr EXCEPT ![n].pc = "resume"]
    /\ UNCHANGED <<vars, chan, parked, lingering, crashed>>

Resumable(n) == {i \in DOMAIN parked[n] : CanResume(n, parked[n][i])}

\* next_on_hold: the first message on hold that can go on gets a new attempt.
Resume(n) ==
    /\ mgr[n].pc = "resume"
    /\ Resumable(n) # {}
    /\ LET i == Min(Resumable(n))
       IN  /\ Unhold(parked[n][i])
           /\ parked' = [parked EXCEPT ![n] = SubSeq(@, 1, i - 1) \o SubSeq(@, i + 1, Len(@))]
    /\ UNCHANGED <<chan, mgr, lingering, crashed>>

NothingToResume(n) ==
    /\ mgr[n].pc = "resume"
    /\ Resumable(n) = {}
    /\ mgr' = [mgr EXCEPT ![n].pc = "scan"]
    /\ UNCHANGED <<vars, chan, parked, lingering, crashed>>

\* The scan ends with the first event that is not due yet; if it is not locked, it
\* sets the wake-up time.
Later == {e \in events : e.due > now}

NextWakeUp ==
    IF \E e \in Later : e.lock < now /\ \A o \in Later : e.due <= o.due
    THEN Min({e.due : e \in Later}) ELSE None

\* Mutant: the message on hold that was just received is dropped.
ScanDropsHold(n) ==
    /\ mgr[n].pc = "scan"
    /\ IF DueEvents = {} THEN UNCHANGED vars ELSE Spawn(n)
    /\ mgr' = [mgr EXCEPT ![n] = [pc |-> "wait", wake |-> NextWakeUp, pushed |-> None]]
    /\ UNCHANGED <<chan, parked, lingering, crashed>>

\* Mutant: the next event is spawned before it is due.
ScanAhead(n) ==
    /\ mgr[n].pc = "scan"
    /\ tasks' = tasks \cup {[node |-> n, ev |-> e] : e \in events}
    /\ mgr' = [mgr EXCEPT ![n] = [pc |-> "wait", wake |-> NextWakeUp, pushed |-> None]]
    /\ parked' = [parked EXCEPT ![n] = IF mgr[n].pushed = None THEN @ ELSE Append(@, mgr[n].pushed)]
    /\ UNCHANGED <<now, store, session, held, att, outcome, overran, interrupted, chan, lingering, crashed>>

\* Mutant: the wake-up time is forgotten.
ScanSleeps(n) ==
    /\ mgr[n].pc = "scan"
    /\ IF DueEvents = {} THEN UNCHANGED vars ELSE Spawn(n)
    /\ mgr' = [mgr EXCEPT ![n] = [pc |-> "wait", wake |-> None, pushed |-> None]]
    /\ parked' = [parked EXCEPT ![n] = IF mgr[n].pushed = None THEN @ ELSE Append(@, mgr[n].pushed)]
    /\ UNCHANGED <<chan, lingering, crashed>>

\* The rest of process_events, and on_hold for the message that was received.
Scan(n) ==
    /\ mgr[n].pc = "scan"
    /\ IF DueEvents = {} THEN UNCHANGED vars ELSE Spawn(n)
    /\ mgr' = [mgr EXCEPT ![n] = [pc |-> "wait", wake |-> NextWakeUp, pushed |-> None]]
    /\ parked' = [parked EXCEPT ![n] = IF mgr[n].pushed = None THEN @ ELSE Append(@, mgr[n].pushed)]
    /\ UNCHANGED <<chan, lingering, crashed>>

-----------------------------------------------------------------------------
(* Submissions and attempts.                                               *)

\* A message that was written is announced to the manager of the node.
QueueOn(m, n) ==
    /\ now <= LastArrival
    /\ Queue(m)
    /\ IF session'[m] = "accepted" THEN Send(n, Reload) ELSE UNCHANGED chan
    /\ UNCHANGED <<parked, mgr, lingering, crashed>>

\* The attempt ends: it sends its event while it still has the sender's slot.
Finish(w) ==
    LET n == att[w].node
    IN  /\ Notify(w)
        /\ Send(n, IF att[w].hold = {} THEN Reload ELSE HoldEntry(att[w]))
        /\ lingering' = [lingering EXCEPT ![n] = IF att[w].cur > 0 THEN @ + 1 ELSE @]
        /\ UNCHANGED <<parked, mgr, crashed>>

\* The task of a finished attempt is dropped, and its slot with it.
Drop(n) ==
    /\ lingering[n] > 0
    /\ lingering' = [lingering EXCEPT ![n] = @ - 1]
    /\ UNCHANGED <<vars, chan, parked, mgr, crashed>>

\* A step of an attempt: it takes a slot of a limiter that has one, and is held by
\* one that has none.  (Host throttles, inside a session, have limiters of their own
\* and are not limited here.)
Run(w) ==
    LET n == att[w].node
    IN  /\ Attempt(w)
        /\ att[w].pc # "notify"
        /\ att'[w].cur > 0 /\ att[w].cur = 0 => IsAllowed(n, SenderLimiter)
        /\ att'[w].pc = "session" => IsAllowed(n, att[w].cur)
        /\ \A l \in att'[w].hold \ att[w].hold : att[w].pc # "session" /\ ~IsAllowed(n, l)
        /\ UNCHANGED manager

\* A node crashes and restarts; the nodes that notice it send themselves a Reload.
CrashAndRestart(n) ==
    /\ n \in CrashNodes \ crashed
    /\ crashed' = crashed \cup {n}
    /\ Crash(n)
    /\ \E noticed \in SUBSET (Nodes \ {n}) :
         chan' = [o \in Nodes |-> IF o = n THEN << >>
                                  ELSE IF o \in noticed /\ Len(chan[o]) < ChanCapacity
                                  THEN Append(chan[o], Reload) ELSE chan[o]]
    /\ parked' = [parked EXCEPT ![n] = << >>]
    /\ mgr' = [mgr EXCEPT ![n] = Started]
    /\ lingering' = [lingering EXCEPT ![n] = 0]

MInit ==
    /\ Init
    /\ chan = [n \in Nodes |-> << >>]
    /\ parked = [n \in Nodes |-> << >>]
    /\ mgr = [n \in Nodes |-> Started]
    /\ lingering = [n \in Nodes |-> 0]
    /\ crashed = {}

Manage(n) == Receive(n) \/ WakeUp(n) \/ Resume(n) \/ NothingToResume(n) \/ Scan(n)

GiveUp == (\E k \in tasks : LockBusy(k)) /\ UNCHANGED manager

Quiet ==
    /\ tasks = {} /\ \A w \in Workers : att[w].pc = "idle"
    /\ \A n \in Nodes : /\ mgr[n].pc = "wait" /\ chan[n] = << >> /\ lingering[n] = 0
                         /\ mgr[n].wake # None => mgr[n].wake > now

Clock ==
    /\ now < SlowUntil \/ Quiet
    /\ Tick
    /\ UNCHANGED manager

MNext ==
    \/ \E m \in Ids : HasQuota(m) /\ UNCHANGED manager
    \/ \E m \in Ids, n \in Nodes : QueueOn(m, n)
    \/ \E n \in Nodes : Manage(n) \/ Drop(n) \/ CrashAndRestart(n)
    \/ \E w \in Workers : Run(w) \/ Finish(w)
    \/ GiveUp
    \/ Clock

MSpec == MInit /\ [][MNext]_mvars

\* tokio runs every task that can go on, and time passes.  Nothing obliges a client
\* to submit a message or a node to crash.
Fairness ==
    /\ \A n \in Nodes : WF_mvars(Manage(n)) /\ WF_mvars(Drop(n))
    /\ \A w \in Workers : WF_mvars(Run(w)) /\ WF_mvars(Finish(w))
    /\ WF_mvars(GiveUp)
    /\ WF_mvars(Clock)

FairSpec == MSpec /\ Fairness

-----------------------------------------------------------------------------
(* Properties.                                                             *)

Elements(s) == {s[i] : i \in DOMAIN s}

\* The messages on hold that a node has: in Queue::on_hold, in the channel, in the
\* manager's hands.
OnHoldAt(n) ==
    Elements(parked[n]) \cup (Elements(chan[n]) \ {Reload}) \cup ({mgr[n].pushed} \ {None})

\* process_events and on_hold lose no message on hold: it is in the channel, in the
\* manager's hands or in Queue::on_hold of the node that tried it.  And, unless an
\* attempt outlived its lock, it is in one of them only: next_on_hold, which gives it a
\* new attempt, leaves no second entry behind that would be tried once more.
HeldTracked ==
    /\ held \subseteq UNION {OnHoldAt(n) : n \in Nodes}
    /\ \A n \in Nodes : \A h \in OnHoldAt(n) : h.ev.id \notin overran => h \in held /\ h.node = n

\* The concurrency limits are kept, on every node and for the attempts that have sent
\* their event but still have their slot.
LimitsKept ==
    \A n \in Nodes, l \in Limiters : MaxConcurrent[l] # None => InFlight(n, l) <= MaxConcurrent[l]

\* The managers only ever do what the queue allows: every step is a step of SmtpQueue
\* or leaves its rows, tasks and attempts alone.
ManagesQueue == Spec

\* Every accepted message leaves the queue: it is retried, or expires, without any
\* other traffic.
EventuallyGone ==
    \A m \in Ids : session[m] = "accepted" ~> messages[m] = None

\* What the comment "Deliver any concurrency limited messages" in process_events
\* promises: a message on hold is attempted again.
HeldResumed ==
    \A m \in Ids : (\E h \in held : h.ev.id = m) ~> ~ \E h \in held : h.ev.id = m
=============================================================================
