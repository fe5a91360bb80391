------------------------- MODULE QueueManagerProofs -------------------------
(***************************************************************************)
(* The queue managers implement the queue, keep the concurrency limits and *)
(* lose no message on hold.                                                *)
(***************************************************************************)
EXTENDS QueueManager, SmtpQueueQuota

\* Every step of a manager, of an attempt or of the environment is a step of the
\* queue or leaves it alone: process_events only spawns due events and messages on
\* hold, the limiters only choose between steps the queue has.
LEMMA StepImplements ==
    ASSUME [MNext]_mvars
    PROVE  [Next]_vars
<1>1. CASE UNCHANGED mvars
  BY Zenon, <1>1 DEF mvars
<1>2. CASE \E m \in Ids : HasQuota(m) /\ UNCHANGED manager
  BY Zenon, <1>2 DEF Next
<1>3. CASE \E m \in Ids, n \in Nodes : QueueOn(m, n)
  BY Zenon, <1>3 DEF QueueOn, Next
<1>4. ASSUME NEW n \in Nodes, Manage(n)
      PROVE  [Next]_vars
  <2>1. CASE Receive(n)
    BY Zenon, <2>1 DEF Receive
  <2>2. CASE WakeUp(n)
    BY Zenon, <2>2 DEF WakeUp
  <2>3. CASE Resume(n)
    <3>1. PICK h : Unhold(h)
      BY Zenon, <2>3 DEF Resume
    <3>2. h \in held
      BY Zenon, <3>1 DEF Unhold
    <3> QED
      BY Zenon, <3>1, <3>2 DEF Next
  <2>4. CASE NothingToResume(n)
    BY Zenon, <2>4 DEF NothingToResume
  <2>5. CASE Scan(n)
    BY Zenon, <2>5 DEF Scan, Next
  <2> QED
    BY Zenon, <1>4, <2>1, <2>2, <2>3, <2>4, <2>5 DEF Manage
<1>5. ASSUME NEW n \in Nodes, Drop(n)
      PROVE  [Next]_vars
  BY Zenon, <1>5 DEF Drop
<1>6. ASSUME NEW n \in Nodes, CrashAndRestart(n)
      PROVE  [Next]_vars
  BY Zenon, <1>6 DEF CrashAndRestart, Next
<1>7. ASSUME NEW w \in Workers, Run(w)
      PROVE  [Next]_vars
  BY Zenon, <1>7 DEF Run, Next
<1>8. ASSUME NEW w \in Workers, Finish(w)
      PROVE  [Next]_vars
  BY Zenon, <1>8 DEF Finish, Next, Attempt
<1>9. CASE GiveUp
  BY Zenon, <1>9 DEF GiveUp, Next
<1>10. CASE Clock
  BY Zenon, <1>10 DEF Clock, Next
<1> QED
  BY Zenon, <1>1, <1>2, <1>3, <1>4, <1>5, <1>6, <1>7, <1>8, <1>9, <1>10 DEF MNext

\* The managers only ever do what the queue allows (process_events, on_hold and
\* next_on_hold; limiters, channel and crashes included).
THEOREM ManagersImplementQueue == MSpec => ManagesQueue
<1>1. MInit => Init
  BY Zenon DEF MInit
<1>2. [MNext]_mvars => [Next]_vars
  BY Zenon, StepImplements
<1> QED
  BY <1>1, <1>2, PTL DEF MSpec, ManagesQueue, Spec

\* The quota counters cover the stored messages (as QuotaIsCovered shows for the
\* queue) however the managers schedule the attempts, crash and restart.
THEOREM ManagersCoverQuota == MSpec => []QuotaCovered
BY ManagersImplementQueue, QuotaIsCovered, PTL DEF ManagesQueue

-----------------------------------------------------------------------------
(* The limits.  LimitsKept needs to know only that lingering counts; the   *)
(* argument is about how a step changes the set of attempts with a slot.   *)

LimitInv == lingering \in [Nodes -> Nat] /\ LimitsKept

LEMMA SlotsFinite ==
    ASSUME NEW n, NEW l
    PROVE  /\ IsFiniteSet(Slots(n, l)) /\ Cardinality(Slots(n, l)) \in Nat
           /\ Slots(n, l) \subseteq Workers
<1>1. Slots(n, l) \subseteq Workers
  BY Zenon DEF Slots
<1>. QED
  BY Zenon, <1>1, FS_Subset, FS_CardinalityType, ManagerAssumption

\* No new slot is taken.
LEMMA LimitsShrink ==
    ASSUME LimitInv, lingering' \in [Nodes -> Nat],
           \A n \in Nodes : lingering'[n] <= lingering[n],
           \A n \in Nodes, l \in Limiters : Slots(n, l)' \subseteq Slots(n, l)
    PROVE  LimitInv'
<1>1. ASSUME NEW n \in Nodes, NEW l \in Limiters, MaxConcurrent[l] # None
      PROVE  InFlight(n, l)' <= MaxConcurrent[l]
  <2>1. /\ Cardinality(Slots(n, l)') \in Nat /\ Cardinality(Slots(n, l)) \in Nat
        /\ Cardinality(Slots(n, l)') <= Cardinality(Slots(n, l))
    BY SMTT(30), SlotsFinite, FS_Subset, FS_CardinalityType
  <2>2. InFlight(n, l) <= MaxConcurrent[l]
    BY Zenon, <1>1 DEF LimitInv, LimitsKept
  <2>3. MaxConcurrent[l] \in Nat
    BY Zenon, <1>1, ManagerAssumption
  <2>. QED
    BY SMTT(30), <2>1, <2>2, <2>3 DEF InFlight, LimitInv
<1>. QED
  BY Zenon, <1>1 DEF LimitInv, LimitsKept

\* How a step of an attempt may change its slots.
LEMMA AttemptSlots ==
    ASSUME TypeOK, NEW w \in Workers, Attempt(w), att[w].pc # "notify"
    PROVE  /\ \A v \in Workers \ {w} : att'[v] = att[v]
           /\ att'[w].node = att[w].node \/ (att'[w].cur = 0 /\ att'[w].pc # "session")
           /\ att'[w].pc = "session" => att[w].pc = "deliver" /\ att'[w].cur = att[w].cur
<1>. USE DEF TypeOK, AttRec
<1>1. ASSUME NEW k \in tasks, TryLock(k, w)
      PROVE  /\ \A v \in Workers \ {w} : att'[v] = att[v]
             /\ att'[w].cur = 0 /\ att'[w].pc = "fetch"
  BY Zenon, <1>1 DEF TryLock, Idle
<1>2. CASE FetchNothing(w)
  BY ZenonT(40), <1>2 DEF FetchNothing, Idle
<1>3. CASE Fetch(w)
  BY ZenonT(40), <1>3 DEF Fetch
<1>4. CASE SendDsnBefore(w) \/ SendDsnAfter(w)
  <2>1. PICK to \in {"decide", "finish"} : SendDsn(w, to)
    BY Zenon, <1>4 DEF SendDsnBefore, SendDsnAfter
  <2>2. PICK msg : att' = [att EXCEPT ![w].pc = to, ![w].msg = msg]
    BY Zenon, <2>1 DEF SendDsn
  <2>. HIDE DEF TypeOK, AttRec
  <2>. QED
    BY Zenon, <2>2, PcAndMsgChange
<1>5. CASE RemoveExpired(w) \/ Requeue(w)
  BY ZenonT(40), <1>5 DEF RemoveExpired, Requeue, Goto
<1>6. CASE HoldSender(w) \/ AdmitSender(w)
  BY SMTT(30), <1>6 DEF HoldSender, AdmitSender
<1>7. ASSUME NEW refill \in Refills, RateLimitSender(w, refill) \/ RateLimitDomain(w, refill)
      PROVE  /\ \A v \in Workers \ {w} : att'[v] = att[v]
             /\ att'[w].node = att[w].node /\ att'[w].pc # "session"
  BY SMTT(30), <1>7 DEF RateLimitSender, RateLimitDomain, Goto, NextDomain
<1>8. CASE SkipDomain(w) \/ OpenSession(w)
  BY SMTT(30), <1>8 DEF SkipDomain, OpenSession, Goto, NextDomain
<1>9. CASE HoldDomain(w)
  BY SMTT(30), <1>9 DEF HoldDomain, NextDomain
<1>10. ASSUME NEW ans, SessionDone(w, ans)
       PROVE  /\ \A v \in Workers \ {w} : att'[v] = att[v]
              /\ att'[w].node = att[w].node /\ att'[w].pc # "session"
  BY Zenon, <1>10 DEF SessionDone, NextDomain
<1>11. ASSUME NEW ans, NEW s, SessionFailed(w, ans, s)
       PROVE  /\ \A v \in Workers \ {w} : att'[v] = att[v]
              /\ att'[w].node = att[w].node /\ att'[w].pc # "session"
  BY ZenonT(40), <1>11 DEF SessionFailed, NextDomain
<1>12. CASE FinishOnHold(w) \/ FinishIncomplete(w) \/ FinishCompleted(w)
  BY SMTT(30), <1>12 DEF FinishOnHold, FinishIncomplete, FinishCompleted, Goto
<1>13. ~Notify(w)
  BY Zenon DEF Notify
<1>. HIDE DEF TypeOK, AttRec
<1>. QED
  BY ZenonT(40), <1>1, <1>2, <1>3, <1>4, <1>5, <1>6, <1>7, <1>8, <1>9, <1>10, <1>11, <1>12, <1>13
     DEF Attempt

\* A step of an attempt takes a slot of a limiter only where the limiter has room.
LEMMA LimitsRun ==
    ASSUME TypeOK, LimitInv, NEW w \in Workers, Run(w)
    PROVE  LimitInv'
<1>1. /\ \A v \in Workers \ {w} : att'[v] = att[v]
      /\ att'[w].node = att[w].node \/ (att'[w].cur = 0 /\ att'[w].pc # "session")
      /\ att'[w].pc = "session" => att[w].pc = "deliver" /\ att'[w].cur = att[w].cur
  BY Zenon, AttemptSlots DEF Run
<1>2. lingering' = lingering
  BY Zenon DEF Run, manager
<1>3. att[w].cur \in Nat /\ att'[w].cur \in Nat
  <2>1. TypeOK'
    BY Zenon, TypeStepBegin, TypeStepWrite, TypeStepLoop DEF Run, Attempt
  <2>. QED
    BY Zenon, <2>1 DEF TypeOK, AttRec
<1>4. ASSUME NEW n \in Nodes, NEW l \in Limiters, MaxConcurrent[l] # None
      PROVE  InFlight(n, l)' <= MaxConcurrent[l]
  <2>0. MaxConcurrent[l] \in Nat
    BY Zenon, <1>4, ManagerAssumption
  <2>1. CASE Slots(n, l)' \subseteq Slots(n, l)
    <3>1. /\ Cardinality(Slots(n, l)') \in Nat /\ Cardinality(Slots(n, l)) \in Nat
          /\ Cardinality(Slots(n, l)') <= Cardinality(Slots(n, l))
      BY Zenon, <2>1, SlotsFinite, FS_Subset, FS_CardinalityType
    <3>2. InFlight(n, l) <= MaxConcurrent[l]
      BY Zenon, <1>4 DEF LimitInv, LimitsKept
    <3>. QED
      BY SMTT(30), <1>2, <2>0, <3>1, <3>2 DEF InFlight, LimitInv
  <2>2. CASE ~(Slots(n, l)' \subseteq Slots(n, l))
    <3>1. Slots(n, l)' \subseteq Slots(n, l) \cup {w} /\ w \in Slots(n, l)' /\ w \notin Slots(n, l)
      BY Zenon, <1>1, <2>2 DEF Slots
    <3>2. IsAllowed(n, l)
      <4>1. CASE l = SenderLimiter
        BY SMTT(30), <1>1, <1>3, <3>1, <4>1 DEF Slots, Run, SenderLimiter
      <4>2. CASE l # SenderLimiter
        BY Zenon, <1>1, <3>1, <4>2 DEF Slots, Run
      <4>. QED
        BY Zenon, <4>1, <4>2
    <3>3. InFlight(n, l) < MaxConcurrent[l]
      BY Zenon, <1>4, <3>2 DEF IsAllowed
    <3>4. /\ Cardinality(Slots(n, l)') \in Nat /\ Cardinality(Slots(n, l)) \in Nat
          /\ Cardinality(Slots(n, l)') <= Cardinality(Slots(n, l)) + 1
      <4>. DEFINE S == Slots(n, l)  S1 == Slots(n, l)'
      <4>1. IsFiniteSet(S) /\ Cardinality(S) \in Nat
        BY Zenon, SlotsFinite
      <4>. HIDE DEF S, S1
      <4>2. IsFiniteSet(S \cup {w}) /\ Cardinality(S \cup {w}) <= Cardinality(S) + 1
        <5>1. /\ IsFiniteSet(S \cup {w})
              /\ Cardinality(S \cup {w}) = IF w \in S THEN Cardinality(S) ELSE Cardinality(S) + 1
          BY Zenon, <4>1, FS_AddElement
        <5>. QED
          BY SMTT(30), <4>1, <5>1
      <4>3. S1 \subseteq S \cup {w}
        BY Zenon, <3>1 DEF S, S1
      <4>4. Cardinality(S \cup {w}) \in Nat /\ Cardinality(S1) \in Nat
            /\ Cardinality(S1) <= Cardinality(S \cup {w})
        BY Zenon, <4>2, <4>3, FS_Subset, FS_CardinalityType
      <4>5. Cardinality(S1) <= Cardinality(S) + 1
        BY SMTT(30), <4>1, <4>2, <4>4
      <4>. QED
        BY Zenon, <4>1, <4>4, <4>5 DEF S, S1
    <3>. QED
      BY SMTT(30), <1>2, <2>0, <3>3, <3>4 DEF InFlight, LimitInv
  <2>. QED
    BY Zenon, <2>1, <2>2
<1>. QED
  BY Zenon, <1>2, <1>4 DEF LimitInv, LimitsKept

\* A finished attempt keeps its slot until its task is dropped.
LEMMA LimitsFinish ==
    ASSUME TypeOK, LimitInv, NEW w \in Workers, Finish(w)
    PROVE  LimitInv'
<1>. DEFINE n0 == att[w].node
<1>1. /\ att[w].pc = "notify" /\ att' = [att EXCEPT ![w] = Idle]
      /\ lingering' = [lingering EXCEPT ![n0] = IF att[w].cur > 0 THEN @ + 1 ELSE @]
  BY Zenon DEF Finish, Notify
<1>2. n0 \in Nodes /\ att[w].cur \in Nat
  BY Zenon, <1>1 DEF TypeOK, AttRec, Consistent
<1>3. lingering' \in [Nodes -> Nat]
  BY SMTT(30), <1>1, <1>2 DEF LimitInv
<1>4. \A n \in Nodes, l \in Limiters : Slots(n, l)' = Slots(n, l) \ {w}
  BY SMTT(30), <1>1 DEF Slots, Idle, TypeOK
<1>5. ASSUME NEW n \in Nodes, NEW l \in Limiters
      PROVE  InFlight(n, l)' <= InFlight(n, l)
  <2>1. /\ Cardinality(Slots(n, l)) \in Nat /\ Cardinality(Slots(n, l)') \in Nat
        /\ Cardinality(Slots(n, l)') = IF w \in Slots(n, l) THEN Cardinality(Slots(n, l)) - 1
                                       ELSE Cardinality(Slots(n, l))
    BY SMTT(30), <1>4, SlotsFinite, FS_RemoveElement, FS_CardinalityType
  <2>2. CASE l = SenderLimiter /\ n = n0 /\ att[w].cur > 0
    <3>1. w \in Slots(n, l)
      BY Zenon, <2>2 DEF Slots
    <3>. QED
      BY SMTT(30), <1>1, <1>2, <2>1, <2>2, <3>1 DEF InFlight, LimitInv
  <2>3. CASE ~(l = SenderLimiter /\ n = n0 /\ att[w].cur > 0)
    <3>1. l = SenderLimiter => lingering'[n] = lingering[n]
      BY Zenon, <1>1, <1>2, <2>3 DEF LimitInv
    <3>. QED
      BY SMTT(30), <2>1, <3>1 DEF InFlight, LimitInv
  <2>. QED
    BY Zenon, <2>2, <2>3
<1>6. ASSUME NEW n \in Nodes, NEW l \in Limiters
      PROVE  InFlight(n, l) \in Int /\ InFlight(n, l)' \in Int
  <2>1. Cardinality(Slots(n, l)) \in Nat /\ Cardinality(Slots(n, l)') \in Nat
    <3>. DEFINE S == Slots(n, l)
    <3>1. IsFiniteSet(S) /\ Cardinality(S) \in Nat
      BY Zenon, SlotsFinite
    <3>. HIDE DEF S
    <3>2. Cardinality(S \ {w}) \in Nat
      BY Zenon, <3>1, FS_RemoveElement, FS_CardinalityType
    <3>. QED
      BY Zenon, <1>4, <3>1, <3>2 DEF S
  <2>. QED
    BY SMTT(30), <1>3, <2>1 DEF InFlight, LimitInv
<1>7. \A l \in Limiters : MaxConcurrent[l] # None => MaxConcurrent[l] \in Int
  BY SMTT(30), ManagerAssumption
<1>8. LimitsKept'
  BY SMTT(30), <1>5, <1>6, <1>7 DEF LimitInv, LimitsKept
<1>. QED
  BY Zenon, <1>3, <1>8 DEF LimitInv

\* is_allowed and the in_flight guards keep every concurrency limit, on every node,
\* for any number of messages, nodes and workers, crashes included.
THEOREM ConcurrencyLimited == MSpec => []LimitsKept
<1>1. MInit => LimitInv
  <2>. SUFFICES ASSUME MInit PROVE LimitInv
    BY Zenon
  <2>1. \A n \in Nodes, l \in Limiters : Slots(n, l) = {}
    BY Zenon, QueueAssumption DEF MInit, Init, Idle, Slots
  <2>2. ASSUME NEW n \in Nodes, NEW l \in Limiters PROVE InFlight(n, l) = 0
    BY SMTT(30), <2>1, FS_EmptySet DEF MInit, InFlight
  <2>3. \A l \in Limiters : MaxConcurrent[l] # None => MaxConcurrent[l] \in Nat
    BY Zenon, ManagerAssumption
  <2>. QED
    BY SMTT(30), <2>2, <2>3 DEF MInit, LimitInv, LimitsKept
<1>2. TypeOK /\ LimitInv /\ [MNext]_mvars => LimitInv'
  <2>. SUFFICES ASSUME TypeOK, LimitInv, [MNext]_mvars PROVE LimitInv'
    BY Zenon
  <2>1. CASE UNCHANGED <<att, lingering>>
    <3>1. \A n \in Nodes, l \in Limiters : Slots(n, l)' = Slots(n, l)
      BY Zenon, <2>1 DEF Slots
    <3>. QED
      BY SMTT(30), <2>1, <3>1, LimitsShrink DEF LimitInv
  <2>2. CASE UNCHANGED mvars
    BY Zenon, <2>1, <2>2 DEF mvars, vars, manager
  <2>3. ASSUME NEW m \in Ids, HasQuota(m) /\ UNCHANGED manager PROVE LimitInv'
    BY Zenon, <2>1, <2>3 DEF HasQuota, manager
  <2>4. ASSUME NEW m \in Ids, NEW n \in Nodes, QueueOn(m, n) PROVE LimitInv'
    BY Zenon, <2>1, <2>4 DEF QueueOn, Queue
  <2>5. ASSUME NEW n \in Nodes, Manage(n) PROVE LimitInv'
    <3>1. CASE Receive(n) \/ WakeUp(n) \/ NothingToResume(n)
      BY Zenon, <2>1, <3>1 DEF Receive, WakeUp, NothingToResume, vars
    <3>2. CASE Resume(n)
      BY Zenon, <2>1, <3>2 DEF Resume, Unhold
    <3>3. CASE Scan(n)
      BY Zenon, <2>1, <3>3 DEF Scan, Spawn, vars
    <3>. QED
      BY Zenon, <2>5, <3>1, <3>2, <3>3 DEF Manage
  <2>6. ASSUME NEW n \in Nodes, Drop(n) PROVE LimitInv'
    <3>1. \A o \in Nodes, l \in Limiters : Slots(o, l)' = Slots(o, l)
      BY Zenon, <2>6 DEF Drop, vars, Slots
    <3>2. lingering' \in [Nodes -> Nat] /\ \A o \in Nodes : lingering'[o] <= lingering[o]
      BY SMTT(30), <2>6 DEF Drop, LimitInv
    <3>. QED
      BY Zenon, <3>1, <3>2, LimitsShrink
  <2>7. ASSUME NEW n \in Nodes, CrashAndRestart(n) PROVE LimitInv'
    <3>1. \A o \in Nodes, l \in Limiters : Slots(o, l)' \subseteq Slots(o, l)
      BY Zenon, <2>7, QueueAssumption DEF CrashAndRestart, Crash, Slots, Idle
    <3>2. lingering' \in [Nodes -> Nat] /\ \A o \in Nodes : lingering'[o] <= lingering[o]
      BY SMTT(30), <2>7 DEF CrashAndRestart, LimitInv
    <3>. QED
      BY Zenon, <3>1, <3>2, LimitsShrink
  <2>8. CASE GiveUp \/ Clock
    BY Zenon, <2>1, <2>8 DEF GiveUp, LockBusy, Clock, Tick, manager
  <2>. QED
    BY Zenon, <2>2, <2>3, <2>4, <2>5, <2>6, <2>7, <2>8, LimitsRun, LimitsFinish DEF MNext
<1>3. LimitInv => LimitsKept
  BY Zenon DEF LimitInv
<1>. QED
  BY <1>1, <1>2, <1>3, ManagersImplementQueue, TypeCorrect, PTL DEF MSpec, ManagesQueue

-----------------------------------------------------------------------------
(* Messages on hold.  HeldTracked needs that tokens stay apart even when   *)
(* they have expired (LockInv is about live ones), and that no entry is in *)
(* two places of a node.                                                   *)

\* No two owners of tokens, running or on hold, have the same token.
OwnersApart ==
    /\ \A v, w \in Workers :
         v # w /\ Owns(v) /\ Owns(w) /\ att[w].ev.id \notin overran => att[v].ev # att[w].ev
    /\ \A w \in Workers, h \in held :
         Owns(w) /\ h.ev.id \notin overran => att[w].ev # h.ev

\* A lock that try_lock_event writes is new: a live owner would exclude it (LockInv),
\* an expired one has an earlier time in it.
LEMMA OwnersStep ==
    ASSUME IInv, OwnersApart, [Next]_vars
    PROVE  OwnersApart'
<1>0. TypeOK /\ LockInv /\ LockInv'
  BY Zenon, LockStep DEF IInv
<1>1. ASSUME held' \subseteq held, overran \subseteq overran',
             \A w \in Workers : Owns(w)' => Owns(w) /\ att'[w].ev = att[w].ev
      PROVE  OwnersApart'
  BY Zenon, <1>1 DEF OwnersApart
<1>2. CASE UNCHANGED <<held, overran, att>>
  BY Zenon, <1>1, <1>2 DEF Owns, Active
<1>3. CASE UNCHANGED vars \/ (\E m \in Ids : HasQuota(m) \/ Queue(m)) \/ (\E n \in Nodes : Spawn(n))
           \/ (\E k \in tasks : LockBusy(k))
  BY Zenon, <1>2, <1>3 DEF vars, HasQuota, Queue, Spawn, LockBusy
<1>4. ASSUME NEW n \in Nodes, Crash(n) PROVE OwnersApart'
  <2>1. \A w \in Workers : att'[w] \in {att[w], Idle}
    BY Zenon, <1>4 DEF Crash
  <2>2. Idle.pc = "idle"
    BY Zenon DEF Idle
  <2>3. \A w \in Workers : Owns(w)' => Owns(w) /\ att'[w].ev = att[w].ev
    BY Zenon, <2>1, <2>2 DEF Owns, Active
  <2>. QED
    BY Zenon, <1>1, <1>4, <2>3 DEF Crash
<1>5. ASSUME NEW h \in held, Unhold(h) PROVE OwnersApart'
  <2>1. held' \subseteq held /\ UNCHANGED <<att, overran>>
    BY Zenon, <1>5 DEF Unhold
  <2>. QED
    BY Zenon, <1>1, <2>1 DEF Owns, Active
<1>6. CASE Tick
  <2>1. UNCHANGED <<att, held>> /\ overran \subseteq overran'
    BY Zenon, <1>6 DEF Tick
  <2>. QED
    BY Zenon, <1>1, <2>1 DEF Owns, Active
<1>7. ASSUME NEW w \in Workers, Attempt(w) PROVE OwnersApart'
  <2>1. CASE Kept(w) \/ Gives(w)
    <3>1. \A v \in Workers : Owns(v)' => Owns(v) /\ att'[v].ev = att[v].ev
      BY Zenon, <2>1 DEF Kept, Gives, OtherAttempts, Owns, Active
    <3>. QED
      BY Zenon, <1>1, <2>1, <3>1 DEF Kept, Gives
  <2>2. ASSUME NEW k \in tasks, TryLock(k, w) PROVE OwnersApart'
    <3>1. /\ \A v \in Workers \ {w} : att'[v] = att[v] /\ (Owns(v)' <=> Owns(v))
          /\ att'[w].ev = [k.ev EXCEPT !.lock = now + LockExpiry]
          /\ UNCHANGED <<now, held, overran>>
      BY ZenonT(40), <1>0, <2>2 DEF TryLock, TypeOK, Owns, Active, Idle
    <3>2. att'[w].ev.lock = now + LockExpiry /\ att'[w].ev.id = k.ev.id
      BY Zenon, <1>0, <3>1 DEF TypeOK, Task, Event
    <3>3. att'[w].ev.lock >= now'
      BY SMTT(30), <1>0, <3>1, <3>2, QueueAssumption DEF TypeOK
    <3>4. Owns(w)'
      BY Zenon, <1>0, <2>2 DEF TryLock, TypeOK, Owns, Active, Idle
    <3>5. ASSUME att'[w].ev.id \notin overran
          PROVE  /\ \A v \in Workers : v # w /\ Owns(v)' => att'[v].ev # att'[w].ev
                 /\ \A h \in held' : h.ev # att'[w].ev
      <4>1. Live(att[w].ev)'
        BY Zenon, <3>1, <3>3, <3>5 DEF Live
      <4>. QED
        BY Zenon, <1>0, <3>4, <4>1 DEF LockInv, TokensDistinct
    <3>6. ASSUME NEW u \in Workers, NEW v \in Workers, u # v, Owns(u)', Owns(v)',
                 att'[v].ev.id \notin overran'
          PROVE  att'[u].ev # att'[v].ev
      BY Zenon, <3>1, <3>5, <3>6 DEF OwnersApart
    <3>7. ASSUME NEW v \in Workers, NEW h \in held', Owns(v)', h.ev.id \notin overran'
          PROVE  att'[v].ev # h.ev
      <4>1. CASE v = w
        <5>. SUFFICES ASSUME h.ev = att'[w].ev PROVE FALSE
          BY Zenon, <4>1
        <5>1. att'[w].ev.id \notin overran
          BY Zenon, <3>1, <3>7
        <5>. QED
          BY Zenon, <3>5, <5>1
      <4>2. CASE v # w
        BY Zenon, <3>1, <3>7, <4>2 DEF OwnersApart
      <4>. QED
        BY Zenon, <4>1, <4>2
    <3>. QED
      BY Zenon, <3>6, <3>7 DEF OwnersApart
  <2>3. CASE Notify(w)
    <3>1. /\ \A v \in Workers \ {w} : att'[v] = att[v] /\ (Owns(v)' <=> Owns(v))
          /\ ~Owns(w)' /\ overran' = overran
          /\ \A h \in held' : h \in held \/ (h.ev = att[w].ev /\ Owns(w))
      <4>1. att[w].pc = "notify" /\ att' = [att EXCEPT ![w] = Idle] /\ overran' = overran
            /\ held' = held \cup IF att[w].hold = {} THEN {} ELSE {HoldEntry(att[w])}
        BY Zenon, <2>3 DEF Notify
      <4>2. Idle.pc = "idle" /\ HoldEntry(att[w]).ev = att[w].ev
        BY Zenon DEF Idle, HoldEntry
      <4>3. att'[w] = Idle /\ \A v \in Workers \ {w} : att'[v] = att[v]
        BY Zenon, <1>0, <4>1 DEF TypeOK
      <4>4. \A h \in held' : h \in held \/ (h.ev = att[w].ev /\ Owns(w))
        BY Zenon, <4>1, <4>2 DEF Owns
      <4>. QED
        BY Zenon, <4>1, <4>2, <4>3, <4>4 DEF Owns, Active
    <3>. QED
      BY Zenon, <3>1 DEF OwnersApart
  <2>. QED
    BY Zenon, <1>0, <1>7, <2>1, <2>2, <2>3, AttemptClasses
<1>. QED
  BY Zenon, <1>3, <1>4, <1>5, <1>6, <1>7 DEF Next

\* Entries that count, and sequences that have each of them once.
Fresh(h, done) == h # None /\ h.ev.id \notin done
NoTwice(s, done) == \A i, j \in DOMAIN s : s[i] = s[j] /\ Fresh(s[i], done) => i = j

LEMMA AppendOnce ==
    ASSUME NEW S, NEW s \in Seq(S), NEW e \in S, NEW done, NoTwice(s, done),
           Fresh(e, done) => e \notin Elements(s)
    PROVE  /\ Append(s, e) \in Seq(S)
           /\ Elements(Append(s, e)) = Elements(s) \cup {e}
           /\ NoTwice(Append(s, e), done)
<1>. DEFINE t == Append(s, e)
<1>1. /\ t \in Seq(S) /\ Len(s) \in Nat
      /\ DOMAIN s = 1 .. Len(s) /\ DOMAIN t = 1 .. Len(s) + 1
      /\ \A i \in DOMAIN s : t[i] = s[i]
      /\ t[Len(s) + 1] = e
  BY SMTT(30)
<1>. HIDE DEF t
<1>2. \A i \in DOMAIN t : i \in DOMAIN s \/ i = Len(s) + 1
  BY SMTT(30), <1>1
<1>3. DOMAIN s \subseteq DOMAIN t /\ Len(s) + 1 \in DOMAIN t
  BY SMTT(30), <1>1
<1>4. Elements(t) = Elements(s) \cup {e}
  BY Zenon, <1>1, <1>2, <1>3 DEF Elements
<1>5. NoTwice(t, done)
  BY Zenon, <1>1, <1>2 DEF NoTwice, Elements
<1>. QED
  BY Zenon, <1>1, <1>4, <1>5 DEF t

LEMMA TailOnce ==
    ASSUME NEW S, NEW s \in Seq(S), s # << >>, NEW done, NoTwice(s, done)
    PROVE  /\ Tail(s) \in Seq(S) /\ Head(s) \in S
           /\ Elements(s) = Elements(Tail(s)) \cup {Head(s)}
           /\ NoTwice(Tail(s), done)
           /\ Fresh(Head(s), done) => Head(s) \notin Elements(Tail(s))
<1>. DEFINE t == Tail(s)
<1>1. /\ t \in Seq(S) /\ Head(s) = s[1] /\ s[1] \in S
      /\ 1 \in DOMAIN s
      /\ \A i \in DOMAIN t : i + 1 \in DOMAIN s /\ i + 1 # 1 /\ t[i] = s[i + 1]
      /\ \A i \in DOMAIN s : i = 1 \/ (i - 1 \in DOMAIN t /\ t[i - 1] = s[i])
  BY SMTT(30)
<1>2. \A i, j \in DOMAIN t : i + 1 = j + 1 => i = j
  BY SMTT(30)
<1>. HIDE DEF t
<1>3. Elements(s) = Elements(t) \cup {s[1]}
  <2>1. \A x \in Elements(s) : x \in Elements(t) \/ x = s[1]
    BY SMTT(30), <1>1 DEF Elements
  <2>2. \A x \in Elements(t) : x \in Elements(s)
    BY SMTT(30), <1>1 DEF Elements
  <2>3. s[1] \in Elements(s)
    BY Zenon, <1>1 DEF Elements
  <2>. QED
    BY Zenon, <2>1, <2>2, <2>3
<1>4. NoTwice(t, done)
  <2>. SUFFICES ASSUME NEW i \in DOMAIN t, NEW j \in DOMAIN t, t[i] = t[j], Fresh(t[i], done)
                PROVE  i = j
    BY Zenon DEF NoTwice
  <2>1. PICK a, b : a = i + 1 /\ b = j + 1
    BY Zenon
  <2>2. a \in DOMAIN s /\ b \in DOMAIN s /\ t[i] = s[a] /\ t[j] = s[b]
    BY Zenon, <1>1, <2>1
  <2>3. a = b
    BY Zenon, <2>2 DEF NoTwice
  <2>. QED
    BY Zenon, <1>2, <2>1, <2>3
<1>5. Fresh(s[1], done) => s[1] \notin Elements(t)
  BY SMTT(30), <1>1 DEF NoTwice, Elements
<1>. QED
  BY Zenon, <1>1, <1>3, <1>4, <1>5 DEF t

\* VecDeque::remove.
LEMMA RemoveOnce ==
    ASSUME NEW S, NEW s \in Seq(S), NEW i \in DOMAIN s, NEW done, NoTwice(s, done)
    PROVE  LET t == SubSeq(s, 1, i - 1) \o SubSeq(s, i + 1, Len(s))
           IN  /\ t \in Seq(S)
               /\ Elements(s) = Elements(t) \cup {s[i]}
               /\ NoTwice(t, done)
               /\ Fresh(s[i], done) => s[i] \notin Elements(t)
<1>. DEFINE a == SubSeq(s, 1, i - 1)  b == SubSeq(s, i + 1, Len(s))  t == a \o b
<1>0. i \in 1 .. Len(s) /\ Len(s) \in Nat /\ DOMAIN s = 1 .. Len(s)
  OBVIOUS
<1>1. /\ a \in Seq(S) /\ Len(a) = i - 1
      /\ \A j \in 1 .. i - 1 : a[j] = s[j]
  BY <1>0
<1>2. /\ b \in Seq(S) /\ Len(b) = Len(s) - i
      /\ \A j \in 1 .. Len(s) - i : b[j] = s[i + j]
  BY SMTT(30), <1>0
<1>. HIDE DEF a, b
<1>3. /\ t \in Seq(S) /\ DOMAIN t = 1 .. Len(s) - 1
      /\ \A j \in 1 .. Len(s) - 1 : t[j] = IF j < i THEN s[j] ELSE s[j + 1]
  <2>1. t \in Seq(S) /\ DOMAIN t = 1 .. Len(s) - 1
    <3>0. a \in Seq(S) /\ b \in Seq(S)
      BY Zenon, <1>1, <1>2
    <3>1. t \in Seq(S) /\ Len(t) = Len(a) + Len(b)
      BY SMTT(30), <3>0
    <3>2. DOMAIN t = 1 .. Len(t)
      BY SMTT(30), <3>1
    <3>3. Len(a) + Len(b) = Len(s) - 1
      BY SMTT(30), <1>0, <1>1, <1>2
    <3>. QED
      BY Zenon, <3>1, <3>2, <3>3
  <2>2. \A j \in 1 .. i - 1 : t[j] = a[j]
    BY SMTT(30), <1>0, <1>1, <1>2
  <2>3. \A j \in i .. Len(s) - 1 : t[j] = b[j - (i - 1)]
    BY SMTT(30), <1>0, <1>1, <1>2
  <2>4. ASSUME NEW j \in 1 .. Len(s) - 1, ~(j < i) PROVE t[j] = s[j + 1]
    <3>1. j \in i .. Len(s) - 1 /\ j - (i - 1) \in 1 .. Len(s) - i
      BY SMTT(30), <1>0, <2>4
    <3>2. i + (j - (i - 1)) = j + 1
      BY SMTT(30), <1>0
    <3>. QED
      BY Zenon, <1>2, <2>3, <3>1, <3>2
  <2>5. ASSUME NEW j \in 1 .. Len(s) - 1, j < i PROVE t[j] = s[j]
    BY SMTT(30), <1>0, <1>1, <2>2, <2>5
  <2>. HIDE DEF t
  <2>. QED
    BY Zenon, <2>1, <2>4, <2>5
<1>. HIDE DEF t
<1>. DEFINE from(j) == IF j < i THEN j ELSE j + 1
<1>4. /\ \A j \in DOMAIN t : from(j) \in DOMAIN s /\ from(j) # i /\ t[j] = s[from(j)]
      /\ \A j, k \in DOMAIN t : from(j) = from(k) => j = k
      /\ \A k \in DOMAIN s : k = i \/ \E j \in DOMAIN t : from(j) = k
  <2>1. \A j \in DOMAIN t : from(j) \in DOMAIN s /\ from(j) # i /\ t[j] = s[from(j)]
    BY SMTT(30), <1>0, <1>3
  <2>2. \A j, k \in DOMAIN t : from(j) = from(k) => j = k
    BY SMTT(30), <1>0, <1>3
  <2>3. ASSUME NEW k \in DOMAIN s, k # i PROVE \E j \in DOMAIN t : from(j) = k
    <3>1. CASE k < i
      BY SMTT(30), <1>0, <1>3, <3>1
    <3>2. CASE k > i
      <4>1. k - 1 \in DOMAIN t /\ from(k - 1) = k
        BY SMTT(30), <1>0, <1>3, <3>2
      <4>. QED
        BY Zenon, <4>1
    <3>. QED
      BY SMTT(30), <1>0, <2>3, <3>1, <3>2
  <2>. QED
    BY Zenon, <2>1, <2>2, <2>3
<1>. HIDE DEF from
<1>5. Elements(s) = Elements(t) \cup {s[i]}
  <2>1. \A x \in Elements(s) : x \in Elements(t) \/ x = s[i]
    BY SMTT(30), <1>4 DEF Elements
  <2>2. \A x \in Elements(t) : x \in Elements(s)
    BY SMTT(30), <1>4 DEF Elements
  <2>3. s[i] \in Elements(s)
    BY Zenon DEF Elements
  <2>. QED
    BY Zenon, <2>1, <2>2, <2>3
<1>6. NoTwice(t, done)
  BY Zenon, <1>4 DEF NoTwice
<1>7. Fresh(s[i], done) => s[i] \notin Elements(t)
  BY Zenon, <1>4 DEF NoTwice, Elements
<1>. QED
  BY Zenon, <1>3, <1>5, <1>6, <1>7 DEF t, a, b

Manager == [pc : {"wait", "resume", "scan"}, wake : Nat \cup {None}, pushed : OnHold \cup {None}]

PlacesTyped ==
    /\ chan \in [Nodes -> Seq(OnHold \cup {Reload})]
    /\ parked \in [Nodes -> Seq(OnHold)]
    /\ mgr \in [Nodes -> Manager]

\* Every entry of the node is in one place only.
PlacedOnce(n) ==
    /\ NoTwice(parked[n], overran)
    /\ NoTwice(chan[n], overran)
    /\ \A h \in OnHold : Fresh(h, overran) =>
         /\ h \in Elements(parked[n]) => h # mgr[n].pushed /\ h \notin Elements(chan[n])
         /\ h = mgr[n].pushed => h \notin Elements(chan[n])

NodeHolds(n) ==
    /\ mgr[n].pc = "wait" => mgr[n].pushed = None
    /\ \A h \in OnHoldAt(n) : h.node = n /\ (h.ev.id \notin overran => h \in held)
    /\ PlacedOnce(n)

Covered == \A h \in held : \E n \in Nodes : h \in OnHoldAt(n)

HoldInv == PlacesTyped /\ Covered /\ \A n \in Nodes : NodeHolds(n)

LEMMA PlacesAreHolds ==
    ASSUME PlacesTyped, NEW n \in Nodes
    PROVE  /\ OnHoldAt(n) \subseteq OnHold
           /\ Elements(parked[n]) \subseteq OnHold
           /\ None \notin OnHold
<1>1. None \notin OnHold
  BY Zenon, ManagerAssumption
<1>2. \A i \in DOMAIN parked[n] : parked[n][i] \in OnHold
  BY SMTT(30) DEF PlacesTyped
<1>3. \A i \in DOMAIN chan[n] : chan[n][i] \in OnHold \cup {Reload}
  BY SMTT(30) DEF PlacesTyped
<1>4. mgr[n].pushed \in OnHold \cup {None}
  BY Zenon DEF PlacesTyped, Manager
<1>. QED
  BY Zenon, <1>1, <1>2, <1>3, <1>4 DEF OnHoldAt, Elements

\* A node whose entries stay where they are; it may be sent a Reload.
LEMMA HoldsStay ==
    ASSUME PlacesTyped, NEW n \in Nodes, NodeHolds(n),
           parked'[n] = parked[n], mgr'[n].pushed = mgr[n].pushed,
           mgr'[n].pc = "wait" => mgr[n].pc = "wait",
           chan'[n] = chan[n] \/ chan'[n] = Append(chan[n], Reload),
           overran \subseteq overran',
           \A h \in held : h.node = n => h \in held'
    PROVE  NodeHolds(n)' /\ OnHoldAt(n)' = OnHoldAt(n)
<1>1. chan[n] \in Seq(OnHold \cup {Reload})
  BY Zenon DEF PlacesTyped
<1>2. NoTwice(chan[n], overran) /\ ~Fresh(Reload, overran)
  BY Zenon DEF NodeHolds, PlacedOnce, Fresh, Reload
<1>3. /\ NoTwice(chan'[n], overran)
      /\ Elements(chan'[n]) = Elements(chan[n]) \/ Elements(chan'[n]) = Elements(chan[n]) \cup {Reload}
  <2>1. /\ NoTwice(Append(chan[n], Reload), overran)
        /\ Elements(Append(chan[n], Reload)) = Elements(chan[n]) \cup {Reload}
    <3>1. Reload \in OnHold \cup {Reload}
      BY Zenon
    <3>2. Fresh(Reload, overran) => Reload \notin Elements(chan[n])
      BY Zenon, <1>2
    <3>3. NoTwice(chan[n], overran)
      BY Zenon, <1>2
    <3>. QED
      BY SMTT(30), <1>1, <3>1, <3>2, <3>3, AppendOnce
  <2>. QED
    BY Zenon, <1>2, <2>1
<1>4. \A h : Fresh(h, overran') => Fresh(h, overran) /\ h # Reload
  BY Zenon DEF Fresh, Reload
<1>5. OnHoldAt(n)' = OnHoldAt(n)
  BY Zenon, <1>3 DEF OnHoldAt
<1>6. PlacedOnce(n)'
  BY Zenon, <1>3, <1>4 DEF NodeHolds, PlacedOnce, NoTwice
<1>7. \A h \in OnHoldAt(n)' : h.node = n /\ (h.ev.id \notin overran' => h \in held')
  BY Zenon, <1>5 DEF NodeHolds
<1>. QED
  BY Zenon, <1>5, <1>6, <1>7 DEF NodeHolds

\* process_events receives a message on hold, or a Reload.
LEMMA HoldsReceived ==
    ASSUME HoldInv, NEW n \in Nodes, Receive(n)
    PROVE  PlacesTyped' /\ NodeHolds(n)' /\ OnHoldAt(n)' = OnHoldAt(n)
<1>1. /\ mgr[n].pc = "wait" /\ chan[n] # << >> /\ UNCHANGED <<parked, held, overran>>
      /\ chan' = [chan EXCEPT ![n] = Tail(@)]
      /\ mgr' = [mgr EXCEPT ![n].pc = "resume", ![n].pushed = Head(chan[n])]
  BY Zenon DEF Receive, vars, outcome
<1>2. PlacesTyped /\ NodeHolds(n) /\ mgr[n].pushed = None
  BY Zenon, <1>1 DEF HoldInv, NodeHolds
<1>3. chan[n] \in Seq(OnHold \cup {Reload}) /\ mgr[n] \in Manager
  BY Zenon, <1>2 DEF PlacesTyped
<1>4. /\ Tail(chan[n]) \in Seq(OnHold \cup {Reload}) /\ Head(chan[n]) \in OnHold \cup {Reload}
      /\ Elements(chan[n]) = Elements(Tail(chan[n])) \cup {Head(chan[n])}
      /\ NoTwice(Tail(chan[n]), overran)
      /\ Fresh(Head(chan[n]), overran) => Head(chan[n]) \notin Elements(Tail(chan[n]))
  BY Zenon, <1>1, <1>2, <1>3, TailOnce DEF NodeHolds, PlacedOnce
<1>5. /\ chan'[n] = Tail(chan[n]) /\ parked'[n] = parked[n]
      /\ mgr'[n].pc = "resume" /\ mgr'[n].pushed = Head(chan[n])
  BY Zenon, <1>1, <1>2 DEF PlacesTyped, Manager
<1>6. PlacesTyped'
  <2>1. chan' \in [Nodes -> Seq(OnHold \cup {Reload})]
    BY Zenon, <1>1, <1>2, <1>4 DEF PlacesTyped
  <2>2. [mgr[n] EXCEPT !.pc = "resume", !.pushed = Head(chan[n])] \in Manager
    BY Zenon, <1>3, <1>4 DEF Manager, Reload
  <2>3. mgr' = [mgr EXCEPT ![n] = [mgr[n] EXCEPT !.pc = "resume", !.pushed = Head(chan[n])]]
    BY Zenon, <1>1
  <2>4. mgr' \in [Nodes -> Manager]
    BY Zenon, <1>2, <2>2, <2>3 DEF PlacesTyped
  <2>. QED
    BY Zenon, <1>1, <1>2, <2>1, <2>4 DEF PlacesTyped
<1>7. OnHoldAt(n)' = OnHoldAt(n)
  BY Zenon, <1>2, <1>4, <1>5 DEF OnHoldAt, Reload
<1>8. PlacedOnce(n)'
  BY Zenon, <1>1, <1>2, <1>4, <1>5 DEF NodeHolds, PlacedOnce, Fresh
<1>. QED
  BY Zenon, <1>1, <1>2, <1>5, <1>6, <1>7, <1>8 DEF NodeHolds

\* next_on_hold takes an entry out of Queue::on_hold.
LEMMA HoldsResumed ==
    ASSUME HoldInv, TypeOK, NEW n \in Nodes, Resume(n)
    PROVE  /\ PlacesTyped' /\ NodeHolds(n)'
           /\ \A h \in held' : h \in held /\ (h \in OnHoldAt(n) => h \in OnHoldAt(n)')
           /\ \A h \in held : h.node # n => h \in held'
<1>1. PICK i : /\ i = Min(Resumable(n)) /\ Unhold(parked[n][i])
               /\ parked' = [parked EXCEPT ![n] = SubSeq(@, 1, i - 1) \o SubSeq(@, i + 1, Len(@))]
               /\ UNCHANGED <<chan, mgr>>
  BY Zenon DEF Resume
<1>2. PlacesTyped /\ NodeHolds(n) /\ parked[n] \in Seq(OnHold) /\ NoTwice(parked[n], overran)
  BY Zenon DEF HoldInv, PlacesTyped, NodeHolds, PlacedOnce
<1>3. i \in DOMAIN parked[n]
  <2>1. Resumable(n) \subseteq DOMAIN parked[n] /\ Resumable(n) # {}
    BY Zenon DEF Resume, Resumable
  <2>2. DOMAIN parked[n] \subseteq Nat
    BY SMTT(30), <1>2
  <2>. QED
    BY Zenon, <1>1, <2>1, <2>2, MinNat
<1>. DEFINE s == parked[n]  t == SubSeq(s, 1, i - 1) \o SubSeq(s, i + 1, Len(s))
<1>4. /\ t \in Seq(OnHold)
      /\ Elements(s) = Elements(t) \cup {s[i]}
      /\ NoTwice(t, overran)
      /\ Fresh(s[i], overran) => s[i] \notin Elements(t)
  BY Zenon, <1>2, <1>3, RemoveOnce
<1>. HIDE DEF s, t
<1>5. parked' = [parked EXCEPT ![n] = t] /\ parked'[n] = t
  BY Zenon, <1>1, <1>2 DEF PlacesTyped, s, t
<1>6. held' = held \ {s[i]} /\ s[i] \in held /\ UNCHANGED overran /\ parked[n] = s
  BY Zenon, <1>1 DEF Unhold, s
<1>7. PlacesTyped'
  BY Zenon, <1>1, <1>2, <1>4, <1>5 DEF PlacesTyped
<1>8. PlacedOnce(n)'
  BY Zenon, <1>1, <1>2, <1>4, <1>5, <1>6 DEF NodeHolds, PlacedOnce
<1>9. s[i] \in OnHoldAt(n) /\ s[i].node = n /\ s[i] \in OnHold
  <2>1. s[i] \in OnHoldAt(n)
    BY Zenon, <1>4, <1>6 DEF OnHoldAt
  <2>. QED
    BY Zenon, <1>2, <2>1, PlacesAreHolds DEF NodeHolds
<1>10. ASSUME NEW h \in OnHoldAt(n)' PROVE h.node = n /\ (h.ev.id \notin overran' => h \in held')
  <2>1. h \in OnHoldAt(n)
    BY Zenon, <1>1, <1>4, <1>5, <1>6 DEF OnHoldAt
  <2>2. h.node = n /\ (h.ev.id \notin overran => h \in held) /\ h \in OnHold
    BY Zenon, <1>2, <2>1, PlacesAreHolds DEF NodeHolds
  <2>3. ASSUME h.ev.id \notin overran, h = s[i] PROVE FALSE
    <3>1. Fresh(h, overran) /\ h \in Elements(parked[n])
      BY Zenon, <1>4, <1>6, <2>2, <2>3, ManagerAssumption DEF Fresh
    <3>2. h # mgr[n].pushed /\ h \notin Elements(chan[n])
      BY Zenon, <1>2, <2>2, <3>1 DEF NodeHolds, PlacedOnce
    <3>3. h \notin Elements(t)
      BY Zenon, <1>4, <2>3, <3>1
    <3>. QED
      BY Zenon, <1>1, <1>5, <3>2, <3>3 DEF OnHoldAt
  <2>. QED
    BY Zenon, <1>6, <2>2, <2>3
<1>11. ASSUME NEW h \in held', h \in OnHoldAt(n) PROVE h \in OnHoldAt(n)'
  BY Zenon, <1>1, <1>4, <1>5, <1>6, <1>11 DEF OnHoldAt
<1>12. NodeHolds(n)'
  BY Zenon, <1>1, <1>2, <1>8, <1>10 DEF NodeHolds
<1>. QED
  BY Zenon, <1>6, <1>7, <1>9, <1>11, <1>12

LEMMA NextWakeUpTyped ==
    ASSUME TypeOK
    PROVE  NextWakeUp \in Nat \cup {None}
<1>1. {e.due : e \in Later} \in SUBSET Nat
  BY SMTT(30) DEF TypeOK, Later, Event
<1>2. Later # {} => {e.due : e \in Later} # {}
  BY Zenon
<1>3. Later # {} => Min({e.due : e \in Later}) \in Nat
  BY Zenon, <1>1, <1>2, MinNat
<1>. QED
  BY Zenon, <1>3 DEF NextWakeUp

\* on_hold: the entry that was received is appended to Queue::on_hold.
LEMMA HoldsParked ==
    ASSUME HoldInv, TypeOK, NEW n \in Nodes, Scan(n)
    PROVE  PlacesTyped' /\ NodeHolds(n)' /\ OnHoldAt(n)' = OnHoldAt(n) /\ UNCHANGED held
<1>. DEFINE q == mgr[n].pushed
            next == [pc |-> "wait", wake |-> NextWakeUp, pushed |-> None]
            t == IF q = None THEN parked[n] ELSE Append(parked[n], q)
<1>1. /\ UNCHANGED <<chan, held, overran>>
      /\ mgr' = [mgr EXCEPT ![n] = next]
      /\ parked' = [parked EXCEPT ![n] = t]
  BY Zenon DEF Scan, Spawn, vars, outcome
<1>2. PlacesTyped /\ NodeHolds(n) /\ parked[n] \in Seq(OnHold) /\ q \in OnHold \cup {None}
  BY Zenon DEF HoldInv, PlacesTyped, Manager
<1>3. /\ NoTwice(parked[n], overran)
      /\ Fresh(q, overran) => q \notin Elements(parked[n]) /\ q \notin Elements(chan[n])
  BY Zenon, <1>2 DEF NodeHolds, PlacedOnce, Fresh
<1>4. /\ t \in Seq(OnHold) /\ NoTwice(t, overran)
      /\ Elements(t) = Elements(parked[n]) \cup ({q} \ {None})
  <2>1. CASE q = None
    BY Zenon, <1>2, <1>3, <2>1
  <2>2. CASE q # None
    <3>1. q \in OnHold /\ (Fresh(q, overran) => q \notin Elements(parked[n]))
      BY Zenon, <1>2, <1>3, <2>2
    <3>2. /\ Append(parked[n], q) \in Seq(OnHold) /\ NoTwice(Append(parked[n], q), overran)
          /\ Elements(Append(parked[n], q)) = Elements(parked[n]) \cup {q}
      BY SMTT(30), <1>2, <1>3, <3>1, AppendOnce
    <3>. QED
      BY Zenon, <2>2, <3>2
  <2>. QED
    BY Zenon, <2>1, <2>2
<1>5. next \in Manager
  <2>1. NextWakeUp \in Nat \cup {None}
    BY Zenon, NextWakeUpTyped
  <2>. QED
    BY Zenon, <2>1 DEF Manager
<1>6. next.pushed = None /\ next.pc = "wait"
  BY Zenon
<1>. HIDE DEF next, t
<1>7. mgr'[n] = next /\ parked'[n] = t /\ chan'[n] = chan[n]
  BY Zenon, <1>1, <1>2 DEF PlacesTyped
<1>8. PlacesTyped'
  BY Zenon, <1>1, <1>2, <1>4, <1>5 DEF PlacesTyped
<1>9. OnHoldAt(n)' = OnHoldAt(n)
  BY Zenon, <1>4, <1>6, <1>7 DEF OnHoldAt
<1>10. PlacedOnce(n)'
  <2>1. NoTwice(parked'[n], overran') /\ NoTwice(chan'[n], overran')
    BY Zenon, <1>1, <1>2, <1>4, <1>7 DEF NodeHolds, PlacedOnce
  <2>2. ASSUME NEW h \in OnHold, Fresh(h, overran)
        PROVE  /\ h # None
               /\ h \in Elements(t) => h \notin Elements(chan[n])
    BY Zenon, <1>2, <1>3, <1>4, <2>2 DEF NodeHolds, PlacedOnce, Fresh
  <2>. QED
    BY Zenon, <1>1, <1>6, <1>7, <2>1, <2>2 DEF PlacedOnce
<1>. QED
  BY Zenon, <1>1, <1>2, <1>6, <1>7, <1>8, <1>9, <1>10 DEF NodeHolds

\* queue_tx.send: an attempt that was limited sends its entry.
LEMMA HoldsSent ==
    ASSUME IInv, OwnersApart, HoldInv, NEW w \in Workers, Finish(w), att[w].hold # {},
           NEW n \in Nodes, n = att[w].node
    PROVE  /\ PlacesTyped' /\ NodeHolds(n)' /\ UNCHANGED <<parked, mgr, overran>>
           /\ \A o \in Nodes \ {n} : chan'[o] = chan[o]
           /\ held \subseteq held' /\ OnHoldAt(n) \subseteq OnHoldAt(n)'
           /\ \A h \in held' : h \in held \/ h \in OnHoldAt(n)'
<1>. DEFINE h0 == HoldEntry(att[w])  t == Append(chan[n], h0)
<1>0. TypeOK
  BY Zenon DEF IInv
<1>1. /\ att[w].pc = "notify" /\ held' = held \cup {h0}
      /\ chan' = [chan EXCEPT ![n] = t]
      /\ UNCHANGED <<parked, mgr, overran>>
  BY Zenon DEF Finish, Notify, Send
<1>3. h0 \in OnHold
  <2>1. TypeOK'
    BY Zenon, <1>0, TypeStepLoop, TypeStepWrite, TypeStepBegin DEF Finish, Attempt
  <2>. QED
    BY Zenon, <1>1, <2>1 DEF TypeOK
<1>4. h0.node = n /\ h0.ev = att[w].ev /\ h0 # None
  BY Zenon, <1>3, ManagerAssumption DEF HoldEntry
<1>. HIDE DEF h0
<1>5. PlacesTyped /\ NodeHolds(n) /\ chan[n] \in Seq(OnHold \cup {Reload}) /\ NoTwice(chan[n], overran)
  BY Zenon DEF HoldInv, PlacesTyped, NodeHolds, PlacedOnce
<1>6. Fresh(h0, overran) => h0 \notin OnHoldAt(n)
  <2>. SUFFICES ASSUME h0.ev.id \notin overran, h0 \in held PROVE FALSE
    BY Zenon, <1>5 DEF NodeHolds, Fresh
  <2>1. Owns(w)
    BY Zenon, <1>1 DEF Owns
  <2>. QED
    BY Zenon, <1>4, <2>1 DEF OwnersApart
<1>7. Fresh(h0, overran) => h0 \notin Elements(chan[n])
  BY Zenon, <1>4, <1>6 DEF OnHoldAt, Reload
<1>8. /\ t \in Seq(OnHold \cup {Reload}) /\ NoTwice(t, overran)
      /\ Elements(t) = Elements(chan[n]) \cup {h0}
  <2>1. h0 \in OnHold \cup {Reload}
    BY Zenon, <1>3
  <2>. QED
    BY SMTT(30), <1>5, <1>7, <2>1, AppendOnce
<1>. HIDE DEF t
<1>9. /\ chan'[n] = t /\ parked'[n] = parked[n] /\ mgr'[n] = mgr[n]
      /\ \A o \in Nodes \ {n} : chan'[o] = chan[o]
  BY Zenon, <1>1, <1>5 DEF PlacesTyped
<1>10. PlacesTyped'
  BY Zenon, <1>1, <1>5, <1>8 DEF PlacesTyped
<1>11. OnHoldAt(n)' = OnHoldAt(n) \cup {h0}
  BY Zenon, <1>4, <1>8, <1>9 DEF OnHoldAt, Reload
<1>12. PlacedOnce(n)'
  <2>1. NoTwice(parked'[n], overran') /\ NoTwice(chan'[n], overran')
    BY Zenon, <1>1, <1>5, <1>8, <1>9 DEF NodeHolds, PlacedOnce
  <2>2. Fresh(h0, overran) => h0 \notin Elements(parked[n]) /\ h0 # mgr[n].pushed
    BY Zenon, <1>4, <1>6 DEF OnHoldAt
  <2>3. ASSUME NEW h \in OnHold, Fresh(h, overran)
        PROVE  /\ h \in Elements(parked[n]) => h # mgr[n].pushed /\ h \notin Elements(t)
               /\ h = mgr[n].pushed => h \notin Elements(t)
    BY Zenon, <1>5, <1>8, <2>2, <2>3 DEF NodeHolds, PlacedOnce
  <2>. QED
    BY Zenon, <1>1, <1>9, <2>1, <2>3 DEF PlacedOnce
<1>13. NodeHolds(n)'
  BY Zenon, <1>1, <1>4, <1>5, <1>9, <1>11, <1>12 DEF NodeHolds
<1>. QED
  BY Zenon, <1>1, <1>9, <1>10, <1>11, <1>13

\* A step in which only the node n moves entries.
LEMMA HoldsElsewhere ==
    ASSUME HoldInv, NEW n \in Nodes, PlacesTyped', NodeHolds(n)', overran \subseteq overran',
           \A o \in Nodes \ {n} :
             /\ parked'[o] = parked[o] /\ mgr'[o] = mgr[o]
             /\ chan'[o] = chan[o] \/ chan'[o] = Append(chan[o], Reload),
           \A h \in held : h.node # n => h \in held',
           \A h \in held' : h \in OnHoldAt(n)' \/ (h \in held /\ h \notin OnHoldAt(n))
    PROVE  HoldInv'
<1>1. ASSUME NEW o \in Nodes \ {n} PROVE NodeHolds(o)' /\ OnHoldAt(o)' = OnHoldAt(o)
  BY Zenon, HoldsStay DEF HoldInv
<1>2. \A o \in Nodes : NodeHolds(o)'
  BY Zenon, <1>1
<1>3. ASSUME NEW h \in held' PROVE \E o \in Nodes : h \in OnHoldAt(o)'
  <2>1. CASE h \in OnHoldAt(n)'
    BY Zenon, <2>1
  <2>2. CASE h \in held /\ h \notin OnHoldAt(n)
    <3>1. PICK o \in Nodes : h \in OnHoldAt(o)
      BY Zenon, <2>2 DEF HoldInv, Covered
    <3>2. o # n
      BY Zenon, <2>2, <3>1
    <3>. QED
      BY Zenon, <1>1, <3>1, <3>2
  <2>. QED
    BY Zenon, <1>3, <2>1, <2>2
<1>. QED
  BY Zenon, <1>2, <1>3 DEF HoldInv, Covered

\* A step in which no entry moves.
LEMMA HoldsUntouched ==
    ASSUME HoldInv, PlacesTyped', overran \subseteq overran', UNCHANGED <<held, parked>>,
           \A n \in Nodes :
             /\ mgr'[n].pushed = mgr[n].pushed
             /\ mgr'[n].pc = "wait" => mgr[n].pc = "wait"
             /\ chan'[n] = chan[n] \/ chan'[n] = Append(chan[n], Reload)
    PROVE  HoldInv'
<1>1. ASSUME NEW n \in Nodes PROVE NodeHolds(n)' /\ OnHoldAt(n)' = OnHoldAt(n)
  BY Zenon, HoldsStay DEF HoldInv
<1>. QED
  BY Zenon, <1>1 DEF HoldInv, Covered

LEMMA HoldsStep ==
    ASSUME IInv, OwnersApart, HoldInv, [MNext]_mvars
    PROVE  HoldInv'
<1>0. TypeOK /\ PlacesTyped
  BY Zenon DEF IInv, HoldInv
<1>1. ASSUME UNCHANGED <<chan, parked, mgr, held>>, overran \subseteq overran' PROVE HoldInv'
  BY Zenon, <1>0, <1>1, HoldsUntouched DEF PlacesTyped
<1>2. CASE UNCHANGED mvars \/ (\E m \in Ids : HasQuota(m) /\ UNCHANGED manager) \/ GiveUp
           \/ (\E n \in Nodes : Drop(n))
  BY Zenon, <1>1, <1>2 DEF mvars, vars, manager, outcome, HasQuota, GiveUp, LockBusy, Drop
<1>3. CASE Clock
  BY Zenon, <1>1, <1>3 DEF Clock, Tick, manager
<1>4. ASSUME NEW w \in Workers, Run(w) PROVE HoldInv'
  <2>1. UNCHANGED manager /\ Attempt(w) /\ ~Notify(w)
    BY Zenon, <1>4 DEF Run, Notify
  <2>2. UNCHANGED <<held, overran>>
    BY Zenon, <1>0, <2>1, AttemptClasses DEF IInv, Kept, Gives, TryLock
  <2>. QED
    BY Zenon, <1>1, <2>1, <2>2 DEF manager
\* A Reload is sent to the node n.
<1>5. ASSUME NEW n \in Nodes, Send(n, Reload) \/ UNCHANGED chan, UNCHANGED <<held, overran, parked, mgr>>
      PROVE  HoldInv'
  <2>1. CASE UNCHANGED chan
    BY Zenon, <1>1, <1>5, <2>1
  <2>2. CASE Send(n, Reload)
    <3>1. chan' = [chan EXCEPT ![n] = Append(chan[n], Reload)]
      BY Zenon, <2>2 DEF Send
    <3>2. Append(chan[n], Reload) \in Seq(OnHold \cup {Reload})
      BY SMTT(30), <1>0 DEF PlacesTyped
    <3>3. PlacesTyped'
      BY Zenon, <1>0, <1>5, <3>1, <3>2 DEF PlacesTyped
    <3>4. \A o \in Nodes : chan'[o] = chan[o] \/ chan'[o] = Append(chan[o], Reload)
      BY Zenon, <1>0, <3>1 DEF PlacesTyped
    <3>. QED
      BY Zenon, <1>5, <3>3, <3>4, HoldsUntouched
  <2>. QED
    BY Zenon, <1>5, <2>1, <2>2
<1>6. ASSUME NEW m \in Ids, NEW n \in Nodes, QueueOn(m, n) PROVE HoldInv'
  BY Zenon, <1>5, <1>6 DEF QueueOn, Queue
<1>7. ASSUME NEW w \in Workers, Finish(w) PROVE HoldInv'
  <2>0. PICK n \in Nodes : n = att[w].node
    BY Zenon, <1>0, <1>7 DEF Finish, Notify, TypeOK, AttRec, Consistent
  <2>1. CASE att[w].hold = {}
    <3>1. Send(n, Reload) /\ UNCHANGED <<held, overran, parked, mgr>>
      BY Zenon, <1>7, <2>0, <2>1 DEF Finish, Notify
    <3>. QED
      BY Zenon, <1>5, <3>1
  <2>2. CASE att[w].hold # {}
    <3>1. /\ PlacesTyped' /\ NodeHolds(n)' /\ UNCHANGED <<parked, mgr, overran>>
          /\ \A o \in Nodes \ {n} : chan'[o] = chan[o]
          /\ held \subseteq held' /\ OnHoldAt(n) \subseteq OnHoldAt(n)'
          /\ \A h \in held' : h \in held \/ h \in OnHoldAt(n)'
      BY Zenon, <1>7, <2>0, <2>2, HoldsSent
    <3>. QED
      BY Zenon, <3>1, HoldsElsewhere
  <2>. QED
    BY Zenon, <2>1, <2>2
<1>8. ASSUME NEW n \in Nodes, Manage(n) PROVE HoldInv'
  <2>1. CASE Receive(n)
    <3>1. /\ UNCHANGED <<held, overran, parked>>
          /\ \A o \in Nodes \ {n} : chan'[o] = chan[o] /\ mgr'[o] = mgr[o]
      BY Zenon, <1>0, <2>1 DEF Receive, vars, outcome, PlacesTyped
    <3>2. PlacesTyped' /\ NodeHolds(n)' /\ OnHoldAt(n)' = OnHoldAt(n)
      BY Zenon, <2>1, HoldsReceived
    <3>. QED
      BY Zenon, <3>1, <3>2, HoldsElsewhere
  <2>2. ASSUME NEW to \in {"resume", "scan"}, mgr' = [mgr EXCEPT ![n].pc = to],
               UNCHANGED <<vars, chan, parked>>
        PROVE  HoldInv'
    <3>1. mgr[n] \in Manager
      BY Zenon, <1>0 DEF PlacesTyped
    <3>2. [mgr[n] EXCEPT !.pc = to] \in Manager
      BY Zenon, <3>1 DEF Manager
    <3>3. mgr' \in [Nodes -> Manager]
      BY Zenon, <1>0, <2>2, <3>2 DEF PlacesTyped
    <3>4. PlacesTyped' /\ UNCHANGED <<held, overran>>
      BY Zenon, <1>0, <2>2, <3>3 DEF PlacesTyped, vars, outcome
    <3>5. \A o \in Nodes : mgr'[o].pushed = mgr[o].pushed /\ (mgr'[o].pc = "wait" => mgr[o].pc = "wait")
      BY Zenon, <1>0, <2>2 DEF PlacesTyped, Manager
    <3>. QED
      BY Zenon, <2>2, <3>4, <3>5, HoldsUntouched
  <2>3. CASE WakeUp(n) \/ NothingToResume(n)
    BY Zenon, <2>2, <2>3 DEF WakeUp, NothingToResume
  <2>4. CASE Resume(n)
    <3>1. /\ UNCHANGED <<overran, chan, mgr>>
          /\ \A o \in Nodes \ {n} : parked'[o] = parked[o]
      BY Zenon, <1>0, <2>4 DEF Resume, Unhold, PlacesTyped
    <3>2. /\ PlacesTyped' /\ NodeHolds(n)'
          /\ \A h \in held' : h \in held /\ (h \in OnHoldAt(n) => h \in OnHoldAt(n)')
          /\ \A h \in held : h.node # n => h \in held'
      BY Zenon, <1>0, <2>4, HoldsResumed
    <3>. QED
      BY Zenon, <3>1, <3>2, HoldsElsewhere
  <2>5. CASE Scan(n)
    <3>1. /\ UNCHANGED <<overran, chan>>
          /\ \A o \in Nodes \ {n} : parked'[o] = parked[o] /\ mgr'[o] = mgr[o]
      BY Zenon, <1>0, <2>5 DEF Scan, Spawn, vars, outcome, PlacesTyped
    <3>2. PlacesTyped' /\ NodeHolds(n)' /\ OnHoldAt(n)' = OnHoldAt(n) /\ UNCHANGED held
      BY Zenon, <1>0, <2>5, HoldsParked
    <3>. QED
      BY Zenon, <3>1, <3>2, HoldsElsewhere
  <2>. QED
    BY Zenon, <1>8, <2>1, <2>3, <2>4, <2>5 DEF Manage
<1>9. ASSUME NEW n \in Nodes, CrashAndRestart(n) PROVE HoldInv'
  <2>1. /\ held' = {h \in held : h.node # n} /\ UNCHANGED <<now, overran>>
        /\ parked' = [parked EXCEPT ![n] = << >>]
        /\ mgr' = [mgr EXCEPT ![n] = Started]
    BY Zenon, <1>9 DEF CrashAndRestart, Crash
  <2>2. PICK noticed \in SUBSET (Nodes \ {n}) :
          chan' = [o \in Nodes |-> IF o = n THEN << >>
                                   ELSE IF o \in noticed /\ Len(chan[o]) < ChanCapacity
                                   THEN Append(chan[o], Reload) ELSE chan[o]]
    BY Zenon, <1>9 DEF CrashAndRestart
  <2>3. /\ chan'[n] = << >> /\ parked'[n] = << >> /\ mgr'[n] = Started
        /\ \A o \in Nodes \ {n} : parked'[o] = parked[o] /\ mgr'[o] = mgr[o]
    BY Zenon, <1>0, <2>1, <2>2 DEF PlacesTyped
  <2>4. \A o \in Nodes \ {n} : chan'[o] = chan[o] \/ chan'[o] = Append(chan[o], Reload)
    BY Zenon, <2>2
  <2>5. PlacesTyped'
    <3>1. Started \in Manager
      BY Zenon, <1>0 DEF Started, Manager, TypeOK
    <3>2. \A o \in Nodes : chan[o] \in Seq(OnHold \cup {Reload})
      BY Zenon, <1>0 DEF PlacesTyped
    <3>3. \A o \in Nodes : Append(chan[o], Reload) \in Seq(OnHold \cup {Reload})
      BY SMTT(30), <3>2
    <3>4. << >> \in Seq(OnHold) /\ << >> \in Seq(OnHold \cup {Reload})
      BY SMTT(30)
    <3>5. chan' \in [Nodes -> Seq(OnHold \cup {Reload})]
      <4>1. \A o \in Nodes : chan'[o] \in Seq(OnHold \cup {Reload})
        BY Zenon, <2>3, <2>4, <3>2, <3>3, <3>4
      <4>. QED
        BY Zenon, <2>2, <4>1
    <3>. QED
      BY Zenon, <1>0, <2>1, <3>1, <3>4, <3>5 DEF PlacesTyped
  <2>6. Elements(<< >>) = {}
    BY SMTT(30) DEF Elements
  <2>7. Started.pushed = None
    BY Zenon DEF Started
  <2>8. OnHoldAt(n)' = {}
    BY Zenon, <2>3, <2>6, <2>7 DEF OnHoldAt
  <2>9. NodeHolds(n)'
    <3>1. NoTwice(<< >>, overran)
      BY SMTT(30) DEF NoTwice
    <3>2. PlacedOnce(n)'
      BY Zenon, <2>1, <2>3, <2>6, <3>1 DEF PlacedOnce
    <3>. QED
      BY Zenon, <2>3, <2>7, <2>8, <3>2 DEF NodeHolds
  <2>10. \A h \in held' : h \in held /\ h \notin OnHoldAt(n)
    BY Zenon, <2>1 DEF HoldInv, NodeHolds
  <2>. QED
    BY Zenon, <2>1, <2>3, <2>4, <2>5, <2>9, <2>10, HoldsElsewhere
<1>. QED
  BY Zenon, <1>2, <1>3, <1>4, <1>6, <1>7, <1>8, <1>9 DEF MNext

\* process_events, on_hold and next_on_hold lose no message on hold, for any number of
\* nodes, messages and limiters; and unless an attempt outlived its lock, they have no
\* message on hold twice.
THEOREM HoldsAreTracked == MSpec => []HeldTracked
<1>1. MInit => OwnersApart /\ HoldInv
  <2>. SUFFICES ASSUME MInit PROVE OwnersApart /\ HoldInv
    BY Zenon
  <2>1. /\ held = {} /\ now = 1 /\ \A w \in Workers : ~Owns(w)
        /\ chan = [n \in Nodes |-> << >>] /\ parked = [n \in Nodes |-> << >>]
        /\ mgr = [n \in Nodes |-> Started]
    BY Zenon DEF MInit, Init, Idle, Active, Owns
  <2>2. Started.pushed = None
    BY Zenon DEF Started
  <2>3. Elements(<< >>) = {} /\ NoTwice(<< >>, overran)
    BY SMTT(30) DEF Elements, NoTwice
  <2>4. \A n \in Nodes : chan[n] = << >> /\ parked[n] = << >> /\ mgr[n] = Started
    BY Zenon, <2>1
  <2>5. \A n \in Nodes : OnHoldAt(n) = {}
    BY Zenon, <2>2, <2>3, <2>4 DEF OnHoldAt
  <2>6. \A n \in Nodes : NodeHolds(n)
    BY Zenon, <2>2, <2>3, <2>4, <2>5 DEF NodeHolds, PlacedOnce
  <2>7. PlacesTyped
    BY SMTT(30), <2>1 DEF PlacesTyped, Started, Manager
  <2>. QED
    BY Zenon, <2>1, <2>6, <2>7 DEF OwnersApart, HoldInv, Covered
<1>2. IInv /\ OwnersApart /\ HoldInv /\ [MNext]_mvars => OwnersApart' /\ HoldInv'
  BY Zenon, StepImplements, OwnersStep, HoldsStep
<1>3. HoldInv => HeldTracked
  BY Zenon DEF HoldInv, Covered, NodeHolds, HeldTracked
<1>. QED
  BY <1>1, <1>2, <1>3, ManagersImplementQueue, Inductive, PTL DEF MSpec, ManagesQueue
=============================================================================
