-------------------------- MODULE SmtpQueueProofs ---------------------------
(***************************************************************************)
(* Proofs about SmtpQueue, for any number of nodes, workers, messages,     *)
(* domains and recipients, any schedule and any clock bound.               *)
(*                                                                         *)
(* First, the operators of QueueMessage: what they return is a message     *)
(* again, and what they do to the statuses of domains and recipients; from *)
(* them, type correctness.                                                 *)
(*                                                                         *)
(* Then the locks.  A lock token is a copy of a locked event: an attempt   *)
(* carries one from try_lock_event on, and passes it to the on-hold list   *)
(* and from there to a new task.  While a lock has not expired, its token  *)
(* is in one place only and the event in the store is the token's; so      *)
(* nobody else passes the compare-and-swap.                                *)
(***************************************************************************)
EXTENDS SmtpQueue, WellFoundedInduction, TLAPS

-----------------------------------------------------------------------------
(* Times.                                                                  *)

\* A set of times has an earliest one, which next_event and its relatives return.
LEMMA MinNat ==
    ASSUME NEW S \in SUBSET Nat, S # {}
    PROVE  Min(S) \in S /\ \A y \in S : Min(S) <= y
<1>1. \E x \in S : \A y \in S : ~(<<y, x>> \in OpToRel(<, Nat))
  BY Zenon, NatLessThanWellFounded, WFMin
<1>2. PICK x \in S : \A y \in S : ~(<<y, x>> \in OpToRel(<, Nat))
  BY Zenon, <1>1
<1>3. OpToRel(<, Nat) = {ss \in Nat \X Nat : ss[1] < ss[2]}
  BY Zenon DEF OpToRel
<1>4. \A y \in S : ~(<<y, x>> \in {ss \in Nat \X Nat : ss[1] < ss[2]})
  BY <1>2, <1>3, Zenon
<1>5. ASSUME NEW y \in S PROVE x <= y
  <2>1. ~(y < x)
    BY <1>4, Zenon
  <2>. QED
    BY <2>1
<1>. QED
  BY Zenon, <1>5 DEF Min

LEMMA TimesNat ==
    ASSUME NEW m \in Message
    PROVE  /\ Times(m) \in SUBSET Nat
           /\ PendingDomains(m) # {} => Times(m) # {}
BY SMTT(30) DEF Times, PendingDomains, Message, DomainRec

\* next_event is a time exactly when a domain is pending.
LEMMA NextEventType ==
    ASSUME NEW m \in Message
    PROVE  /\ NextEvent(m) \in Nat \cup {None}
           /\ NextEvent(m) # None <=> PendingDomains(m) # {}
<1>1. CASE PendingDomains(m) = {}
  BY <1>1 DEF NextEvent
<1>2. CASE PendingDomains(m) # {}
  <2>1. Min(Times(m)) \in Nat
    BY <1>2, TimesNat, MinNat
  <2>. QED
    BY Zenon, <1>2, <2>1, MessageAssumption DEF NextEvent
<1>. QED
  BY <1>1, <1>2

LEMMA NextDeliveryEventType ==
    ASSUME NEW m \in Message, NEW t \in Nat
    PROVE  NextDeliveryEvent(m, t) \in Nat
<1>1. CASE PendingDomains(m) = {}
  BY <1>1 DEF NextDeliveryEvent
<1>2. CASE PendingDomains(m) # {}
  <2>1. /\ {m.domain[d].retry : d \in PendingDomains(m)} \in SUBSET Nat
        /\ {m.domain[d].retry : d \in PendingDomains(m)} # {}
    BY <1>2 DEF PendingDomains, Message, DomainRec
  <2>2. Min({m.domain[d].retry : d \in PendingDomains(m)}) \in Nat
    BY Zenon, <2>1, MinNat
  <2>. QED
    BY <1>2, <2>2 DEF NextDeliveryEvent
<1>. QED
  BY <1>1, <1>2

LEMMA NextEventAfterType ==
    ASSUME NEW m \in Message, NEW t \in Nat
    PROVE  NextEventAfter(m, t) \in Nat \cup {None}
<1>. DEFINE later == {x \in Times(m) : x > t}
<1>1. CASE later = {}
  BY <1>1 DEF NextEventAfter
<1>2. CASE later # {}
  <2>1. later \in SUBSET Nat
    BY TimesNat
  <2>2. Min(later) \in Nat
    BY <1>2, <2>1, MinNat
  <2>. QED
    BY <1>2, <2>2 DEF NextEventAfter
<1>. QED
  BY <1>1, <1>2

-----------------------------------------------------------------------------
(* Every operation returns a message.                                      *)

LEMMA NewMessageType ==
    ASSUME NEW t \in Nat, NEW keys \in SUBSET QuotaIds
    PROVE  /\ NewMessage(t, keys) \in Message
           /\ NextEvent(NewMessage(t, keys)) \in Nat
<1>1. NotifyDelays[1] \in Nat
  BY SMTT(30), MessageAssumption
<1>2. NewMessage(t, keys) \in Message
  BY SMTT(30), <1>1, MessageAssumption DEF NewMessage, Message, DomainRec, Status
<1>3. PendingDomains(NewMessage(t, keys)) # {}
  <2>1. 1 \in Domains
    BY SMTT(30), MessageAssumption DEF Domains
  <2>2. NewMessage(t, keys).domain[1].status = "scheduled"
    BY Zenon, <2>1 DEF NewMessage
  <2>. QED
    BY <2>1, <2>2 DEF PendingDomains, InFinalState
<1>. QED
  BY <1>2, <1>3, NextEventType

\* has_pending_delivery fails expired domains and, in them, deferred recipients; it
\* touches nothing else.
LEMMA HasPendingDeliveryType ==
    ASSUME NEW m \in Message, NEW t \in Nat
    PROVE  /\ HasPendingDelivery(m, t) \in Message
           /\ HasPendingDelivery(m, t).dsn = m.dsn
           /\ \A r \in Rcpts :
                \/ HasPendingDelivery(m, t).rcpt[r] = m.rcpt[r]
                \/ /\ HasPendingDelivery(m, t).rcpt[r] = "perm" /\ m.rcpt[r] = "temp"
                   /\ DomainOf[r] \in PendingDomains(m) /\ m.domain[DomainOf[r]].expires <= t
           /\ \A d \in Domains :
                \/ HasPendingDelivery(m, t).domain[d].status = m.domain[d].status
                \/ /\ HasPendingDelivery(m, t).domain[d].status = "perm"
                   /\ d \in PendingDomains(m) /\ m.domain[d].expires <= t
<1>. DEFINE expired == {d \in PendingDomains(m) : m.domain[d].expires <= t}
            doms == [d \in Domains |-> IF d \in expired THEN [m.domain[d] EXCEPT !.status = "perm"]
                                                        ELSE m.domain[d]]
            stats == [r \in Rcpts |-> IF DomainOf[r] \in expired THEN IntoPermanent(m.rcpt[r])
                                                               ELSE m.rcpt[r]]
<1>1. doms \in [Domains -> DomainRec]
  BY SMTT(30) DEF Message, DomainRec, Status
<1>2. stats \in [Rcpts -> Status]
  BY DEF Message, Status, IntoPermanent
<1>3. HasPendingDelivery(m, t) = [m EXCEPT !.domain = doms, !.rcpt = stats]
  BY DEF HasPendingDelivery
<1>4. \A r \in Rcpts : stats[r] = m.rcpt[r]
                        \/ (stats[r] = "perm" /\ m.rcpt[r] = "temp" /\ DomainOf[r] \in expired)
  <2>. SUFFICES ASSUME NEW r \in Rcpts
                PROVE  stats[r] = m.rcpt[r]
                        \/ (stats[r] = "perm" /\ m.rcpt[r] = "temp" /\ DomainOf[r] \in expired)
    BY Zenon
  <2>. HIDE DEF expired
  <2>1. stats[r] = IF DomainOf[r] \in expired THEN IntoPermanent(m.rcpt[r]) ELSE m.rcpt[r]
    OBVIOUS
  <2>. QED
    BY Zenon, <2>1 DEF IntoPermanent
<1>5. \A d \in Domains : doms[d].status = m.domain[d].status
                          \/ (doms[d].status = "perm" /\ d \in expired)
  <2>. SUFFICES ASSUME NEW d \in Domains
                PROVE  doms[d].status = m.domain[d].status \/ (doms[d].status = "perm" /\ d \in expired)
    OBVIOUS
  <2>. HIDE DEF expired
  <2>1. doms[d] = IF d \in expired THEN [m.domain[d] EXCEPT !.status = "perm"] ELSE m.domain[d]
    BY Zenon
  <2>2. m.domain[d] \in DomainRec
    BY DEF Message
  <2>. QED
    BY Zenon, <2>1, <2>2 DEF DomainRec
<1>. HIDE DEF doms, stats
<1>6. /\ HasPendingDelivery(m, t) \in Message
      /\ HasPendingDelivery(m, t).rcpt = stats
      /\ HasPendingDelivery(m, t).domain = doms /\ HasPendingDelivery(m, t).dsn = m.dsn
  BY Zenon, <1>1, <1>2, <1>3 DEF Message
<1>. QED
  BY Zenon, <1>4, <1>5, <1>6

LEMMA RetryType ==
    ASSUME NEW dom \in DomainRec, NEW t \in Nat
    PROVE  Retry(dom, t) \in DomainRec
<1>1. dom.attempts + 1 \in Nat /\ dom.attempts + 1 >= 1
  BY SMTT(30) DEF DomainRec
<1>2. Len(RetryDelays) \in Nat /\ Len(RetryDelays) >= 1
  BY SMTT(30), MessageAssumption
<1>3. Min({dom.attempts + 1, Len(RetryDelays)}) \in {dom.attempts + 1, Len(RetryDelays)}
  BY Zenon, <1>1, <1>2, MinNat
<1>4. Min({dom.attempts + 1, Len(RetryDelays)}) <= Len(RetryDelays)
  BY Zenon, <1>1, <1>2, MinNat
<1>. DEFINE delay == RetryDelays[Min({dom.attempts + 1, Len(RetryDelays)})]
<1>5. delay \in Nat
  BY SMTT(30), <1>1, <1>2, <1>3, <1>4, MessageAssumption
<1>6. Retry(dom, t) = [dom EXCEPT !.retry = t + delay, !.attempts = dom.attempts + 1]
  BY DEF Retry
<1>7. t + delay \in Nat
  BY SMTT(30), <1>5
<1>. HIDE DEF delay
<1>. QED
  BY Zenon, <1>1, <1>6, <1>7 DEF DomainRec

LEMMA SetStatusType ==
    ASSUME NEW dom \in DomainRec, NEW s \in Status, NEW t \in Nat
    PROVE  SetStatus(dom, s, t) \in DomainRec /\ SetStatus(dom, s, t).status = s
<1>. DEFINE changed == [dom EXCEPT !.status = s]
<1>1. changed \in DomainRec /\ changed.status = s
  BY DEF DomainRec
<1>2. Retry(changed, t) \in DomainRec
  BY Zenon, <1>1, RetryType
<1>3. Retry(changed, t).status = s
  BY Zenon, <1>1 DEF Retry, DomainRec
<1>. QED
  BY Zenon, <1>1, <1>2, <1>3 DEF SetStatus

\* A message with one domain replaced.
Replaced(m, rcpt, d, dom) == [m EXCEPT !.rcpt = rcpt, !.domain[d] = dom]

LEMMA ReplacedType ==
    ASSUME NEW m \in Message, NEW rcpt \in [Rcpts -> Status],
           NEW d \in Domains, NEW dom \in DomainRec
    PROVE  /\ Replaced(m, rcpt, d, dom) \in Message
           /\ Replaced(m, rcpt, d, dom).rcpt = rcpt /\ Replaced(m, rcpt, d, dom).dsn = m.dsn
           /\ Replaced(m, rcpt, d, dom).domain[d] = dom
           /\ \A x \in Domains \ {d} : Replaced(m, rcpt, d, dom).domain[x] = m.domain[x]
<1>. DEFINE doms == [m.domain EXCEPT ![d] = dom]
<1>1. doms \in [Domains -> DomainRec] /\ doms[d] = dom /\ \A x \in Domains \ {d} : doms[x] = m.domain[x]
  BY DEF Message
<1>2. Replaced(m, rcpt, d, dom) = [m EXCEPT !.rcpt = rcpt, !.domain = doms]
  BY Zenon DEF Message, Replaced
<1>. HIDE DEF doms
<1>. QED
  BY Zenon, <1>1, <1>2 DEF Message

\* The end of a session: the domain is completed exactly when all its recipients
\* are final.
LEMMA DeliverDoneType ==
    ASSUME NEW m \in Message, NEW d \in Domains, NEW t \in Nat,
           NEW ans \in [PendingRcpts(m, d) -> Status]
    PROVE  /\ DeliverDone(m, d, ans, t) \in Message
           /\ DeliverDone(m, d, ans, t).dsn = m.dsn
           /\ DeliverDone(m, d, ans, t).rcpt =
                [r \in Rcpts |-> IF r \in PendingRcpts(m, d) THEN ans[r] ELSE m.rcpt[r]]
           /\ \A x \in Domains \ {d} : DeliverDone(m, d, ans, t).domain[x] = m.domain[x]
           /\ InFinalState(DeliverDone(m, d, ans, t).domain[d].status) =>
                \A r \in Rcpts : DomainOf[r] = d => InFinalState(DeliverDone(m, d, ans, t).rcpt[r])
<1>. DEFINE rcpt == [r \in Rcpts |-> IF r \in PendingRcpts(m, d) THEN ans[r] ELSE m.rcpt[r]]
            done == \A r \in Rcpts : DomainOf[r] = d => InFinalState(rcpt[r])
            s    == IF done THEN "completed" ELSE "scheduled"
            dom  == SetStatus(m.domain[d], s, t)
<1>1. rcpt \in [Rcpts -> Status]
  BY Zenon DEF PendingRcpts, Message
<1>2. s \in Status
  BY Zenon DEF Status
<1>3. dom \in DomainRec /\ dom.status = s
  BY Zenon, <1>2, SetStatusType DEF Message
<1>4. DeliverDone(m, d, ans, t) = Replaced(m, rcpt, d, dom)
  BY Zenon DEF DeliverDone, Replaced
<1>5. InFinalState(s) => done
  BY Zenon DEF InFinalState
<1>. HIDE DEF rcpt, done, s, dom
<1>6. DeliverDone(m, d, ans, t) \in Message
  BY SMTT(30), <1>1, <1>3, <1>4, ReplacedType
<1>7. DeliverDone(m, d, ans, t).rcpt = rcpt /\ DeliverDone(m, d, ans, t).dsn = m.dsn
  BY SMTT(30), <1>1, <1>3, <1>4, ReplacedType
<1>8. /\ DeliverDone(m, d, ans, t).domain[d] = dom
      /\ \A x \in Domains \ {d} : DeliverDone(m, d, ans, t).domain[x] = m.domain[x]
  BY SMTT(30), <1>1, <1>3, <1>4, ReplacedType
<1>9. InFinalState(DeliverDone(m, d, ans, t).domain[d].status) =>
         \A r \in Rcpts : DomainOf[r] = d => InFinalState(DeliverDone(m, d, ans, t).rcpt[r])
  BY Zenon, <1>3, <1>5, <1>7, <1>8 DEF done
<1>. QED
  BY Zenon, <1>6, <1>7, <1>8, <1>9 DEF rcpt

\* A session cut short: the answered recipients and the domain change, nothing else.
LEMMA DeliverFailedType ==
    ASSUME NEW m \in Message, NEW d \in Domains, NEW t \in Nat, NEW s \in Status,
           NEW A, NEW ans \in [A -> Status]
    PROVE  /\ DeliverFailed(m, d, ans, s, t) \in Message
           /\ DeliverFailed(m, d, ans, s, t).dsn = m.dsn
           /\ DeliverFailed(m, d, ans, s, t).rcpt =
                [r \in Rcpts |-> IF r \in A THEN ans[r] ELSE m.rcpt[r]]
           /\ \A x \in Domains \ {d} : DeliverFailed(m, d, ans, s, t).domain[x] = m.domain[x]
           /\ DeliverFailed(m, d, ans, s, t).domain[d].status = s
<1>. DEFINE rcpt == [r \in Rcpts |-> IF r \in A THEN ans[r] ELSE m.rcpt[r]]
            dom  == SetStatus(m.domain[d], s, t)
<1>1. rcpt \in [Rcpts -> Status]
  BY Zenon DEF Message
<1>2. dom \in DomainRec /\ dom.status = s
  BY Zenon, SetStatusType DEF Message
<1>3. DeliverFailed(m, d, ans, s, t) = Replaced(m, rcpt, d, dom)
  BY Zenon DEF DeliverFailed, Replaced
<1>. HIDE DEF rcpt, dom
<1>4. DeliverFailed(m, d, ans, s, t) \in Message
  BY SMTT(30), <1>1, <1>2, <1>3, ReplacedType
<1>5. /\ DeliverFailed(m, d, ans, s, t).rcpt = rcpt /\ DeliverFailed(m, d, ans, s, t).dsn = m.dsn
      /\ DeliverFailed(m, d, ans, s, t).domain[d] = dom
      /\ \A x \in Domains \ {d} : DeliverFailed(m, d, ans, s, t).domain[x] = m.domain[x]
  BY SMTT(30), <1>1, <1>2, <1>3, ReplacedType
<1>. QED
  BY Zenon, <1>2, <1>4, <1>5 DEF rcpt

LEMMA ThrottleType ==
    ASSUME NEW m \in Message, NEW d \in Domains, NEW at \in Nat
    PROVE  /\ ThrottleConcurrency(m, d) \in Message
           /\ ThrottleConcurrency(m, d).rcpt = m.rcpt /\ ThrottleConcurrency(m, d).dsn = m.dsn
           /\ ThrottleConcurrency(m, d).domain[d].status = "temp"
           /\ \A x \in Domains \ {d} : ThrottleConcurrency(m, d).domain[x] = m.domain[x]
           /\ ThrottleRate(m, d, at) \in Message
           /\ ThrottleRate(m, d, at).rcpt = m.rcpt /\ ThrottleRate(m, d, at).dsn = m.dsn
           /\ ThrottleRate(m, d, at).domain[d].status = "temp"
           /\ \A x \in Domains \ {d} : ThrottleRate(m, d, at).domain[x] = m.domain[x]
<1>. DEFINE busy == [m.domain[d] EXCEPT !.status = "temp"]
            late == [m.domain[d] EXCEPT !.status = "temp", !.retry = at]
<1>1. /\ busy \in DomainRec /\ busy.status = "temp"
      /\ late \in DomainRec /\ late.status = "temp"
  BY Zenon DEF Message, DomainRec, Status
<1>2. /\ ThrottleConcurrency(m, d) = Replaced(m, m.rcpt, d, busy)
      /\ ThrottleRate(m, d, at) = Replaced(m, m.rcpt, d, late)
  BY Zenon DEF ThrottleConcurrency, ThrottleRate, Replaced, Message
<1>3. m.rcpt \in [Rcpts -> Status] /\ m.domain \in [Domains -> DomainRec]
  BY DEF Message
<1>. HIDE DEF busy, late
<1>4. ASSUME NEW dom \in DomainRec, dom.status = "temp"
      PROVE  /\ Replaced(m, m.rcpt, d, dom) \in Message
             /\ Replaced(m, m.rcpt, d, dom).rcpt = m.rcpt /\ Replaced(m, m.rcpt, d, dom).dsn = m.dsn
             /\ Replaced(m, m.rcpt, d, dom).domain[d].status = "temp"
             /\ \A x \in Domains \ {d} : Replaced(m, m.rcpt, d, dom).domain[x] = m.domain[x]
  BY SMTT(30), <1>3, <1>4, ReplacedType
<1>. QED
  BY Zenon, <1>1, <1>2, <1>4

\* build_dsn and handle_double_bounce change flags and notification times only.
LEMMA DsnType ==
    ASSUME NEW m \in Message, NEW t \in Nat
    PROVE  /\ BuildDsn(m, t) \in Message
           /\ BuildDsn(m, t).rcpt = m.rcpt
           /\ BuildDsn(m, t).dsn = m.dsn \cup DsnFailure(m) \cup DsnSuccess(m)
           /\ \A x \in Domains : BuildDsn(m, t).domain[x].status = m.domain[x].status
           /\ HandleDoubleBounce(m) \in Message
           /\ HandleDoubleBounce(m).rcpt = m.rcpt
           /\ HandleDoubleBounce(m).dsn = m.dsn \cup DsnFailure(m)
           /\ HandleDoubleBounce(m).domain = m.domain
<1>1. DsnFailure(m) \cup DsnSuccess(m) \subseteq Rcpts
  BY Zenon DEF DsnFailure, DsnSuccess, DsnCandidates
<1>2. ASSUME NEW dom \in DomainRec
      PROVE  NextNotify(dom, t) \in DomainRec /\ NextNotify(dom, t).status = dom.status
  <2>1. CASE dom.notified + 2 <= Len(NotifyDelays)
    <3>1. NotifyDelays[dom.notified + 2] \in Nat
      BY SMTT(30), <2>1, MessageAssumption DEF DomainRec
    <3>. DEFINE next == t + NotifyDelays[dom.notified + 2]
    <3>2. next \in Nat /\ dom.notified + 1 \in Nat
      BY <3>1 DEF DomainRec
    <3>3. NextNotify(dom, t) = [dom EXCEPT !.notify = next, !.notified = dom.notified + 1]
      BY <2>1 DEF NextNotify
    <3>. HIDE DEF next
    <3>. QED
      BY Zenon, <3>2, <3>3 DEF DomainRec
  <2>2. CASE ~(dom.notified + 2 <= Len(NotifyDelays))
    BY SMTT(30), <2>2 DEF NextNotify, DomainRec
  <2>. QED
    BY Zenon, <2>1, <2>2
<1>. DEFINE doms == [d \in Domains |-> IF /\ DsnDelay(m, t) # {}
                                          /\ d \in PendingDomains(m)
                                          /\ m.domain[d].notify <= t
                                       THEN NextNotify(m.domain[d], t)
                                       ELSE m.domain[d]]
            dsn  == m.dsn \cup DsnFailure(m) \cup DsnSuccess(m)
<1>3. doms \in [Domains -> DomainRec] /\ \A x \in Domains : doms[x].status = m.domain[x].status
  BY Zenon, <1>2 DEF Message
<1>4. BuildDsn(m, t) = [m EXCEPT !.dsn = dsn, !.domain = doms]
  BY Zenon DEF BuildDsn
<1>5. dsn \in SUBSET Rcpts
  BY Zenon, <1>1 DEF Message
<1>. HIDE DEF doms, dsn
<1>6. /\ BuildDsn(m, t) \in Message
      /\ BuildDsn(m, t).rcpt = m.rcpt /\ BuildDsn(m, t).dsn = dsn
      /\ BuildDsn(m, t).domain = doms
  BY Zenon, <1>3, <1>4, <1>5 DEF Message
<1>7. /\ HandleDoubleBounce(m) \in Message
      /\ HandleDoubleBounce(m).rcpt = m.rcpt
      /\ HandleDoubleBounce(m).dsn = m.dsn \cup DsnFailure(m)
      /\ HandleDoubleBounce(m).domain = m.domain
  BY Zenon, <1>1 DEF HandleDoubleBounce, Message
<1>. QED
  BY <1>3, <1>6, <1>7 DEF dsn

LEMMA ReleaseQuotaType ==
    ASSUME NEW m \in Message
    PROVE  /\ ReleaseQuota(m) \in Message
           /\ ReleaseQuota(m).rcpt = m.rcpt /\ ReleaseQuota(m).dsn = m.dsn
           /\ ReleaseQuota(m).domain = m.domain
           /\ ReleaseQuota(m).quota \subseteq m.quota
BY Zenon DEF ReleaseQuota, Message

-----------------------------------------------------------------------------
(* Types of the queue.                                                     *)

AttOK(a) == a \in AttRec /\ Consistent(a)

LEMMA SetAtt ==
    ASSUME TypeOK, NEW w \in Workers, NEW a, AttOK(a), att' = [att EXCEPT ![w] = a]
    PROVE  att' \in [Workers -> AttRec] /\ \A v \in Workers : Consistent(att'[v])
BY Zenon DEF TypeOK, AttOK

LEMMA IdleOK == AttOK(Idle)
BY Zenon DEF AttOK, AttRec, Idle, PC, Consistent, Limiters

\* What TypeOK says of a running attempt.
LEMMA RunningOK ==
    ASSUME TypeOK, NEW w \in Workers, att[w].pc # "idle"
    PROVE  /\ AttOK(att[w])
           /\ att[w].node \in Nodes
           /\ att[w].ev \in Event
           /\ att[w].ev.id \in Ids /\ att[w].ev.due \in Nat /\ att[w].ev.lock \in Nat
           /\ att[w].pc # "fetch" => att[w].msg \in Message
BY Zenon DEF TypeOK, AttOK, Consistent, Event

LEMMA EventOps ==
    ASSUME TypeOK, NEW due \in Nat, NEW id \in Ids, NEW lock \in Nat,
           NEW evs \in SUBSET Event
    PROVE  /\ ClearEvent(due, id) \in SUBSET Event
           /\ SetEvent(evs, due, id, lock) \in SUBSET Event
BY SMTT(30) DEF TypeOK, ClearEvent, SetEvent, Event

StoreOK ==
    /\ events \subseteq Event
    /\ messages \in [Ids -> Message \cup {None}]
    /\ links \subseteq Ids
    /\ counters \in [QuotaIds -> Int]

LEMMA SaveChangesOK ==
    ASSUME TypeOK, NEW id \in Ids, NEW m \in Message, NEW prev \in Nat, NEW next \in Nat,
           Write(id, SaveChanges(id, m, prev, next))
    PROVE  StoreOK' /\ interrupted' \subseteq Ids
<1>1. ReleaseQuota(m) \in Message
  BY ReleaseQuotaType
<1>2. SetEvent(ClearEvent(prev, id), next, id, 0) \in SUBSET Event
  BY EventOps
<1>. QED
  BY ZenonT(40), <1>1, <1>2, MessageAssumption DEF TypeOK, StoreOK, Write, SaveChanges, store

LEMMA SaveOnHoldOK ==
    ASSUME TypeOK, NEW id \in Ids, NEW m \in Message,
           Write(id, SaveChanges(id, m, None, None))
    PROVE  StoreOK' /\ interrupted' \subseteq Ids
BY Zenon, ReleaseQuotaType DEF TypeOK, StoreOK, Write, SaveChanges, store

LEMMA RemoveOK ==
    ASSUME TypeOK, NEW id \in Ids, NEW m \in Message, NEW prev \in Nat,
           Write(id, Remove(id, m, prev))
    PROVE  StoreOK' /\ interrupted' \subseteq Ids
<1>1. ClearEvent(prev, id) \in SUBSET Event
  BY Zenon, EventOps
<1>. QED
  BY SMTT(30), <1>1 DEF TypeOK, StoreOK, Write, Remove, store

\* The operations of QueueMessage on the message of an attempt.
LEMMA MessageOps ==
    ASSUME NEW m \in Message, NEW t \in Nat
    PROVE  /\ HasPendingDelivery(m, t) \in Message
           /\ BuildDsn(m, t) \in Message /\ HandleDoubleBounce(m) \in Message
           /\ NextEventAfter(m, t) \in Nat \cup {None}
           /\ NextDeliveryEvent(m, t) \in Nat
           /\ NextEvent(m) # None => NextEvent(m) \in Nat
BY Zenon, HasPendingDeliveryType, DsnType, NextEventAfterType, NextDeliveryEventType, NextEventType

\* An attempt at the end of a domain.
LEMMA NextDomainOK ==
    ASSUME TypeOK, NEW w \in Workers, att[w].pc \in {"deliver", "session"}, NEW m \in Message
    PROVE  NextDomain(w, m) = [att EXCEPT ![w] = [att[w] EXCEPT !.pc = "deliver", !.cur = @ + 1, !.msg = m]]
           /\ AttOK([att[w] EXCEPT !.pc = "deliver", !.cur = @ + 1, !.msg = m])
<1>1. NextDomain(w, m) = [att EXCEPT ![w] = [att[w] EXCEPT !.pc = "deliver", !.cur = @ + 1, !.msg = m]]
  BY Zenon DEF NextDomain, TypeOK
<1>2. AttOK(att[w]) /\ att[w].node \in Nodes /\ att[w].ev \in Event
  BY Zenon, RunningOK
<1>3. att[w].cur + 1 \in Nat
  BY SMTT(30), <1>2 DEF AttOK, AttRec
<1>. QED
  BY Zenon, <1>1, <1>2, <1>3 DEF AttOK, AttRec, Consistent, PC

LEMMA RefillOK ==
    ASSUME NEW m \in Message, NEW t \in Nat, NEW refill \in Refills
    PROVE  Min({t + refill} \cup ({NextEventAfter(m, t)} \ {None})) \in Nat
<1>1. refill \in Nat
  BY Zenon, QueueAssumption
<1>2. {t + refill} \cup ({NextEventAfter(m, t)} \ {None}) \in SUBSET Nat
  BY SMTT(30), <1>1, NextEventAfterType
<1>. QED
  BY Zenon, <1>1, <1>2, MinNat

\* queue, next_event, process_events, next_on_hold and the environment.
LEMMA TypeStepOutside ==
    ASSUME TypeOK,
           \/ \E m \in Ids : HasQuota(m) \/ Queue(m)
           \/ \E n \in Nodes : Spawn(n) \/ Crash(n)
           \/ \E h \in held : Unhold(h)
           \/ \E k \in tasks : LockBusy(k)
           \/ Tick
    PROVE  TypeOK'
<1>1. ASSUME NEW m \in Ids, HasQuota(m) PROVE TypeOK'
  BY Zenon, <1>1 DEF TypeOK, HasQuota, store, outcome
<1>2. ASSUME NEW m \in Ids, Queue(m) PROVE TypeOK'
  <2>1. session' \in [Ids -> {"new", "checked", "accepted", "refused"}]
    BY Zenon, <1>2 DEF TypeOK, Queue
  <2>2. CASE UNCHANGED store
    BY Zenon, <1>2, <2>1, <2>2 DEF TypeOK, Queue, store, outcome
  <2>3. ASSUME NEW release \in Releases, QueueMessageWrite(m, release) PROVE TypeOK'
    <3>. DEFINE msg == NewMessage(now + release, DOMAIN QuotaLimit)
    <3>1. now + release \in Nat /\ DOMAIN QuotaLimit \in SUBSET QuotaIds
      BY SMTT(30), QueueAssumption DEF TypeOK
    <3>2. msg \in Message /\ NextEvent(msg) \in Nat
      BY Zenon, <3>1, NewMessageType
    <3>3. SetEvent(events, NextEvent(msg), m, 0) \in SUBSET Event
      BY Zenon, <3>2, EventOps DEF TypeOK
    <3>. HIDE DEF msg
    <3>4. StoreOK'
      BY SMTT(30), <2>3, <3>2, <3>3 DEF StoreOK, TypeOK, QueueMessageWrite, msg
    <3>. QED
      BY Zenon, <1>2, <2>1, <3>4 DEF TypeOK, StoreOK, Queue, outcome
  <2>. QED
    BY Zenon, <1>2, <2>2, <2>3 DEF Queue
<1>3. ASSUME NEW n \in Nodes, Spawn(n) PROVE TypeOK'
  <2>1. {[node |-> n, ev |-> e] : e \in DueEvents} \subseteq Task
    BY SMTT(30) DEF DueEvents, Task, TypeOK
  <2>. QED
    BY Zenon, <1>3, <2>1 DEF TypeOK, Spawn, store, outcome
<1>4. ASSUME NEW n \in Nodes, Crash(n) PROVE TypeOK'
  <2>1. att' \in [Workers -> AttRec] /\ \A v \in Workers : Consistent(att'[v])
    BY Zenon, <1>4, IdleOK DEF TypeOK, Crash, AttOK
  <2>2. interrupted' \subseteq Ids
    BY SMTT(30), <1>4 DEF Crash, TypeOK, Active, Consistent, Event
  <2>. QED
    BY Zenon, <1>4, <2>1, <2>2 DEF TypeOK, Crash, store, outcome
<1>5. ASSUME NEW h \in held, Unhold(h) PROVE TypeOK'
  <2>1. [node |-> h.node, ev |-> h.ev] \in Task
    BY Zenon DEF TypeOK, OnHold, Task
  <2>. QED
    BY Zenon, <1>5, <2>1 DEF TypeOK, Unhold, store, outcome
<1>6. ASSUME NEW k \in tasks, LockBusy(k) PROVE TypeOK'
  BY Zenon, <1>6 DEF TypeOK, LockBusy, store, outcome
<1>7. ASSUME Tick PROVE TypeOK'
  <2>1. overran' \subseteq Ids
    BY SMTT(30), <1>7 DEF Tick, TypeOK, Active, Consistent, Event
  <2>2. now' \in Nat
    <3>1. now \in Nat /\ now' = now + 1
      BY Zenon, <1>7 DEF TypeOK, Tick
    <3>. QED
      BY SMTT(30), <3>1
  <2>. QED
    BY Zenon, <1>7, <2>1, <2>2 DEF TypeOK, Tick, store, outcome
<1>. QED
  BY Zenon, <1>1, <1>2, <1>3, <1>4, <1>5, <1>6, <1>7

\* try_deliver up to the decision what to do.
LEMMA TypeStepBegin ==
    ASSUME TypeOK, NEW w \in Workers,
           \/ \E k \in tasks : TryLock(k, w)
           \/ FetchNothing(w) \/ Fetch(w)
           \/ SendDsnBefore(w) \/ SendDsnAfter(w)
    PROVE  TypeOK'
<1>1. ASSUME NEW k \in tasks, TryLock(k, w) PROVE TypeOK'
  <2>. DEFINE ev == [k.ev EXCEPT !.lock = now + LockExpiry]
              a  == [Idle EXCEPT !.pc = "fetch", !.node = k.node, !.ev = ev]
  <2>1. k.node \in Nodes /\ k.ev \in Event
    BY Zenon DEF TypeOK, Task
  <2>2. now + LockExpiry \in Nat
    BY SMTT(30), QueueAssumption DEF TypeOK
  <2>3. ev \in Event
    BY Zenon, <2>1, <2>2 DEF Event
  <2>4. AttOK(a)
    BY Zenon, <2>1, <2>3, IdleOK DEF AttOK, AttRec, Consistent, Idle, PC
  <2>5. SetEvent(events, k.ev.due, k.ev.id, now + LockExpiry) \in SUBSET Event
    BY Zenon, <2>1, <2>2, EventOps DEF TypeOK, Event
  <2>6. att' = [att EXCEPT ![w] = a]
    BY Zenon, <1>1 DEF TryLock
  <2>. HIDE DEF a
  <2>7. att' \in [Workers -> AttRec] /\ \A v \in Workers : Consistent(att'[v])
    BY Zenon, <2>4, <2>6, SetAtt
  <2>. QED
    BY Zenon, <1>1, <2>5, <2>7 DEF TypeOK, TryLock, outcome
<1>2. CASE FetchNothing(w)
  <2>1. ClearEvent(att[w].ev.due, att[w].ev.id) \in SUBSET Event
    BY Zenon, <1>2, RunningOK, EventOps, QueueAssumption DEF FetchNothing, TypeOK
  <2>2. att' \in [Workers -> AttRec] /\ \A v \in Workers : Consistent(att'[v])
    BY Zenon, <1>2, IdleOK, SetAtt DEF FetchNothing
  <2>. QED
    BY Zenon, <1>2, <2>1, <2>2 DEF TypeOK, FetchNothing, outcome
<1>3. CASE Fetch(w)
  <2>. DEFINE m == messages[att[w].ev.id]
              a == [att[w] EXCEPT !.pc = "dsn", !.msg = HasPendingDelivery(m, now)]
  <2>1. AttOK(att[w]) /\ att[w].node \in Nodes /\ att[w].ev \in Event /\ att[w].ev.id \in Ids
    BY Zenon, <1>3, RunningOK DEF Fetch
  <2>2. m \in Message
    BY Zenon, <1>3, <2>1 DEF Fetch, TypeOK
  <2>3. HasPendingDelivery(m, now) \in Message
    BY Zenon, <2>2, HasPendingDeliveryType DEF TypeOK
  <2>. HIDE DEF m
  <2>4. AttOK(a)
    BY Zenon, <2>1, <2>3 DEF AttOK, AttRec, Consistent, PC
  <2>5. att' = [att EXCEPT ![w] = a]
    BY Zenon, <1>3 DEF Fetch, TypeOK, m
  <2>. HIDE DEF a
  <2>6. att' \in [Workers -> AttRec] /\ \A v \in Workers : Consistent(att'[v])
    BY Zenon, <2>4, <2>5, SetAtt
  <2>7. failed' \in [Ids -> SUBSET Rcpts]
    BY ZenonT(40), <1>3 DEF Fetch, TypeOK
  <2>. QED
    BY Zenon, <1>3, <2>6, <2>7 DEF TypeOK, Fetch, store
<1>4. ASSUME NEW to \in {"decide", "finish"}, att[w].pc \in {"dsn", "deliver"}, SendDsn(w, to)
      PROVE  TypeOK'
  <2>. DEFINE id == att[w].ev.id
              m  == att[w].msg
              m2 == IF id \in NullSender THEN HandleDoubleBounce(m) ELSE BuildDsn(m, now)
              a  == [att[w] EXCEPT !.pc = to, !.msg = m2]
  <2>1. AttOK(att[w]) /\ att[w].node \in Nodes /\ att[w].ev \in Event /\ m \in Message
    BY Zenon, <1>4, RunningOK
  <2>2. m2 \in Message
    BY Zenon, <2>1, MessageOps DEF TypeOK
  <2>3. att' = [att EXCEPT ![w] = a]
    BY Zenon, <1>4 DEF SendDsn, TypeOK
  <2>4. reported' \in [Ids -> SUBSET Rcpts]
    <3>1. DsnFailure(m) \subseteq Rcpts
      BY Zenon DEF DsnFailure, DsnCandidates
    <3>2. PICK news \in SUBSET Rcpts : reported' = [reported EXCEPT ![id] = @ \cup news]
      BY Zenon, <1>4, <3>1 DEF SendDsn
    <3>. QED
      BY Zenon, <3>2 DEF TypeOK
  <2>. HIDE DEF m2
  <2>5. AttOK(a)
    BY Zenon, <2>1, <2>2 DEF AttOK, AttRec, Consistent, PC
  <2>. HIDE DEF a
  <2>6. att' \in [Workers -> AttRec] /\ \A v \in Workers : Consistent(att'[v])
    BY Zenon, <2>3, <2>5, SetAtt
  <2>. QED
    BY SMTT(30), <1>4, <2>4, <2>6 DEF TypeOK, SendDsn, store
<1>. QED
  BY Zenon, <1>1, <1>2, <1>3, <1>4 DEF SendDsnBefore, SendDsnAfter

\* The steps that write to the store and notify the manager.
LEMMA TypeStepWrite ==
    ASSUME TypeOK, NEW w \in Workers,
           \/ RemoveExpired(w) \/ Requeue(w) \/ HoldSender(w)
           \/ \E refill \in Refills : RateLimitSender(w, refill)
           \/ FinishOnHold(w) \/ FinishIncomplete(w) \/ FinishCompleted(w)
    PROVE  TypeOK'
<1>. DEFINE a == att[w]
<1>1. a.pc \in {"decide", "finish"}
  BY Zenon DEF RemoveExpired, Requeue, HoldSender, RateLimitSender, ReadyToDeliver,
         FinishOnHold, FinishIncomplete, FinishCompleted
<1>2. /\ AttOK(a) /\ a.node \in Nodes /\ a.ev \in Event /\ a.msg \in Message
      /\ a.ev.id \in Ids /\ a.ev.due \in Nat
  BY Zenon, <1>1, RunningOK
<1>3. now \in Nat
  BY Zenon DEF TypeOK
<1>4. StoreOK' /\ interrupted' \subseteq Ids
  <2>1. CASE RemoveExpired(w) \/ FinishCompleted(w)
    BY Zenon, <1>2, <2>1, RemoveOK DEF RemoveExpired, FinishCompleted
  <2>2. CASE Requeue(w)
    BY Zenon, <1>2, <1>3, <2>2, MessageOps, SaveChangesOK DEF Requeue
  <2>3. CASE HoldSender(w) \/ FinishOnHold(w)
    BY Zenon, <1>2, <2>3, SaveOnHoldOK DEF HoldSender, FinishOnHold
  <2>4. ASSUME NEW refill \in Refills, RateLimitSender(w, refill) PROVE StoreOK' /\ interrupted' \subseteq Ids
    BY Zenon, <1>2, <1>3, <2>4, RefillOK, SaveChangesOK DEF RateLimitSender
  <2>5. CASE FinishIncomplete(w)
    BY Zenon, <1>2, <1>3, <2>5, MessageOps, SaveChangesOK DEF FinishIncomplete
  <2>. QED
    BY Zenon, <2>1, <2>2, <2>3, <2>4, <2>5
<1>5. att' \in [Workers -> AttRec] /\ \A v \in Workers : Consistent(att'[v])
  <2>1. ASSUME NEW hold \in SUBSET Limiters, NEW next \in Nat \cup {None}
        PROVE  AttOK([a EXCEPT !.pc = "notify", !.hold = hold, !.next = next])
    BY Zenon, <1>2 DEF AttOK, AttRec, Consistent, PC
  <2>2. a.hold \in SUBSET Limiters /\ a.next \in Nat \cup {None}
    BY Zenon, <1>2 DEF AttOK, AttRec
  <2>3. {SenderLimiter} \in SUBSET Limiters /\ NextEventAfter(a.msg, now) \in Nat \cup {None}
    BY Zenon, <1>2, <1>3, MessageOps DEF Limiters
  <2>4. PICK hold \in SUBSET Limiters, next \in Nat \cup {None} :
          att' = [att EXCEPT ![w] = [a EXCEPT !.pc = "notify", !.hold = hold, !.next = next]]
    <3>1. CASE HoldSender(w)
      BY Zenon, <2>3, <3>1 DEF HoldSender, TypeOK, AttRec
    <3>2. CASE FinishOnHold(w)
      <4>1. att' = [att EXCEPT ![w] = [a EXCEPT !.pc = "notify", !.next = NextEventAfter(a.msg, now)]]
        BY Zenon, <3>2 DEF FinishOnHold, TypeOK
      <4>2. [a EXCEPT !.pc = "notify", !.next = NextEventAfter(a.msg, now)] =
            [a EXCEPT !.pc = "notify", !.hold = a.hold, !.next = NextEventAfter(a.msg, now)]
        BY Zenon, <1>2 DEF AttOK, AttRec
      <4>. QED
        BY Zenon, <2>2, <2>3, <4>1, <4>2
    <3>3. CASE att' = Goto(w, "notify")
      <4>1. att' = [att EXCEPT ![w] = [a EXCEPT !.pc = "notify"]]
        BY Zenon, <3>3 DEF Goto, TypeOK
      <4>2. [a EXCEPT !.pc = "notify"] = [a EXCEPT !.pc = "notify", !.hold = a.hold, !.next = a.next]
        BY Zenon, <1>2 DEF AttOK, AttRec
      <4>. QED
        BY Zenon, <2>2, <4>1, <4>2
    <3>. QED
      BY Zenon, <3>1, <3>2, <3>3 DEF RemoveExpired, Requeue, RateLimitSender, FinishIncomplete, FinishCompleted
  <2>. QED
    BY Zenon, <2>1, <2>4, SetAtt
<1>6. UNCHANGED <<now, session, tasks, held, outcome, overran>>
  BY Zenon DEF RemoveExpired, Requeue, HoldSender, RateLimitSender, FinishOnHold, FinishIncomplete, FinishCompleted
<1>. QED
  BY Zenon, <1>4, <1>5, <1>6 DEF TypeOK, StoreOK, outcome

\* The domain loop and the notification of the manager.
LEMMA TypeStepLoop ==
    ASSUME TypeOK, NEW w \in Workers,
           \/ AdmitSender(w) \/ SkipDomain(w) \/ OpenSession(w) \/ HoldDomain(w)
           \/ \E refill \in Refills : RateLimitDomain(w, refill)
           \/ /\ att[w].pc = "session"
              /\ \/ \E ans \in [PendingRcpts(att[w].msg, att[w].cur) -> RcptAnswers] :
                       SessionDone(w, ans)
                 \/ \E ans \in Answers(PendingRcpts(att[w].msg, att[w].cur),
                                       RcptAnswers \ {"completed"}),
                       s \in DomainAnswers : SessionFailed(w, ans, s)
           \/ Notify(w)
    PROVE  TypeOK'
<1>. DEFINE a == att[w]
            AttsOK == att' \in [Workers -> AttRec] /\ \A v \in Workers : Consistent(att'[v])
<1>0. now \in Nat
  BY Zenon DEF TypeOK
<1>1. CASE AdmitSender(w)
  <2>1. AttOK(a) /\ a.node \in Nodes /\ a.ev \in Event /\ a.msg \in Message
    BY Zenon, <1>1, RunningOK DEF AdmitSender, ReadyToDeliver
  <2>2. AttOK([a EXCEPT !.pc = "deliver", !.cur = 1])
    BY Zenon, <2>1 DEF AttOK, AttRec, Consistent, PC
  <2>3. att' = [att EXCEPT ![w] = [a EXCEPT !.pc = "deliver", !.cur = 1]]
    BY Zenon, <1>1 DEF AdmitSender, TypeOK
  <2>4. AttsOK
    BY Zenon, <2>2, <2>3, SetAtt
  <2>. QED
    BY Zenon, <1>1, <2>4 DEF AdmitSender, TypeOK, store, outcome
<1>2. CASE SkipDomain(w)
  <2>1. a.msg \in Message
    BY Zenon, <1>2, RunningOK DEF SkipDomain
  <2>2. AttsOK
    BY Zenon, <1>2, <2>1, NextDomainOK, SetAtt DEF SkipDomain
  <2>. QED
    BY Zenon, <1>2, <2>2 DEF SkipDomain, TypeOK, store, outcome
<1>3. CASE OpenSession(w)
  <2>1. AttOK(a) /\ a.node \in Nodes /\ a.ev \in Event /\ a.msg \in Message
    BY Zenon, <1>3, RunningOK DEF OpenSession
  <2>2. AttOK([a EXCEPT !.pc = "session"])
    BY Zenon, <1>3, <2>1 DEF AttOK, AttRec, Consistent, PC, OpenSession, CurrentIsDue
  <2>3. att' = [att EXCEPT ![w] = [a EXCEPT !.pc = "session"]]
    BY Zenon, <1>3 DEF OpenSession, Goto, TypeOK
  <2>4. AttsOK
    BY Zenon, <2>2, <2>3, SetAtt
  <2>. QED
    BY Zenon, <1>3, <2>4 DEF OpenSession, TypeOK, store, outcome
<1>4. ASSUME CanThrottle(w)
      PROVE  /\ a.pc \in {"deliver", "session"} /\ a.cur \in Domains
             /\ AttOK(a) /\ a.msg \in Message
  BY Zenon, <1>4, RunningOK DEF CanThrottle, CurrentIsDue, TypeOK, Consistent
<1>5. CASE HoldDomain(w)
  <2>. DEFINE m == ThrottleConcurrency(a.msg, a.cur)
              b == [a EXCEPT !.pc = "deliver", !.cur = @ + 1, !.msg = m]
  <2>1. m \in Message
    BY Zenon, <1>0, <1>4, <1>5, ThrottleType DEF HoldDomain
  <2>2. NextDomain(w, m) = [att EXCEPT ![w] = b] /\ AttOK(b)
    BY Zenon, <1>4, <1>5, <2>1, NextDomainOK DEF HoldDomain
  <2>. HIDE DEF b, m
  <2>3. b.hold \cup {a.cur} \in SUBSET Limiters
    BY Zenon, <1>4, <1>5, <2>2 DEF HoldDomain, AttOK, AttRec, Limiters
  <2>4. AttOK([b EXCEPT !.hold = @ \cup {a.cur}])
    BY Zenon, <2>2, <2>3 DEF AttOK, AttRec, Consistent
  <2>5. att' = [att EXCEPT ![w] = [b EXCEPT !.hold = @ \cup {a.cur}]]
    BY Zenon, <1>5, <2>2 DEF HoldDomain, TypeOK, m
  <2>6. AttsOK
    BY Zenon, <2>4, <2>5, SetAtt
  <2>. QED
    BY Zenon, <1>5, <2>6 DEF HoldDomain, TypeOK, store, outcome
<1>6. ASSUME NEW refill \in Refills, RateLimitDomain(w, refill) PROVE TypeOK'
  <2>1. now + refill \in Nat
    BY SMTT(30), <1>0, QueueAssumption
  <2>2. ThrottleRate(a.msg, a.cur, now + refill) \in Message
    BY Zenon, <1>4, <1>6, <2>1, ThrottleType DEF RateLimitDomain
  <2>3. AttsOK
    BY Zenon, <1>4, <1>6, <2>2, NextDomainOK, SetAtt DEF RateLimitDomain
  <2>. QED
    BY Zenon, <1>6, <2>3 DEF RateLimitDomain, TypeOK, store, outcome
<1>7. ASSUME a.pc = "session"
      PROVE  a.msg \in Message /\ a.cur \in Domains
  BY Zenon, <1>7, RunningOK DEF TypeOK, Consistent
<1>8. ASSUME NEW ans \in [PendingRcpts(a.msg, a.cur) -> RcptAnswers], SessionDone(w, ans)
      PROVE  TypeOK'
  <2>1. ans \in [PendingRcpts(a.msg, a.cur) -> Status]
    BY Zenon, QueueAssumption DEF Status
  <2>2. DeliverDone(a.msg, a.cur, ans, now) \in Message
    BY ZenonT(40), <1>0, <1>7, <1>8, <2>1, DeliverDoneType DEF SessionDone
  <2>3. AttsOK
    BY ZenonT(40), <1>8, <2>2, NextDomainOK, SetAtt DEF SessionDone
  <2>4. DOMAIN ans \subseteq Rcpts
    BY Zenon DEF PendingRcpts
  <2>5. /\ delivered' \in [Ids -> SUBSET Rcpts]
        /\ duplicated' \in [Ids -> SUBSET Rcpts]
        /\ failed' \in [Ids -> SUBSET Rcpts]
    BY Zenon, <1>8, <2>4 DEF SessionDone, TypeOK
  <2>. QED
    BY Zenon, <1>8, <2>3, <2>5 DEF SessionDone, TypeOK, store
<1>9. ASSUME a.pc = "session",
             NEW T \in SUBSET PendingRcpts(a.msg, a.cur),
             NEW ans \in [T -> RcptAnswers \ {"completed"}],
             NEW s \in DomainAnswers, SessionFailed(w, ans, s)
      PROVE  TypeOK'
  <2>1. ans \in [T -> Status] /\ s \in Status
    BY Zenon, QueueAssumption DEF Status
  <2>. DEFINE m == DeliverFailed(a.msg, a.cur, ans, s, now)
  <2>2. m \in Message /\ att' = NextDomain(w, m)
    BY Zenon, <1>0, <1>7, <1>9, <2>1, DeliverFailedType DEF SessionFailed
  <2>. HIDE DEF m
  <2>3. AttsOK
    BY ZenonT(40), <1>9, <2>2, NextDomainOK, SetAtt
  <2>4. failed' \in [Ids -> SUBSET Rcpts]
    BY Zenon, <1>9 DEF SessionFailed, TypeOK, PendingRcpts
  <2>. QED
    BY Zenon, <1>9, <2>3, <2>4 DEF SessionFailed, TypeOK, store
<1>10. CASE Notify(w)
  <2>1. AttsOK
    BY Zenon, <1>10, IdleOK, SetAtt DEF Notify
  <2>2. HoldEntry(a) \in OnHold
    BY Zenon, <1>10, RunningOK DEF Notify, HoldEntry, OnHold, AttOK, AttRec
  <2>. DEFINE entries == IF a.hold = {} THEN {} ELSE {HoldEntry(a)}
  <2>3. entries \subseteq OnHold /\ held' = held \cup entries
    BY Zenon, <1>10, <2>2 DEF Notify
  <2>. HIDE DEF entries
  <2>4. held' \subseteq OnHold
    BY Zenon, <2>3 DEF TypeOK
  <2>. QED
    BY Zenon, <1>10, <2>1, <2>4 DEF Notify, TypeOK, store, outcome
<1>11. ASSUME a.pc = "session",
              NEW ans \in Answers(PendingRcpts(a.msg, a.cur), RcptAnswers \ {"completed"}),
              NEW s \in DomainAnswers, SessionFailed(w, ans, s)
       PROVE  TypeOK'
  BY Zenon, <1>9, <1>11 DEF Answers
<1>. QED
  BY Zenon, <1>1, <1>2, <1>3, <1>5, <1>6, <1>8, <1>10, <1>11

\* Type correctness of the queue: rows, tasks and attempts are always well formed;
\* in particular an event always has a due time (save_changes is only called with a
\* next event) and a running attempt its message.
THEOREM TypeCorrect == Spec => []TypeOK
<1>1. Init => TypeOK
  BY SMTT(30), IdleOK DEF Init, TypeOK, AttOK
<1>2. TypeOK /\ [Next]_vars => TypeOK'
  <2>. SUFFICES ASSUME TypeOK, [Next]_vars PROVE TypeOK'
    BY Zenon
  <2>1. CASE UNCHANGED vars
    BY Zenon, <2>1 DEF TypeOK, vars, store, outcome
  <2>2. ASSUME NEW w \in Workers, Attempt(w) PROVE TypeOK'
    BY Zenon, <2>2, TypeStepBegin, TypeStepWrite, TypeStepLoop DEF Attempt
  <2>. QED
    BY Zenon, <2>1, <2>2, TypeStepOutside DEF Next
<1>. QED
  BY <1>1, <1>2, PTL DEF Spec

\* Fetch and SendDsn change the step and the message of one attempt only.
LEMMA PcAndMsgChange ==
    ASSUME TypeOK, NEW w \in Workers, NEW pc, NEW msg,
           att' = [att EXCEPT ![w].pc = pc, ![w].msg = msg]
    PROVE  /\ \A v \in Workers \ {w} : att'[v] = att[v]
           /\ att'[w].pc = pc
           /\ att'[w].ev = att[w].ev /\ att'[w].hold = att[w].hold
           /\ att'[w].node = att[w].node /\ att'[w].cur = att[w].cur
BY ZenonT(40) DEF TypeOK, AttRec

-----------------------------------------------------------------------------
(* Locks.                                                                  *)

\* The worker has the token of its event.
Owns(w) == Active(w) \/ (att[w].pc = "notify" /\ att[w].hold # {})

Live(e) == e.lock >= now /\ e.id \notin overran

\* An attempt whose lock expired is recorded in overran.
ActiveLive == \A w \in Workers : Active(w) /\ att[w].ev.id \notin overran => att[w].ev.lock >= now

\* Only the domain loop puts an attempt on hold.
HoldLate == \A w \in Workers : att[w].pc \in {"fetch", "dsn", "decide"} => att[w].hold = {}

\* The event of a live token is stored.
TokensStored ==
    /\ \A w \in Workers : Owns(w) /\ Live(att[w].ev) => att[w].ev \in events
    /\ \A h \in held : Live(h.ev) => h.ev \in events
    /\ \A k \in tasks : Live(k.ev) => k.ev \in events

\* A live token is in one place only.
TokensDistinct ==
    /\ \A v, w \in Workers :
         v # w /\ Owns(v) /\ Owns(w) /\ Live(att[w].ev) => att[v].ev # att[w].ev
    /\ \A w \in Workers : Owns(w) /\ Live(att[w].ev) =>
         \A k \in held \cup tasks : k.ev # att[w].ev
    /\ \A h \in held : Live(h.ev) =>
         /\ \A g \in held : g.ev = h.ev => g = h
         /\ \A k \in tasks : k.ev # h.ev
    /\ \A j, k \in tasks : Live(k.ev) /\ j.ev = k.ev => j = k

OneEvent == \A e, f \in events : e.id = f.id /\ e.id \notin overran => e = f

\* Only accepted messages are in the store or in a task.
OnlyAccepted ==
    /\ \A m \in Ids : messages[m] # None \/ m \in links => session[m] = "accepted"
    /\ \A e \in events : session[e.id] = "accepted"
    /\ \A k \in held \cup tasks : session[k.ev.id] = "accepted"
    /\ \A w \in Workers : att[w].pc # "idle" => session[att[w].ev.id] = "accepted"

LockInv == ActiveLive /\ HoldLate /\ TokensStored /\ TokensDistinct /\ OneEvent

IInv == TypeOK /\ LockInv /\ OnlyAccepted

-----------------------------------------------------------------------------
(* The locks.  The steps of an attempt fall into three classes: it goes on *)
(* (or goes on hold) with its token, it ends and gives its event up, or it *)
(* does not have the token any more.                                       *)

OtherAttempts(w) == \A v \in Workers \ {w} : att'[v] = att[v]

LEMMA LockKept ==
    ASSUME TypeOK, LockInv, NEW w \in Workers, Active(w), OtherAttempts(w),
           att'[w].ev = att[w].ev, att'[w].pc # "idle",
           att'[w].pc \in {"fetch", "dsn", "decide"} => att'[w].hold = {},
           UNCHANGED <<now, events, tasks, held, overran>>
    PROVE  LockInv'
<1>1. \A v \in Workers : att'[v].ev = att[v].ev /\ (Owns(v)' => Owns(v)) /\ (Active(v)' => Active(v))
  BY Zenon DEF OtherAttempts, Owns, Active
<1>2. ActiveLive' /\ HoldLate'
  BY Zenon, <1>1 DEF LockInv, ActiveLive, HoldLate, OtherAttempts
<1>3. TokensStored'
  BY Zenon, <1>1 DEF LockInv, TokensStored, Live
<1>4. TokensDistinct'
  BY SMTT(30), <1>1 DEF LockInv, TokensDistinct, Live
<1>5. OneEvent'
  BY Zenon DEF LockInv, OneEvent
<1>. QED
  BY Zenon, <1>2, <1>3, <1>4, <1>5 DEF LockInv

\* The event of a running attempt is the message's only event, and nobody else has a
\* live token of the message.
LEMMA OwnerAlone ==
    ASSUME TypeOK, LockInv, NEW w \in Workers, Active(w), att[w].ev.id \notin overran
    PROVE  /\ att[w].ev \in events /\ Live(att[w].ev)
           /\ \A e \in events : e.id = att[w].ev.id => e = att[w].ev
           /\ \A v \in Workers \ {w} : Owns(v) /\ Live(att[v].ev) => att[v].ev.id # att[w].ev.id
           /\ \A k \in held \cup tasks : Live(k.ev) => k.ev.id # att[w].ev.id
<1>1. Live(att[w].ev)
  BY Zenon DEF LockInv, ActiveLive, Live
<1>2. att[w].ev \in events
  BY Zenon, <1>1 DEF LockInv, TokensStored, Owns
<1>3. \A e \in events : e.id = att[w].ev.id => e = att[w].ev
  BY Zenon, <1>2 DEF LockInv, OneEvent
<1>4. ASSUME NEW v \in Workers \ {w}, Owns(v), Live(att[v].ev) PROVE att[v].ev.id # att[w].ev.id
  <2>1. att[v].ev \in events
    BY Zenon, <1>4 DEF LockInv, TokensStored
  <2>2. att[v].ev # att[w].ev
    BY Zenon, <1>1, <1>4 DEF LockInv, TokensDistinct, Owns
  <2>. QED
    BY Zenon, <1>3, <2>1, <2>2
<1>5. ASSUME NEW k \in held \cup tasks, Live(k.ev) PROVE k.ev.id # att[w].ev.id
  <2>1. k.ev \in events
    BY Zenon, <1>5 DEF LockInv, TokensStored
  <2>2. k.ev # att[w].ev
    BY Zenon, <1>1 DEF LockInv, TokensDistinct, Owns
  <2>. QED
    BY Zenon, <1>3, <2>1, <2>2
<1>. QED
  BY Zenon, <1>1, <1>2, <1>3, <1>4, <1>5

\* The event rows after a write that ends the attempt w.
Given(w) ==
    \/ events' = events
    \/ events' = ClearEvent(att[w].ev.due, att[w].ev.id)
    \/ \E next \in Nat : events' = SetEvent(ClearEvent(att[w].ev.due, att[w].ev.id), next, att[w].ev.id, 0)

LEMMA LockGiven ==
    ASSUME TypeOK, LockInv, NEW w \in Workers, Active(w), OtherAttempts(w),
           att'[w].pc \in {"idle", "notify"}, att'[w].hold = {}, Given(w),
           UNCHANGED <<now, tasks, held, overran>>
    PROVE  LockInv'
<1>. DEFINE id == att[w].ev.id
<1>1. /\ ~Owns(w)' /\ ~Active(w)'
      /\ \A v \in Workers \ {w} : att'[v] = att[v] /\ (Owns(v)' <=> Owns(v)) /\ (Active(v)' <=> Active(v))
  BY Zenon DEF OtherAttempts, Owns, Active
<1>2. ActiveLive' /\ HoldLate'
  BY Zenon, <1>1 DEF LockInv, ActiveLive, HoldLate
<1>3. \A e \in events : e.id # id => e \in events'
  BY Zenon DEF Given, ClearEvent, SetEvent
<1>4. TokensStored'
  <2>1. ASSUME NEW v \in Workers, Owns(v)', Live(att[v].ev)' PROVE att'[v].ev \in events'
    <3>1. v # w /\ att'[v] = att[v] /\ Owns(v) /\ Live(att[v].ev)
      BY Zenon, <1>1, <2>1 DEF Live
    <3>2. att[v].ev \in events
      BY Zenon, <3>1 DEF LockInv, TokensStored
    <3>3. att[v].ev.id # id
      BY Zenon, <3>1, OwnerAlone DEF Live
    <3>. QED
      BY Zenon, <1>3, <3>1, <3>2, <3>3
  <2>2. ASSUME NEW k \in held \cup tasks, Live(k.ev)' PROVE k.ev \in events'
    <3>1. Live(k.ev)
      BY Zenon, <2>2 DEF Live
    <3>2. k.ev \in events
      BY Zenon, <3>1 DEF LockInv, TokensStored
    <3>3. k.ev.id # id
      BY Zenon, <3>1, OwnerAlone DEF Live
    <3>. QED
      BY Zenon, <1>3, <3>2, <3>3
  <2>. QED
    BY Zenon, <1>1, <2>1, <2>2 DEF TokensStored, Live
<1>5. TokensDistinct'
  BY ZenonT(40), <1>1 DEF LockInv, TokensDistinct, Live
<1>6. OneEvent'
  <2>. SUFFICES ASSUME NEW e \in events', NEW f \in events', e.id = f.id, e.id \notin overran
                PROVE  e = f
    BY Zenon DEF OneEvent
  <2>1. CASE e.id # id
    <3>1. e \in events /\ f \in events
      BY SMTT(30), <2>1 DEF Given, ClearEvent, SetEvent
    <3>. QED
      BY Zenon, <3>1 DEF LockInv, OneEvent
  <2>2. CASE e.id = id
    <3>1. \A g \in events : g.id = id => g = att[w].ev
      BY Zenon, <2>2, OwnerAlone
    <3>2. \A g \in ClearEvent(att[w].ev.due, id) : g.id # id
      BY Zenon, <3>1 DEF ClearEvent
    <3>3. CASE events' = events
      BY Zenon, <2>2, <3>1, <3>3
    <3>4. CASE events' = ClearEvent(att[w].ev.due, id)
      BY Zenon, <2>2, <3>2, <3>4
    <3>5. ASSUME NEW next \in Nat, events' = SetEvent(ClearEvent(att[w].ev.due, id), next, id, 0)
          PROVE  e = f
      BY Zenon, <2>2, <3>2, <3>5 DEF SetEvent
    <3>. QED
      BY Zenon, <3>3, <3>4, <3>5 DEF Given
  <2>. QED
    BY <2>1, <2>2
<1>. QED
  BY Zenon, <1>2, <1>4, <1>5, <1>6 DEF LockInv

\* try_lock_event: the new lock value is fresh.
LEMMA LockTaken ==
    ASSUME TypeOK, LockInv, NEW k \in tasks, NEW w \in Workers, TryLock(k, w)
    PROVE  LockInv'
<1>. DEFINE id == k.ev.id
            lock == now + LockExpiry
            new == [due |-> k.ev.due, id |-> id, lock |-> lock]
<1>1. /\ k.ev \in Event /\ k.ev \in events /\ k.ev.id \in Ids /\ k.ev.due \in Nat
      /\ now \in Nat /\ lock \in Nat /\ lock >= now
  BY SMTT(30), QueueAssumption DEF TypeOK, Task, Event, TryLock
<1>2. /\ att'[w].ev = new /\ att'[w].pc = "fetch" /\ att'[w].hold = {}
      /\ \A v \in Workers \ {w} : att'[v] = att[v]
      /\ events' = {e \in events : ~(e.due = k.ev.due /\ e.id = id)} \cup {new}
      /\ tasks' = tasks \ {k}
      /\ UNCHANGED <<now, held, overran>>
  BY Zenon, <1>1 DEF TryLock, SetEvent, TypeOK, Event, Idle
<1>3. \A v \in Workers \ {w} : (Owns(v)' <=> Owns(v)) /\ (Active(v)' <=> Active(v))
  BY Zenon, <1>2 DEF Owns, Active
<1>. HIDE DEF lock
<1>4. ActiveLive' /\ HoldLate'
  BY SMTT(30), <1>1, <1>2, <1>3 DEF LockInv, ActiveLive, HoldLate
<1>5. id \notin overran =>
        /\ \A e \in events : e.id = id => e = k.ev
        /\ \A v \in Workers \ {w} : Owns(v) /\ Live(att[v].ev) => att[v].ev.id # id
        /\ \A j \in held \cup (tasks \ {k}) : Live(j.ev) => j.ev.id # id
  <2>. SUFFICES ASSUME id \notin overran
                PROVE  /\ \A e \in events : e.id = id => e = k.ev
                       /\ \A v \in Workers \ {w} : Owns(v) /\ Live(att[v].ev) => att[v].ev.id # id
                       /\ \A j \in held \cup (tasks \ {k}) : Live(j.ev) => j.ev.id # id
    BY Zenon
  <2>1. \A e \in events : e.id = id => e = k.ev
    BY Zenon, <1>1 DEF LockInv, OneEvent
  <2>2. ASSUME NEW v \in Workers \ {w}, Owns(v), Live(att[v].ev) PROVE att[v].ev.id # id
    BY Zenon, <2>1, <2>2 DEF LockInv, TokensStored, TokensDistinct
  <2>3. ASSUME NEW j \in held, Live(j.ev) PROVE j.ev.id # id
    BY Zenon, <2>1, <2>3 DEF LockInv, TokensStored, TokensDistinct
  <2>4. ASSUME NEW j \in tasks \ {k}, Live(j.ev) PROVE j.ev.id # id
    BY Zenon, <2>1, <2>4 DEF LockInv, TokensStored, TokensDistinct
  <2>. QED
    BY Zenon, <2>1, <2>2, <2>3, <2>4
<1>6. \A e \in events : e.id # id => e \in events'
  BY Zenon, <1>2
<1>7. TokensStored'
  <2>1. ASSUME NEW v \in Workers \ {w}, Owns(v), Live(att[v].ev) PROVE att[v].ev \in events'
    BY Zenon, <1>5, <1>6, <2>1 DEF LockInv, TokensStored, Live
  <2>2. ASSUME NEW j \in held \cup (tasks \ {k}), Live(j.ev) PROVE j.ev \in events'
    BY Zenon, <1>5, <1>6, <2>2 DEF LockInv, TokensStored, Live
  <2>. QED
    BY Zenon, <1>2, <1>3, <2>1, <2>2 DEF TokensStored, Live
<1>8. TokensDistinct'
  <2>1. \A v \in Workers \ {w} : Owns(v) /\ Live(new) => att[v].ev # new
    BY SMTT(30), <1>5 DEF Live
  <2>2. \A j \in held \cup (tasks \ {k}) : Live(new) => j.ev # new
    BY SMTT(30), <1>5 DEF Live
  <2>3. \A x : Live(x)' <=> Live(x)
    BY Zenon, <1>2 DEF Live
  <2>. HIDE DEF new
  <2>4. \A u, v \in Workers :
          u # v /\ Owns(u)' /\ Owns(v)' /\ Live(att'[v].ev) => att'[u].ev # att'[v].ev
    BY SMTT(30), <1>2, <1>3, <2>1 DEF LockInv, TokensDistinct
  <2>5. \A v \in Workers : Owns(v)' /\ Live(att'[v].ev) => \A j \in held' \cup tasks' : j.ev # att'[v].ev
    BY ZenonT(40), <1>2, <1>3, <2>2 DEF LockInv, TokensDistinct
  <2>6. \A h \in held' : Live(h.ev) =>
          /\ \A g \in held' : g.ev = h.ev => g = h
          /\ \A j \in tasks' : j.ev # h.ev
    BY Zenon, <1>2 DEF LockInv, TokensDistinct
  <2>7. \A i, j \in tasks' : Live(j.ev) /\ i.ev = j.ev => i = j
    BY Zenon, <1>2 DEF LockInv, TokensDistinct
  <2>. QED
    BY Zenon, <1>2, <2>3, <2>4, <2>5, <2>6, <2>7 DEF TokensDistinct
<1>9. OneEvent'
  BY SMTT(30), <1>2, <1>5 DEF LockInv, OneEvent
<1>. QED
  BY Zenon, <1>4, <1>7, <1>8, <1>9 DEF LockInv

\* The token moves from the attempt to the on-hold list.
LEMMA LockHeld ==
    ASSUME TypeOK, LockInv, NEW w \in Workers, Notify(w)
    PROVE  LockInv'
<1>1. /\ \A v \in Workers \ {w} : att'[v] = att[v]
      /\ att'[w].pc = "idle"
      /\ UNCHANGED <<now, events, tasks, overran>>
  BY Zenon DEF Notify, TypeOK, store, Idle
<1>2. /\ \A v \in Workers \ {w} : (Owns(v)' <=> Owns(v)) /\ (Active(v)' <=> Active(v))
      /\ ~Owns(w)' /\ ~Active(w)'
  BY Zenon, <1>1 DEF Owns, Active
<1>3. ActiveLive' /\ HoldLate' /\ OneEvent'
  BY Zenon, <1>1, <1>2 DEF LockInv, ActiveLive, HoldLate, OneEvent
<1>4. \A x : Live(x)' <=> Live(x)
  BY Zenon, <1>1 DEF Live
<1>5. CASE held' = held
  BY Zenon, <1>1, <1>2, <1>3, <1>4, <1>5 DEF LockInv, TokensStored, TokensDistinct
<1>6. CASE held' # held
  <2>. DEFINE h == HoldEntry(att[w])
  <2>1. att[w].hold # {} /\ held' = held \cup {h}
    BY Zenon, <1>6 DEF Notify
  <2>2. h.ev = att[w].ev
    BY Zenon DEF HoldEntry
  <2>3. Owns(w)
    BY Zenon, <2>1 DEF Notify, Owns
  <2>. HIDE DEF h
  <2>4. TokensStored'
    BY ZenonT(40), <1>1, <1>2, <1>4, <2>1, <2>2, <2>3 DEF LockInv, TokensStored
  <2>5. TokensDistinct'
    BY SMTT(30), <1>1, <1>2, <1>4, <2>1, <2>2, <2>3 DEF LockInv, TokensDistinct
  <2>. QED
    BY Zenon, <1>3, <2>4, <2>5 DEF LockInv
<1>. QED
  BY Zenon, <1>5, <1>6

\* The token moves from the on-hold list to a new task.
LEMMA LockUnheld ==
    ASSUME TypeOK, LockInv, NEW h \in held, Unhold(h)
    PROVE  LockInv'
<1>. DEFINE k == [node |-> h.node, ev |-> h.ev]
<1>1. /\ held' = held \ {h} /\ tasks' = tasks \cup {k} /\ k.ev = h.ev
      /\ UNCHANGED <<now, events, att, overran>>
  BY Zenon DEF Unhold, store
<1>. HIDE DEF k
<1>2. \A x : Live(x)' <=> Live(x)
  BY Zenon, <1>1 DEF Live
<1>3. \A v \in Workers : att'[v] = att[v] /\ (Owns(v)' <=> Owns(v)) /\ (Active(v)' <=> Active(v))
  BY Zenon, <1>1 DEF Owns, Active
<1>4. ActiveLive' /\ HoldLate' /\ OneEvent'
  BY Zenon, <1>1, <1>3 DEF LockInv, ActiveLive, HoldLate, OneEvent
<1>5. TokensStored'
  BY ZenonT(40), <1>1, <1>2, <1>3 DEF LockInv, TokensStored
<1>6. TokensDistinct'
  BY SMTT(30), <1>1, <1>2, <1>3 DEF LockInv, TokensDistinct
<1>. QED
  BY Zenon, <1>4, <1>5, <1>6 DEF LockInv

\* A scan copies expired locks only.
LEMMA LockScanned ==
    ASSUME TypeOK, LockInv, NEW n \in Nodes, Spawn(n)
    PROVE  LockInv'
<1>1. UNCHANGED <<now, events, held, att, overran>> /\ tasks \subseteq tasks'
  BY Zenon DEF Spawn, store
<1>2. \A x : Live(x)' <=> Live(x)
  BY Zenon, <1>1 DEF Live
<1>3. \A v \in Workers : att'[v] = att[v] /\ (Owns(v)' <=> Owns(v)) /\ (Active(v)' <=> Active(v))
  BY Zenon, <1>1 DEF Owns, Active
<1>4. \A k \in tasks' : Live(k.ev) => k \in tasks
  BY SMTT(30) DEF Spawn, DueEvents, Live, TypeOK, Event
<1>5. ActiveLive' /\ HoldLate' /\ OneEvent'
  BY Zenon, <1>1, <1>3 DEF LockInv, ActiveLive, HoldLate, OneEvent
<1>6. TokensStored'
  BY Zenon, <1>1, <1>2, <1>3, <1>4 DEF LockInv, TokensStored
<1>7. TokensDistinct'
  BY Zenon, <1>1, <1>2, <1>3, <1>4 DEF LockInv, TokensDistinct
<1>. QED
  BY Zenon, <1>5, <1>6, <1>7 DEF LockInv

\* Tokens that are dropped, by a task that could not lock or by a crash.
LEMMA LockDropped ==
    ASSUME TypeOK, LockInv, tasks' \subseteq tasks, held' \subseteq held,
           \A w \in Workers : att'[w] \in {att[w], Idle},
           UNCHANGED <<now, events, overran>>
    PROVE  LockInv'
<1>1. \A x : Live(x)' <=> Live(x)
  BY Zenon DEF Live
<1>2. \A w \in Workers : (Owns(w)' => att'[w] = att[w] /\ Owns(w)) /\ (Active(w)' => att'[w] = att[w] /\ Active(w))
  BY SMTT(30) DEF Owns, Active, Idle
<1>3. ActiveLive' /\ HoldLate' /\ OneEvent'
  BY SMTT(30), <1>2 DEF LockInv, ActiveLive, HoldLate, OneEvent, Idle
<1>4. TokensStored'
  BY Zenon, <1>1, <1>2 DEF LockInv, TokensStored
<1>5. TokensDistinct'
  BY Zenon, <1>1, <1>2 DEF LockInv, TokensDistinct
<1>. QED
  BY Zenon, <1>3, <1>4, <1>5 DEF LockInv

\* Locks expire with time.
LEMMA LockAged ==
    ASSUME TypeOK, LockInv, Tick
    PROVE  LockInv'
<1>1. /\ UNCHANGED <<events, held, tasks, att>>
      /\ now \in Nat /\ now' = now + 1
      /\ overran \subseteq overran'
  BY Zenon DEF Tick, store, TypeOK
<1>2. \A x \in Event : Live(x)' => Live(x)
  BY SMTT(30), <1>1 DEF Live, Event
<1>3. /\ \A w \in Workers : att'[w] = att[w] /\ (Owns(w)' <=> Owns(w)) /\ (Active(w)' <=> Active(w))
      /\ \A w \in Workers : Owns(w) => att[w].ev \in Event
      /\ \A k \in held \cup tasks : k.ev \in Event
  BY Zenon, <1>1 DEF Owns, Active, TypeOK, Consistent, OnHold, Task
<1>4. ActiveLive'
  <2>. SUFFICES ASSUME NEW w \in Workers, Active(w), att[w].ev.id \notin overran' PROVE att[w].ev.lock >= now + 1
    BY Zenon, <1>1, <1>3 DEF ActiveLive
  <2>1. att[w].ev.lock \in Nat
    BY Zenon, <1>3 DEF Owns, Event
  <2>2. ~(att[w].ev.lock < now + 1)
    BY Zenon DEF Tick
  <2>. QED
    BY SMTT(30), <1>1, <2>1, <2>2
<1>5. HoldLate' /\ OneEvent'
  BY Zenon, <1>1 DEF LockInv, HoldLate, OneEvent
<1>6. TokensStored'
  BY Zenon, <1>1, <1>2, <1>3 DEF LockInv, TokensStored
<1>7. TokensDistinct'
  BY Zenon, <1>1, <1>2, <1>3 DEF LockInv, TokensDistinct
<1>. QED
  BY Zenon, <1>4, <1>5, <1>6, <1>7 DEF LockInv

\* Message::queue writes the first event of its message.
LEMMA LockQueued ==
    ASSUME TypeOK, LockInv, OnlyAccepted, NEW m \in Ids, Queue(m)
    PROVE  LockInv'
<1>1. /\ UNCHANGED <<now, held, tasks, att, overran>>
      /\ session[m] = "checked"
      /\ \A e \in events : e.id # m
  BY Zenon DEF Queue, OnlyAccepted
<1>2. \A x : Live(x)' <=> Live(x)
  BY Zenon, <1>1 DEF Live
<1>3. \A w \in Workers : att'[w] = att[w] /\ (Owns(w)' <=> Owns(w)) /\ (Active(w)' <=> Active(w))
  BY Zenon, <1>1 DEF Owns, Active
<1>4. events' = events \/ \E e \in events' : e.id = m /\ events' = events \cup {e}
  <2>1. ASSUME NEW due PROVE SetEvent(events, due, m, 0) = events \cup {[due |-> due, id |-> m, lock |-> 0]}
    BY Zenon, <1>1 DEF SetEvent
  <2>. QED
    BY ZenonT(40), <2>1 DEF Queue, QueueMessageWrite, store
<1>5. ActiveLive' /\ HoldLate' /\ OneEvent'
  BY Zenon, <1>1, <1>3, <1>4 DEF LockInv, ActiveLive, HoldLate, OneEvent
<1>6. TokensStored'
  BY Zenon, <1>1, <1>2, <1>3, <1>4 DEF LockInv, TokensStored
<1>7. TokensDistinct'
  BY Zenon, <1>1, <1>2, <1>3 DEF LockInv, TokensDistinct
<1>. QED
  BY Zenon, <1>5, <1>6, <1>7 DEF LockInv

\* The attempt goes on with its token.
Kept(w) ==
    /\ Active(w) /\ OtherAttempts(w)
    /\ att'[w].ev = att[w].ev /\ att'[w].pc # "idle"
    /\ att'[w].pc \in {"fetch", "dsn", "decide"} => att'[w].hold = {}
    /\ UNCHANGED <<now, events, tasks, held, overran, session>>

\* The attempt ends without its token.
Gives(w) ==
    /\ Active(w) /\ OtherAttempts(w)
    /\ att'[w].pc \in {"idle", "notify"} /\ att'[w].hold = {}
    /\ att'[w].pc = "notify" => att'[w].ev = att[w].ev
    /\ Given(w)
    /\ UNCHANGED <<now, tasks, held, overran, session>>

\* A step changes the rows of the attempt's message only.
OwnRows(w) ==
    \A m \in Ids : m # att[w].ev.id =>
        /\ messages'[m] = messages[m]
        /\ m \in links' <=> m \in links

LEMMA AttemptClasses ==
    ASSUME TypeOK, LockInv, NEW w \in Workers, Attempt(w)
    PROVE  \/ OwnRows(w) /\ (Kept(w) \/ Gives(w))
           \/ (\E k \in tasks : TryLock(k, w)) /\ UNCHANGED <<messages, links>>
           \/ Notify(w) /\ UNCHANGED <<messages, links>>
<1>. DEFINE a == att[w]
            P == OwnRows(w) /\ (Kept(w) \/ Gives(w))
<1>0. HoldLate
  BY Zenon DEF LockInv
<1>1. ASSUME NEW k \in tasks, TryLock(k, w) PROVE UNCHANGED <<messages, links>>
  BY Zenon, <1>1 DEF TryLock
<1>2. CASE Notify(w)
  BY Zenon, <1>2 DEF Notify, store
<1>3. CASE FetchNothing(w)
  BY ZenonT(40), <1>3, RunningOK DEF FetchNothing, Gives, Given, OwnRows, Active, OtherAttempts, Idle, TypeOK
<1>4. CASE Fetch(w)
  <2>1. PICK msg : att' = [att EXCEPT ![w].pc = "dsn", ![w].msg = msg]
    BY Zenon, <1>4 DEF Fetch
  <2>2. a.pc = "fetch" /\ UNCHANGED <<now, store, session, tasks, held, overran>>
    BY Zenon, <1>4 DEF Fetch
  <2>3. att'[w].ev = a.ev /\ att'[w].pc = "dsn" /\ att'[w].hold = a.hold /\ OtherAttempts(w)
    BY Zenon, <2>1, PcAndMsgChange DEF OtherAttempts
  <2>. QED
    BY Zenon, <1>0, <2>2, <2>3 DEF Kept, OwnRows, Active, HoldLate, store
<1>5. ASSUME NEW to \in {"decide", "finish"}, a.pc \in {"dsn", "deliver"},
             to = "decide" => a.pc = "dsn", SendDsn(w, to)
      PROVE  P
  <2>1. PICK msg : att' = [att EXCEPT ![w].pc = to, ![w].msg = msg]
    BY Zenon, <1>5 DEF SendDsn
  <2>2. UNCHANGED <<now, store, session, tasks, held, overran>>
    BY Zenon, <1>5 DEF SendDsn
  <2>3. att'[w].ev = a.ev /\ att'[w].pc = to /\ att'[w].hold = a.hold /\ OtherAttempts(w)
    BY Zenon, <2>1, PcAndMsgChange DEF OtherAttempts
  <2>. QED
    BY Zenon, <1>0, <1>5, <2>2, <2>3 DEF Kept, OwnRows, Active, HoldLate, store
<1>6. CASE AdmitSender(w) \/ OpenSession(w)
  <2>1. a.pc \in {"decide", "deliver"} /\ UNCHANGED <<now, store, session, tasks, held, overran>>
    BY Zenon, <1>6 DEF AdmitSender, ReadyToDeliver, OpenSession
  <2>2. att'[w].ev = a.ev /\ att'[w].pc \in {"deliver", "session"} /\ OtherAttempts(w)
    <3>1. CASE AdmitSender(w)
      BY SMTT(30), <3>1 DEF AdmitSender, OtherAttempts, TypeOK
    <3>2. CASE OpenSession(w)
      BY SMTT(30), <3>2 DEF OpenSession, Goto, OtherAttempts, TypeOK
    <3>. QED
      BY Zenon, <1>6, <3>1, <3>2
  <2>. QED
    BY Zenon, <2>1, <2>2 DEF Kept, OwnRows, Active, store
<1>7. ASSUME CanThrottle(w) PROVE a.pc \in {"deliver", "session"}
  BY Zenon, <1>7 DEF CanThrottle
<1>8. CASE HoldDomain(w)
  <2>1. /\ att'[w].ev = a.ev /\ att'[w].pc = "deliver" /\ OtherAttempts(w)
    BY SMTT(30), <1>8 DEF HoldDomain, NextDomain, OtherAttempts, TypeOK
  <2>. QED
    BY Zenon, <1>7, <1>8, <2>1 DEF HoldDomain, Kept, OwnRows, Active, store
<1>9. ASSUME NEW m, a.pc \in {"deliver", "session"}, att' = NextDomain(w, m),
             UNCHANGED <<now, store, session, tasks, held, overran>>
      PROVE  P
  <2>1. att'[w].ev = a.ev /\ att'[w].pc = "deliver" /\ OtherAttempts(w)
    BY SMTT(30), <1>9 DEF NextDomain, OtherAttempts, TypeOK
  <2>. QED
    BY Zenon, <1>9, <2>1 DEF Kept, OwnRows, Active, store
<1>10. ASSUME NEW refill \in Refills, RateLimitDomain(w, refill) PROVE P
  <2>1. PICK m : att' = NextDomain(w, m)
    BY Zenon, <1>10 DEF RateLimitDomain
  <2>2. a.pc \in {"deliver", "session"} /\ UNCHANGED <<now, store, session, tasks, held, overran>>
    BY Zenon, <1>7, <1>10 DEF RateLimitDomain
  <2>. QED
    BY SMTT(30), <1>9, <2>1, <2>2
<1>26. CASE SkipDomain(w)
  <2>1. PICK m : att' = NextDomain(w, m)
    BY Zenon, <1>26 DEF SkipDomain
  <2>2. a.pc = "deliver" /\ UNCHANGED <<now, store, session, tasks, held, overran>>
    BY Zenon, <1>26 DEF SkipDomain
  <2>. QED
    BY SMTT(30), <1>9, <2>1, <2>2
<1>11. ASSUME NEW ans, SessionDone(w, ans) PROVE P
  <2>1. PICK m : att' = NextDomain(w, m)
    BY Zenon, <1>11 DEF SessionDone
  <2>2. a.pc = "session" /\ UNCHANGED <<now, store, session, tasks, held, overran>>
    BY Zenon, <1>11 DEF SessionDone
  <2>. QED
    BY SMTT(30), <1>9, <2>1, <2>2
<1>12. ASSUME NEW ans, NEW s, SessionFailed(w, ans, s) PROVE P
  <2>1. PICK m : att' = NextDomain(w, m)
    BY Zenon, <1>12 DEF SessionFailed
  <2>2. a.pc = "session" /\ UNCHANGED <<now, store, session, tasks, held, overran>>
    BY Zenon, <1>12 DEF SessionFailed
  <2>. QED
    BY SMTT(30), <1>9, <2>1, <2>2
<1>13. ASSUME NEW m, Write(a.ev.id, SaveChanges(a.ev.id, m, None, None))
       PROVE  OwnRows(w) /\ events' = events
  BY Zenon, <1>13 DEF Write, SaveChanges, OwnRows, TypeOK, store
<1>14. CASE HoldSender(w)
  BY SMTT(30), <1>13, <1>14 DEF HoldSender, ReadyToDeliver, Kept, Active, OtherAttempts, TypeOK
<1>15. CASE FinishOnHold(w)
  BY SMTT(30), <1>13, <1>15 DEF FinishOnHold, Kept, Active, OtherAttempts, TypeOK
<1>16. ASSUME NEW m, NEW next \in Nat, a.pc # "idle",
              Write(a.ev.id, SaveChanges(a.ev.id, m, a.ev.due, next))
       PROVE  OwnRows(w) /\ Given(w)
  <2>1. a.ev.due # None
    BY Zenon, <1>16, RunningOK, MessageAssumption
  <2>. QED
    BY Zenon, <1>16, <2>1 DEF Write, SaveChanges, OwnRows, Given, TypeOK, store
<1>17. ASSUME NEW m, Write(a.ev.id, Remove(a.ev.id, m, a.ev.due)) PROVE OwnRows(w) /\ Given(w)
  BY Zenon, <1>17 DEF Write, Remove, OwnRows, Given, TypeOK, store
<1>18. ASSUME a.pc \in {"decide", "finish"}, a.hold = {}, att' = Goto(w, "notify"),
              OwnRows(w), Given(w), UNCHANGED <<now, session, tasks, held, overran>>
       PROVE  P
  BY SMTT(30), <1>18 DEF Goto, Gives, Active, OtherAttempts, TypeOK
<1>19. a.pc = "decide" => a.hold = {}
  BY Zenon, <1>0 DEF HoldLate
<1>20. now \in Nat /\ (a.pc \in {"decide", "finish"} => a.msg \in Message)
  BY Zenon, RunningOK DEF TypeOK
<1>21. CASE RemoveExpired(w) \/ FinishCompleted(w)
  BY Zenon, <1>17, <1>18, <1>19, <1>21 DEF RemoveExpired, FinishCompleted
<1>22. CASE Requeue(w)
  <2>1. OwnRows(w) /\ Given(w)
    BY Zenon, <1>16, <1>20, <1>22, MessageOps DEF Requeue
  <2>. QED
    BY Zenon, <1>18, <1>19, <1>22, <2>1 DEF Requeue
<1>23. ASSUME NEW refill \in Refills, RateLimitSender(w, refill) PROVE P
  <2>1. OwnRows(w) /\ Given(w)
    BY Zenon, <1>16, <1>20, <1>23, RefillOK DEF RateLimitSender, ReadyToDeliver
  <2>. QED
    BY Zenon, <1>18, <1>19, <1>23, <2>1 DEF RateLimitSender, ReadyToDeliver
<1>24. CASE FinishIncomplete(w)
  <2>1. OwnRows(w) /\ Given(w)
    BY Zenon, <1>16, <1>20, <1>24, MessageOps DEF FinishIncomplete
  <2>. QED
    BY Zenon, <1>18, <1>24, <2>1 DEF FinishIncomplete
<1>25. CASE SendDsnBefore(w) \/ SendDsnAfter(w)
  BY Zenon, <1>5, <1>25 DEF SendDsnBefore, SendDsnAfter
<1>. QED
  BY ZenonT(40), <1>1, <1>2, <1>3, <1>4, <1>6, <1>8, <1>10, <1>11, <1>12, <1>14, <1>15, <1>21, <1>22,
     <1>23, <1>24, <1>25, <1>26 DEF Attempt

-----------------------------------------------------------------------------
(* The inductive invariant.                                                *)

LEMMA LockStep ==
    ASSUME IInv, [Next]_vars
    PROVE  LockInv'
<1>0. TypeOK /\ LockInv /\ OnlyAccepted
  BY Zenon DEF IInv
<1>1. CASE UNCHANGED vars
  BY Zenon, <1>0, <1>1, LockDropped DEF vars, store
<1>2. ASSUME NEW m \in Ids, HasQuota(m) PROVE LockInv'
  BY Zenon, <1>0, <1>2, LockDropped DEF HasQuota, store
<1>3. ASSUME NEW m \in Ids, Queue(m) PROVE LockInv'
  BY Zenon, <1>0, <1>3, LockQueued
<1>4. ASSUME NEW n \in Nodes, Spawn(n) PROVE LockInv'
  BY Zenon, <1>0, <1>4, LockScanned
<1>5. ASSUME NEW n \in Nodes, Crash(n) PROVE LockInv'
  <2>1. \A w \in Workers : att'[w] \in {att[w], Idle}
    BY Zenon, <1>5 DEF Crash
  <2>2. tasks' \subseteq tasks /\ held' \subseteq held /\ UNCHANGED <<now, events, overran>>
    BY Zenon, <1>5 DEF Crash, store
  <2>. QED
    BY Zenon, <1>0, <2>1, <2>2, LockDropped
<1>6. ASSUME NEW h \in held, Unhold(h) PROVE LockInv'
  BY Zenon, <1>0, <1>6, LockUnheld
<1>7. ASSUME NEW k \in tasks, LockBusy(k) PROVE LockInv'
  BY Zenon, <1>0, <1>7, LockDropped DEF LockBusy, store
<1>8. CASE Tick
  BY Zenon, <1>0, <1>8, LockAged
<1>9. ASSUME NEW w \in Workers, Attempt(w) PROVE LockInv'
  <2>1. CASE Kept(w)
    BY Zenon, <1>0, <2>1, LockKept DEF Kept
  <2>2. CASE Gives(w)
    BY Zenon, <1>0, <2>2, LockGiven DEF Gives
  <2>. QED
    BY Zenon, <1>0, <1>9, <2>1, <2>2, AttemptClasses, LockTaken, LockHeld
<1>. QED
  BY Zenon, <1>1, <1>2, <1>3, <1>4, <1>5, <1>6, <1>7, <1>8, <1>9 DEF Next

LEMMA AcceptedStep ==
    ASSUME IInv, [Next]_vars
    PROVE  OnlyAccepted'
<1>0. TypeOK /\ LockInv /\ OnlyAccepted
  BY Zenon DEF IInv
<1>1. CASE UNCHANGED vars
  BY Zenon, <1>0, <1>1 DEF OnlyAccepted, vars, store
<1>2. ASSUME NEW m \in Ids, HasQuota(m) PROVE OnlyAccepted'
  <2>1. \A x \in Ids : session[x] = "accepted" => session'[x] = "accepted"
    BY Zenon, <1>0, <1>2 DEF HasQuota, TypeOK
  <2>2. UNCHANGED <<store, tasks, held, att>>
    BY Zenon, <1>2 DEF HasQuota
  <2>3. /\ \A e \in events : e.id \in Ids
        /\ \A k \in held \cup tasks : k.ev.id \in Ids
        /\ \A w \in Workers : att[w].pc # "idle" => att[w].ev.id \in Ids
    BY Zenon, <1>0 DEF TypeOK, Event, OnHold, Task, Consistent
  <2>. QED
    BY Zenon, <1>0, <2>1, <2>2, <2>3 DEF OnlyAccepted, store
<1>3. ASSUME NEW m \in Ids, Queue(m) PROVE OnlyAccepted'
  <2>1. \A x \in Ids : session[x] = "accepted" => session'[x] = "accepted"
    BY Zenon, <1>0, <1>3 DEF Queue, TypeOK
  <2>2. UNCHANGED <<tasks, held, att>>
    BY Zenon, <1>3 DEF Queue
  <2>3. /\ \A e \in events : e.id \in Ids
        /\ \A k \in held \cup tasks : k.ev.id \in Ids
        /\ \A w \in Workers : att[w].pc # "idle" => att[w].ev.id \in Ids
    BY Zenon, <1>0 DEF TypeOK, Event, OnHold, Task, Consistent
  <2>4. CASE UNCHANGED store
    BY Zenon, <1>0, <2>1, <2>2, <2>3, <2>4 DEF OnlyAccepted, store
  <2>5. ASSUME NEW release, QueueMessageWrite(m, release), session' = [session EXCEPT ![m] = "accepted"]
        PROVE  OnlyAccepted'
    <3>1. /\ session'[m] = "accepted"
          /\ \A x \in Ids \ {m} : messages'[x] = messages[x] /\ (x \in links' => x \in links)
          /\ \A e \in events' : e \in events \/ e.id = m
      BY SMTT(30), <1>0, <2>5 DEF QueueMessageWrite, SetEvent, TypeOK
    <3>. QED
      BY Zenon, <1>0, <2>1, <2>2, <2>3, <3>1 DEF OnlyAccepted
  <2>. QED
    BY Zenon, <1>3, <2>4, <2>5 DEF Queue
<1>4. ASSUME NEW n \in Nodes, Spawn(n) PROVE OnlyAccepted'
  BY SMTT(30), <1>0, <1>4 DEF Spawn, DueEvents, OnlyAccepted, store
<1>5. ASSUME NEW n \in Nodes, Crash(n) PROVE OnlyAccepted'
  <2>1. \A w \in Workers : att'[w] \in {att[w], Idle}
    BY Zenon, <1>5 DEF Crash
  <2>2. tasks' \subseteq tasks /\ held' \subseteq held /\ UNCHANGED <<store, session>>
    BY Zenon, <1>5 DEF Crash
  <2>. QED
    BY SMTT(30), <1>0, <2>1, <2>2 DEF OnlyAccepted, store, Idle
<1>6. ASSUME NEW h \in held, Unhold(h) PROVE OnlyAccepted'
  BY SMTT(30), <1>0, <1>6 DEF Unhold, OnlyAccepted, store
<1>7. ASSUME NEW k \in tasks, LockBusy(k) PROVE OnlyAccepted'
  BY Zenon, <1>0, <1>7 DEF LockBusy, OnlyAccepted, store
<1>8. CASE Tick
  BY Zenon, <1>0, <1>8 DEF Tick, OnlyAccepted, store
<1>9. ASSUME NEW w \in Workers, Attempt(w) PROVE OnlyAccepted'
  <2>1. ASSUME OwnRows(w), Kept(w) PROVE OnlyAccepted'
    <3>1. session[att[w].ev.id] = "accepted" /\ att[w].ev.id \in Ids
      BY Zenon, <1>0, <2>1, RunningOK DEF OnlyAccepted, Kept, Active
    <3>. QED
      BY Zenon, <1>0, <2>1, <3>1 DEF OnlyAccepted, Kept, OwnRows, OtherAttempts
  <2>2. ASSUME OwnRows(w), Gives(w) PROVE OnlyAccepted'
    <3>1. session[att[w].ev.id] = "accepted" /\ att[w].ev.id \in Ids
      BY Zenon, <1>0, <2>2, RunningOK DEF OnlyAccepted, Gives, Active
    <3>2. \A e \in events' : e \in events \/ e.id = att[w].ev.id
      BY SMTT(30), <2>2 DEF Gives, Given, ClearEvent, SetEvent
    <3>. QED
      BY ZenonT(40), <1>0, <2>2, <3>1, <3>2 DEF OnlyAccepted, Gives, OwnRows, OtherAttempts
  <2>3. ASSUME NEW k \in tasks, TryLock(k, w), UNCHANGED <<messages, links>> PROVE OnlyAccepted'
    <3>1. session[k.ev.id] = "accepted"
      BY Zenon, <1>0 DEF OnlyAccepted
    <3>2. /\ \A e \in events' : e \in events \/ e.id = k.ev.id
          /\ \A v \in Workers \ {w} : att'[v] = att[v]
          /\ att'[w].ev.id = k.ev.id
          /\ tasks' \subseteq tasks
          /\ UNCHANGED <<held, session>>
      BY SMTT(30), <1>0, <2>3 DEF TryLock, SetEvent, TypeOK, Task, Event, Idle
    <3>. QED
      BY Zenon, <1>0, <2>3, <3>1, <3>2 DEF OnlyAccepted
  <2>4. ASSUME Notify(w), UNCHANGED <<messages, links>> PROVE OnlyAccepted'
    <3>1. /\ \A v \in Workers \ {w} : att'[v] = att[v]
          /\ att'[w].pc = "idle"
          /\ \A h \in held' : h \in held \/ h.ev.id = att[w].ev.id
          /\ UNCHANGED <<events, tasks, session>>
      BY SMTT(30), <1>0, <2>4 DEF Notify, HoldEntry, TypeOK, Idle, store
    <3>2. session[att[w].ev.id] = "accepted"
      BY Zenon, <1>0, <2>4 DEF Notify, OnlyAccepted
    <3>. QED
      BY ZenonT(40), <1>0, <2>4, <3>1, <3>2 DEF OnlyAccepted
  <2>. QED
    BY Zenon, <1>0, <1>9, <2>1, <2>2, <2>3, <2>4, AttemptClasses
<1>. QED
  BY Zenon, <1>1, <1>2, <1>3, <1>4, <1>5, <1>6, <1>7, <1>8, <1>9 DEF Next

THEOREM Inductive == Spec => []IInv
<1>1. Init => LockInv /\ OnlyAccepted
  <2>. SUFFICES ASSUME Init PROVE LockInv /\ OnlyAccepted
    BY Zenon
  <2>1. /\ events = {} /\ links = {} /\ tasks = {} /\ held = {}
        /\ \A m \in Ids : messages[m] = None
        /\ \A w \in Workers : att[w].pc = "idle" /\ ~Active(w) /\ ~Owns(w)
    BY Zenon DEF Init, Idle, Active, Owns
  <2>2. OnlyAccepted
    BY Zenon, <2>1 DEF OnlyAccepted
  <2>3. ActiveLive /\ HoldLate
    BY Zenon, <2>1 DEF ActiveLive, HoldLate
  <2>4. TokensStored /\ TokensDistinct /\ OneEvent
    BY Zenon, <2>1 DEF TokensStored, TokensDistinct, OneEvent
  <2>. QED
    BY Zenon, <2>2, <2>3, <2>4 DEF LockInv
<1>2. IInv /\ [Next]_vars => LockInv' /\ OnlyAccepted'
  BY Zenon, LockStep, AcceptedStep
<1>. QED
  BY <1>1, <1>2, TypeCorrect, PTL DEF Spec, IInv

\* try_lock_event excludes: while no attempt has outlived its lock, at most one
\* attempt works on a message, whatever the nodes scan, hold, retry or lose.
THEOREM AttemptsExclusive == Spec => []Exclusive
<1>1. IInv => Exclusive
  <2>. SUFFICES ASSUME IInv, NEW v \in Workers, NEW w \in Workers,
                       v # w, Active(v), Active(w), att[v].ev.id = att[w].ev.id,
                       att[v].ev.id \notin overran
                PROVE  FALSE
    BY Zenon DEF Exclusive
  <2>1. TypeOK /\ LockInv
    BY Zenon DEF IInv
  <2>2. Owns(v) /\ Live(att[v].ev)
    BY Zenon, <2>1, OwnerAlone DEF Owns
  <2>. QED
    BY Zenon, <2>1, <2>2, OwnerAlone
<1>. QED
  BY <1>1, Inductive, PTL

\* No step takes the locked event of a running attempt away, except the one by
\* which this attempt ends.
THEOREM LocksRespected == Spec => LockRespected
<1>1. IInv /\ [Next]_vars =>
        [\A w \in Workers :
           Active(w) /\ att[w].ev \in events \ events' /\ att[w].ev.id \notin overran
             => att'[w].pc \in {"idle", "notify"}]_vars
  <2>. SUFFICES ASSUME IInv, Next, NEW w \in Workers, Active(w),
                       att[w].ev \in events \ events', att[w].ev.id \notin overran
                PROVE  att'[w].pc \in {"idle", "notify"}
    BY Zenon
  <2>0. TypeOK /\ LockInv
    BY Zenon DEF IInv
  <2>1. ASSUME NEW v \in Workers, Attempt(v) PROVE att'[w].pc \in {"idle", "notify"}
    <3>1. CASE Kept(v)
      BY Zenon, <3>1 DEF Kept
    <3>2. CASE Gives(v)
      <4>1. \A e \in events : e.id # att[v].ev.id => e \in events'
        BY Zenon, <3>2 DEF Gives, Given, ClearEvent, SetEvent
      <4>2. att[v].ev.id = att[w].ev.id
        BY Zenon, <4>1
      <4>3. CASE v # w
        <5>1. Owns(v) /\ Live(att[v].ev)
          BY Zenon, <2>0, <3>2, <4>2, OwnerAlone DEF Owns, Gives
        <5>. QED
          BY Zenon, <2>0, <4>2, <4>3, <5>1, OwnerAlone
      <4>. QED
        BY Zenon, <3>2, <4>3 DEF Gives
    <3>3. ASSUME NEW k \in tasks, TryLock(k, v) PROVE FALSE
      <4>1. k.ev \in events /\ \A e \in events : e.id # k.ev.id => e \in events'
        BY Zenon, <3>3 DEF TryLock, SetEvent
      <4>2. k.ev.id = att[w].ev.id
        BY Zenon, <4>1
      <4>3. k.ev = att[w].ev
        BY Zenon, <2>0, <4>1, <4>2, OwnerAlone
      <4>. QED
        BY Zenon, <2>0, <4>3, OwnerAlone
    <3>4. CASE Notify(v)
      BY Zenon, <3>4 DEF Notify, store
    <3>. QED
      BY Zenon, <2>0, <2>1, <3>1, <3>2, <3>3, <3>4, AttemptClasses
  <2>2. ASSUME NEW m \in Ids, Queue(m) PROVE events \subseteq events'
    <3>1. \A e \in events : e.id # m
      BY Zenon, <2>2 DEF IInv, OnlyAccepted, Queue
    <3>. QED
      BY Zenon, <2>2, <3>1 DEF Queue, QueueMessageWrite, SetEvent, store
  <2>3. ASSUME NEW m \in Ids, HasQuota(m) PROVE events' = events
    BY Zenon, <2>3 DEF HasQuota, store
  <2>4. ASSUME NEW n \in Nodes, Spawn(n) \/ Crash(n) PROVE events' = events
    BY Zenon, <2>4 DEF Spawn, Crash, store
  <2>5. ASSUME NEW h \in held, Unhold(h) PROVE events' = events
    BY Zenon, <2>5 DEF Unhold, store
  <2>6. ASSUME NEW k \in tasks, LockBusy(k) PROVE events' = events
    BY Zenon, <2>6 DEF LockBusy, store
  <2>7. Tick => events' = events
    BY Zenon DEF Tick, store
  <2>. QED
    BY Zenon, <2>1, <2>2, <2>3, <2>4, <2>5, <2>6, <2>7 DEF Next
<1>. QED
  BY <1>1, Inductive, PTL DEF Spec, LockRespected

-----------------------------------------------------------------------------
(* The rows of a message.                                                  *)

\* How a step of the attempt w changes the rows of its message.
RowsAfter(w) ==
    LET id == att[w].ev.id
        cleared == ClearEvent(att[w].ev.due, id)
    IN  \/ /\ events' = events /\ links' = links
           /\ messages'[id] = messages[id] \/ messages'[id] \in Message
        \/ /\ \E next \in Nat : events' = SetEvent(cleared, next, id, 0)
           /\ links' = links /\ messages'[id] \in Message
        \/ events' = cleared /\ links' = links \ {id} /\ messages'[id] = None
        \/ /\ events' = cleared /\ UNCHANGED <<links, messages>>
           /\ messages[id] = None \/ "read" \in Faults

LEMMA RowsClasses ==
    ASSUME TypeOK, NEW w \in Workers, Attempt(w)
    PROVE  \/ RowsAfter(w) /\ att[w].pc \notin {"idle", "notify"}
           \/ \E k \in tasks : TryLock(k, w)
           \/ Notify(w)
<1>. DEFINE a == att[w]
            P == RowsAfter(w) /\ a.pc \notin {"idle", "notify"}
<1>1. CASE FetchNothing(w)
  BY Zenon, <1>1 DEF FetchNothing, RowsAfter
<1>2. ASSUME a.pc \notin {"idle", "notify"}, UNCHANGED store PROVE P
  BY Zenon, <1>2 DEF RowsAfter, store
<1>3. CASE \/ Fetch(w) \/ SendDsnBefore(w) \/ SendDsnAfter(w) \/ AdmitSender(w)
           \/ SkipDomain(w) \/ OpenSession(w) \/ HoldDomain(w)
  BY Zenon, <1>2, <1>3 DEF Fetch, SendDsnBefore, SendDsnAfter, SendDsn, AdmitSender, ReadyToDeliver,
                    SkipDomain, OpenSession, HoldDomain, CanThrottle
<1>4. ASSUME NEW refill, RateLimitDomain(w, refill) PROVE P
  BY Zenon, <1>2, <1>4 DEF RateLimitDomain, CanThrottle
<1>5. ASSUME NEW ans, SessionDone(w, ans) PROVE P
  BY Zenon, <1>2, <1>5 DEF SessionDone
<1>6. ASSUME NEW ans, NEW s, SessionFailed(w, ans, s) PROVE P
  BY Zenon, <1>2, <1>6 DEF SessionFailed
<1>7. a.pc \in {"decide", "finish"} =>
        a.msg \in Message /\ a.ev.id \in Ids /\ a.ev.due \in Nat /\ now \in Nat
  BY Zenon, RunningOK DEF TypeOK
<1>8. ASSUME a.pc \in {"decide", "finish"}, Write(a.ev.id, SaveChanges(a.ev.id, a.msg, None, None)) PROVE P
  BY Zenon, <1>7, <1>8, ReleaseQuotaType DEF Write, SaveChanges, RowsAfter, TypeOK, store
<1>9. ASSUME a.pc \in {"decide", "finish"}, NEW next \in Nat,
             Write(a.ev.id, SaveChanges(a.ev.id, a.msg, a.ev.due, next))
      PROVE  P
  <2>1. a.ev.due # None /\ ReleaseQuota(a.msg) \in Message /\ a.ev.id \in Ids
    BY Zenon, <1>7, <1>9, ReleaseQuotaType, MessageAssumption
  <2>2. \/ UNCHANGED store
        \/ /\ messages' = [messages EXCEPT ![a.ev.id] = ReleaseQuota(a.msg)]
           /\ events' = SetEvent(ClearEvent(a.ev.due, a.ev.id), next, a.ev.id, 0)
           /\ links' = links
    BY Zenon, <1>9, <2>1 DEF Write, SaveChanges
  <2>3. messages' = [messages EXCEPT ![a.ev.id] = ReleaseQuota(a.msg)] => messages'[a.ev.id] \in Message
    BY Zenon, <2>1 DEF TypeOK
  <2>. QED
    BY Zenon, <1>2, <1>9, <2>2, <2>3 DEF RowsAfter
<1>10. ASSUME a.pc \in {"decide", "finish"}, Write(a.ev.id, Remove(a.ev.id, a.msg, a.ev.due)) PROVE P
  BY Zenon, <1>7, <1>10 DEF Write, Remove, RowsAfter, TypeOK, store
<1>11. CASE HoldSender(w) \/ FinishOnHold(w)
  BY Zenon, <1>8, <1>11 DEF HoldSender, ReadyToDeliver, FinishOnHold
<1>12. CASE RemoveExpired(w) \/ FinishCompleted(w)
  BY Zenon, <1>10, <1>12 DEF RemoveExpired, FinishCompleted
<1>13. CASE Requeue(w)
  BY Zenon, <1>7, <1>9, <1>13, MessageOps DEF Requeue
<1>14. ASSUME NEW refill \in Refills, RateLimitSender(w, refill) PROVE P
  BY Zenon, <1>7, <1>9, <1>14, RefillOK DEF RateLimitSender, ReadyToDeliver
<1>15. CASE FinishIncomplete(w)
  BY Zenon, <1>7, <1>9, <1>15, MessageOps DEF FinishIncomplete
<1>. QED
  BY Zenon, <1>1, <1>3, <1>4, <1>5, <1>6, <1>11, <1>12, <1>13, <1>14, <1>15 DEF Attempt

Rows ==
    \A m \in Ids \ overran :
        /\ messages[m] # None <=> \E e \in events : e.id = m
        /\ messages[m] # None <=> m \in links

LEMMA SetEventIds ==
    ASSUME NEW evs, NEW due, NEW id, NEW lock
    PROVE  /\ \E e \in SetEvent(evs, due, id, lock) : e.id = id
           /\ \A x : x # id => ((\E e \in SetEvent(evs, due, id, lock) : e.id = x)
                                 <=> (\E e \in evs : e.id = x))
<1>. DEFINE new == [due |-> due, id |-> id, lock |-> lock]
<1>1. new.id = id /\ new \in SetEvent(evs, due, id, lock)
  BY Zenon DEF SetEvent
<1>2. \A e : e \in SetEvent(evs, due, id, lock) <=> e = new \/ (e \in evs /\ ~(e.due = due /\ e.id = id))
  BY Zenon DEF SetEvent
<1>. HIDE DEF new
<1>. QED
  BY Zenon, <1>1, <1>2

LEMMA RowsStep ==
    ASSUME IInv, Rows, [Next]_vars, "read" \notin Faults
    PROVE  Rows'
<1>0. TypeOK /\ LockInv /\ OnlyAccepted
  BY Zenon DEF IInv
<1>1. CASE UNCHANGED store /\ overran \subseteq overran'
  BY Zenon, <1>1 DEF Rows, store
<1>2. ASSUME NEW m \in Ids, Queue(m) PROVE Rows'
  <2>1. ASSUME NEW release \in Releases, QueueMessageWrite(m, release) PROVE Rows'
    <3>. DEFINE msg == NewMessage(now + release, DOMAIN QuotaLimit)
    <3>1. now + release \in Nat /\ DOMAIN QuotaLimit \in SUBSET QuotaIds
      BY SMTT(30), <1>0, QueueAssumption DEF TypeOK
    <3>2. msg # None
      BY Zenon, <3>1, NewMessageType, NoneIsNoMessage
    <3>3. /\ messages' = [messages EXCEPT ![m] = msg]
          /\ links' = links \cup {m}
          /\ events' = SetEvent(events, NextEvent(msg), m, 0)
          /\ overran' = overran
      BY Zenon, <1>2, <2>1 DEF QueueMessageWrite, Queue
    <3>. HIDE DEF msg
    <3>4. messages'[m] # None /\ \A x \in Ids \ {m} : messages'[x] = messages[x]
      BY Zenon, <1>0, <3>2, <3>3 DEF TypeOK
    <3>5. /\ \E e \in events' : e.id = m
          /\ \A x \in Ids \ {m} : (\E e \in events' : e.id = x) <=> (\E e \in events : e.id = x)
      BY SMTT(30), <3>3, SetEventIds
    <3>. QED
      BY Zenon, <3>3, <3>4, <3>5 DEF Rows
  <2>. QED
    BY Zenon, <1>1, <1>2, <2>1 DEF Queue
<1>3. ASSUME NEW w \in Workers, Attempt(w) PROVE Rows'
  <2>1. ASSUME NEW k \in tasks, TryLock(k, w) PROVE Rows'
    <3>1. k.ev \in events /\ events' = SetEvent(events, k.ev.due, k.ev.id, now + LockExpiry)
      BY Zenon, <2>1 DEF TryLock
    <3>2. \A x : (\E e \in events' : e.id = x) <=> (\E e \in events : e.id = x)
      BY SMTT(30), <3>1, SetEventIds
    <3>. QED
      BY Zenon, <2>1, <3>2 DEF TryLock, Rows
  <2>2. CASE Notify(w)
    BY Zenon, <1>1, <2>2 DEF Notify
  <2>3. ASSUME RowsAfter(w), Active(w) PROVE Rows'
    <3>. DEFINE id == att[w].ev.id
    <3>1. OwnRows(w) /\ overran' = overran
      BY ZenonT(40), <1>0, <1>3, <2>3, AttemptClasses DEF Kept, Gives, TryLock, Notify, Active
    <3>2. \A x \in Ids \ {id} : (\E e \in events' : e.id = x) <=> (\E e \in events : e.id = x)
      BY SMTT(30), <2>3 DEF RowsAfter, ClearEvent, SetEvent
    <3>3. id \in Ids /\ messages \in [Ids -> Message \cup {None}]
      BY Zenon, <1>0, <2>3, RunningOK DEF TypeOK, Active
    <3>4. ASSUME id \notin overran
          PROVE  /\ messages'[id] # None <=> \E e \in events' : e.id = id
                 /\ messages'[id] # None <=> id \in links'
      <4>1. /\ att[w].ev \in events
            /\ \A e \in events : e.id = id => e = att[w].ev
        BY Zenon, <1>0, <2>3, <3>4, OwnerAlone
      <4>2. messages[id] # None /\ id \in links
        BY Zenon, <3>3, <3>4, <4>1 DEF Rows
      <4>3. \A e \in ClearEvent(att[w].ev.due, id) : e.id # id
        BY Zenon, <4>1 DEF ClearEvent
      <4>4. \A next : \E e \in SetEvent(ClearEvent(att[w].ev.due, id), next, id, 0) : e.id = id
        BY SMTT(30), SetEventIds
      <4>. QED
        BY Zenon, <2>3, <4>1, <4>2, <4>3, <4>4, NoneIsNoMessage DEF RowsAfter
    <3>5. ASSUME NEW x \in Ids \ overran', x # id
          PROVE  /\ messages'[x] # None <=> \E e \in events' : e.id = x
                 /\ messages'[x] # None <=> x \in links'
      BY Zenon, <3>1, <3>2, <3>5 DEF Rows, OwnRows
    <3>. QED
      BY Zenon, <3>1, <3>4, <3>5 DEF Rows
  <2>. QED
    BY Zenon, <1>0, <1>3, <2>1, <2>2, <2>3, RowsClasses DEF Active
<1>4. ASSUME NEW m \in Ids, HasQuota(m) PROVE Rows'
  BY Zenon, <1>1, <1>4 DEF HasQuota
<1>5. ASSUME NEW n \in Nodes, Spawn(n) \/ Crash(n) PROVE Rows'
  BY Zenon, <1>1, <1>5 DEF Spawn, Crash
<1>6. ASSUME NEW h \in held, Unhold(h) PROVE Rows'
  BY Zenon, <1>1, <1>6 DEF Unhold
<1>7. ASSUME NEW k \in tasks, LockBusy(k) PROVE Rows'
  BY Zenon, <1>1, <1>7 DEF LockBusy
<1>8. CASE Tick
  BY Zenon, <1>1, <1>8 DEF Tick
<1>9. CASE UNCHANGED vars
  BY Zenon, <1>1, <1>9 DEF vars
<1>. QED
  BY Zenon, <1>2, <1>3, <1>4, <1>5, <1>6, <1>7, <1>8, <1>9 DEF Next

\* queue, save_changes and remove keep the rows of a message together, whatever the
\* crashes and failed writes, if reads of the store do not fail (read_message turns a
\* failed read into "no message", and the event is deleted).
THEOREM RowsStayTogether ==
    ASSUME "read" \notin Faults
    PROVE  Spec => []RowsTogether
<1>1. Init => Rows
  BY Zenon DEF Init, Rows
<1>2. IInv /\ Rows /\ [Next]_vars => Rows'
  BY Zenon, RowsStep
<1>3. IInv /\ Rows => RowsTogether
  <2>. SUFFICES ASSUME IInv, Rows, NEW m \in Ids \ overran
                PROVE  /\ messages[m] # None => (\E e \in events : EventsOf(m) = {e}) /\ m \in links
                       /\ messages[m] = None => EventsOf(m) = {} /\ m \notin links
    BY Zenon DEF RowsTogether
  <2>1. CASE messages[m] # None
    <3>1. PICK e \in events : e.id = m
      BY Zenon, <2>1 DEF Rows
    <3>2. EventsOf(m) = {e}
      BY Zenon, <3>1 DEF EventsOf, IInv, LockInv, OneEvent
    <3>. QED
      BY Zenon, <2>1, <3>2 DEF Rows
  <2>2. CASE messages[m] = None
    BY Zenon, <2>2 DEF Rows, EventsOf
  <2>. QED
    BY Zenon, <2>1, <2>2
<1>. QED
  BY <1>1, <1>2, <1>3, Inductive, PTL DEF Spec

=============================================================================
