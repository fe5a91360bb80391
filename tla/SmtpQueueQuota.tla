--------------------------- MODULE SmtpQueueQuota ---------------------------
(***************************************************************************)
(* The quota counters cover what the stored messages reserve.              *)
(***************************************************************************)
EXTENDS SmtpQueueProofs, FiniteSetTheorems

\* The attempt works on its own copy of the message.
Running(w) == Active(w) /\ HasMessage(w)

HoldersFinite == \A q \in QuotaIds : IsFiniteSet(HoldersOf(q))

\* A running attempt knows which keys its message still holds: remove gives back the
\* keys of this copy.
CopyKeepsQuota ==
    \A w \in Workers :
        Running(w) /\ att[w].ev.id \notin overran =>
            /\ messages[att[w].ev.id] # None
            /\ att[w].msg.quota = messages[att[w].ev.id].quota

QuotaInv == HoldersFinite /\ CopyKeepsQuota /\ QuotaCovered

\* Only release_quota touches the keys of a message.
LEMMA QuotaFixed ==
    ASSUME NEW m \in Message
    PROVE  /\ \A t : HasPendingDelivery(m, t).quota = m.quota
           /\ \A t : BuildDsn(m, t).quota = m.quota
           /\ HandleDoubleBounce(m).quota = m.quota
           /\ \A d : ThrottleConcurrency(m, d).quota = m.quota
           /\ \A d, at : ThrottleRate(m, d, at).quota = m.quota
           /\ \A d, ans, t : DeliverDone(m, d, ans, t).quota = m.quota
           /\ \A d, ans, s, t : DeliverFailed(m, d, ans, s, t).quota = m.quota
<1>1. \A t : HasPendingDelivery(m, t).quota = m.quota
  BY Zenon DEF HasPendingDelivery, Message
<1>2. (\A t : BuildDsn(m, t).quota = m.quota) /\ HandleDoubleBounce(m).quota = m.quota
  BY Zenon DEF BuildDsn, HandleDoubleBounce, Message
<1>3. \A d : ThrottleConcurrency(m, d).quota = m.quota
  BY Zenon DEF ThrottleConcurrency, Message
<1>4. \A d, at : ThrottleRate(m, d, at).quota = m.quota
  BY Zenon DEF ThrottleRate, Message
<1>5. \A d, ans, t : DeliverDone(m, d, ans, t).quota = m.quota
  BY Zenon DEF DeliverDone, Message
<1>6. \A d, ans, s, t : DeliverFailed(m, d, ans, s, t).quota = m.quota
  BY Zenon DEF DeliverFailed, Message
<1>. QED
  BY Zenon, <1>1, <1>2, <1>3, <1>4, <1>5, <1>6

\* A step that writes neither a message nor a counter.
LEMMA QuotaStill ==
    ASSUME QuotaInv, UNCHANGED <<messages, counters>>, overran \subseteq overran',
           \A v \in Workers : Running(v)' =>
              /\ att'[v].ev = att[v].ev
              /\ \/ Running(v) /\ att'[v].msg.quota = att[v].msg.quota
                 \/ /\ messages[att[v].ev.id] # None
                    /\ att'[v].msg.quota = messages[att[v].ev.id].quota
    PROVE  QuotaInv'
<1>1. \A q : HoldersOf(q)' = HoldersOf(q)
  BY Zenon DEF HoldersOf
<1>2. HoldersFinite'
  BY Zenon, <1>1 DEF QuotaInv, HoldersFinite
<1>3. CopyKeepsQuota'
  BY Zenon DEF QuotaInv, CopyKeepsQuota
<1>4. overran' = {} => overran = {}
  BY Zenon
<1>5. QuotaCovered'
  BY Zenon, <1>1, <1>4 DEF QuotaInv, QuotaCovered
<1>. QED
  BY Zenon, <1>2, <1>3, <1>5 DEF QuotaInv

\* A step that writes the message id: what its holders become.
LEMMA HoldersChange ==
    ASSUME TypeOK, HoldersFinite, NEW id \in Ids, NEW x, messages' = [messages EXCEPT ![id] = x]
    PROVE  /\ HoldersFinite'
           /\ \A q : HoldersOf(q)' = IF x # None /\ q \in x.quota THEN HoldersOf(q) \cup {id}
                                                                  ELSE HoldersOf(q) \ {id}
<1>1. messages'[id] = x /\ \A m \in Ids \ {id} : messages'[m] = messages[m]
  BY Zenon DEF TypeOK
<1>2. ASSUME NEW q
      PROVE  HoldersOf(q)' = IF x # None /\ q \in x.quota THEN HoldersOf(q) \cup {id}
                                                          ELSE HoldersOf(q) \ {id}
  <2>1. \A m : m \in HoldersOf(q)' <=> m \in Ids /\ messages'[m] # None /\ q \in messages'[m].quota
    BY Zenon DEF HoldersOf
  <2>2. \A m : m \in HoldersOf(q) <=> m \in Ids /\ messages[m] # None /\ q \in messages[m].quota
    BY Zenon DEF HoldersOf
  <2>3. CASE x # None /\ q \in x.quota
    BY Zenon, <1>1, <2>1, <2>2, <2>3
  <2>4. CASE ~(x # None /\ q \in x.quota)
    BY Zenon, <1>1, <2>1, <2>2, <2>4
  <2>. QED
    BY Zenon, <2>3, <2>4
<1>3. ASSUME NEW q \in QuotaIds PROVE IsFiniteSet(HoldersOf(q)')
  <2>1. IsFiniteSet(HoldersOf(q))
    BY Zenon DEF HoldersFinite
  <2>2. IsFiniteSet(HoldersOf(q) \cup {id}) /\ IsFiniteSet(HoldersOf(q) \ {id})
    BY Zenon, <2>1, FS_AddElement, FS_RemoveElement
  <2>. QED
    BY Zenon, <1>2, <2>2
<1>. QED
  BY Zenon, <1>2, <1>3 DEF HoldersFinite

\* The attempt ends with a write.
LEMMA QuotaWrite ==
    ASSUME TypeOK, Exclusive, QuotaInv, NEW w \in Workers,
           \/ RemoveExpired(w) \/ Requeue(w) \/ HoldSender(w)
           \/ \E refill \in Refills : RateLimitSender(w, refill)
           \/ FinishOnHold(w) \/ FinishIncomplete(w) \/ FinishCompleted(w)
    PROVE  QuotaInv'
<1>. DEFINE a  == att[w]
            id == att[w].ev.id
            b  == ReleaseQuota(att[w].msg)
<1>1. a.pc \in {"decide", "finish"}
  BY Zenon DEF RemoveExpired, Requeue, HoldSender, RateLimitSender, ReadyToDeliver,
         FinishOnHold, FinishIncomplete, FinishCompleted
<1>2. id \in Ids /\ a.msg \in Message /\ a \in AttRec /\ Running(w)
  BY Zenon, <1>1, RunningOK DEF TypeOK, HasMessage, Active, Running
<1>3. overran' = overran
  BY Zenon DEF RemoveExpired, Requeue, HoldSender, RateLimitSender, FinishOnHold, FinishIncomplete,
         FinishCompleted
<1>4. ~Running(w)' /\ OtherAttempts(w)
  <2>1. ASSUME att' = Goto(w, "notify") PROVE att'[w].pc = "notify" /\ OtherAttempts(w)
    BY Zenon, <1>2, <2>1 DEF Goto, OtherAttempts, TypeOK, AttRec
  <2>2. CASE HoldSender(w)
    BY Zenon, <1>2, <2>2 DEF HoldSender, OtherAttempts, TypeOK, AttRec, Running, Active
  <2>3. CASE FinishOnHold(w)
    BY Zenon, <1>2, <2>3 DEF FinishOnHold, OtherAttempts, TypeOK, AttRec, Running, Active
  <2>. QED
    BY Zenon, <2>1, <2>2, <2>3 DEF RemoveExpired, Requeue, RateLimitSender, FinishIncomplete,
         FinishCompleted, Running, Active
<1>5. \/ UNCHANGED <<messages, counters>>
      \/ messages' = [messages EXCEPT ![id] = b] /\ UNCHANGED counters
      \/ /\ messages' = [messages EXCEPT ![id] = None]
         /\ counters' = [q \in QuotaIds |-> counters[q] - IF q \in a.msg.quota THEN 1 ELSE 0]
  BY Zenon DEF RemoveExpired, Requeue, HoldSender, RateLimitSender, FinishOnHold, FinishIncomplete,
         FinishCompleted, Write, SaveChanges, Remove, store
<1>6. b \in Message /\ b.quota \subseteq a.msg.quota
  BY Zenon, <1>2, ReleaseQuotaType
<1>. HIDE DEF b
<1>7. CASE UNCHANGED <<messages, counters>>
  <2>1. \A v \in Workers : Running(v)' => att'[v] = att[v] /\ Running(v)
    BY Zenon, <1>4 DEF OtherAttempts, Running, Active, HasMessage
  <2>. QED
    BY Zenon, <1>3, <1>7, <2>1, QuotaStill
<1>8. ASSUME NEW x, messages' = [messages EXCEPT ![id] = x] PROVE CopyKeepsQuota'
  <2>. SUFFICES ASSUME NEW v \in Workers, Running(v)', att'[v].ev.id \notin overran
                PROVE  /\ messages'[att'[v].ev.id] # None
                       /\ att'[v].msg.quota = messages'[att'[v].ev.id].quota
    BY Zenon, <1>3 DEF CopyKeepsQuota
  <2>1. v # w /\ att'[v] = att[v] /\ Running(v)
    BY Zenon, <1>4 DEF OtherAttempts, Running, Active, HasMessage
  <2>2. att[v].ev.id # id
    BY Zenon, <1>2, <2>1 DEF Exclusive, Running
  <2>3. att[v].ev.id \in Ids
    BY Zenon, <2>1, RunningOK DEF Running, Active
  <2>4. messages'[att[v].ev.id] = messages[att[v].ev.id]
    BY Zenon, <1>8, <2>2, <2>3 DEF TypeOK
  <2>. QED
    BY Zenon, <2>1, <2>4 DEF QuotaInv, CopyKeepsQuota
<1>9. HoldersFinite
  BY Zenon DEF QuotaInv
<1>10. ASSUME overran = {}, NEW q \in QuotaIds
       PROVE  /\ counters[q] >= Cardinality(HoldersOf(q)) /\ counters[q] \in Int
              /\ IsFiniteSet(HoldersOf(q)) /\ Cardinality(HoldersOf(q)) \in Nat
              /\ q \in a.msg.quota <=> id \in HoldersOf(q)
  <2>1. counters[q] >= Cardinality(HoldersOf(q)) /\ counters[q] \in Int /\ IsFiniteSet(HoldersOf(q))
    BY Zenon, <1>9, <1>10 DEF QuotaInv, QuotaCovered, HoldersFinite, TypeOK
  <2>2. messages[id] # None /\ a.msg.quota = messages[id].quota
    BY Zenon, <1>2, <1>10 DEF QuotaInv, CopyKeepsQuota
  <2>3. q \in a.msg.quota <=> id \in HoldersOf(q)
    BY Zenon, <1>2, <2>2 DEF HoldersOf
  <2>. QED
    BY Zenon, <2>1, <2>3, FS_CardinalityType
<1>11. CASE messages' = [messages EXCEPT ![id] = b] /\ UNCHANGED counters
  <2>1. ASSUME overran = {}, NEW q \in QuotaIds PROVE counters'[q] >= Cardinality(HoldersOf(q)')
    <3>0. HoldersOf(q)' = IF b # None /\ q \in b.quota THEN HoldersOf(q) \cup {id}
                                                       ELSE HoldersOf(q) \ {id}
      BY Zenon, <1>2, <1>9, <1>11, HoldersChange
    <3>1. HoldersOf(q)' \in SUBSET HoldersOf(q)
      <4>1. q \in b.quota => id \in HoldersOf(q)
        BY Zenon, <1>6, <1>10, <2>1
      <4>. QED
        BY Zenon, <3>0, <4>1
    <3>2. IsFiniteSet(HoldersOf(q)') /\ Cardinality(HoldersOf(q)') <= Cardinality(HoldersOf(q))
      BY Zenon, <1>10, <2>1, <3>1, FS_Subset
    <3>3. Cardinality(HoldersOf(q)') \in Nat
      BY Zenon, <3>2, FS_CardinalityType
    <3>. QED
      BY SMTT(30), <1>10, <1>11, <2>1, <3>2, <3>3
  <2>2. QuotaCovered'
    BY Zenon, <1>3, <2>1 DEF QuotaCovered
  <2>. QED
    BY Zenon, <1>2, <1>8, <1>9, <1>11, <2>2, HoldersChange DEF QuotaInv
<1>12. CASE /\ messages' = [messages EXCEPT ![id] = None]
            /\ counters' = [q \in QuotaIds |-> counters[q] - IF q \in a.msg.quota THEN 1 ELSE 0]
  <2>1. ASSUME overran = {}, NEW q \in QuotaIds PROVE counters'[q] >= Cardinality(HoldersOf(q)')
    <3>1. HoldersOf(q)' = HoldersOf(q) \ {id}
      BY Zenon, <1>2, <1>9, <1>12, HoldersChange
    <3>2. Cardinality(HoldersOf(q) \ {id}) =
            IF id \in HoldersOf(q) THEN Cardinality(HoldersOf(q)) - 1 ELSE Cardinality(HoldersOf(q))
      BY Zenon, <1>10, <2>1, FS_RemoveElement
    <3>3. counters'[q] = counters[q] - IF q \in a.msg.quota THEN 1 ELSE 0
      BY Zenon, <1>12
    <3>. QED
      BY SMTT(30), <1>10, <2>1, <3>1, <3>2, <3>3
  <2>2. QuotaCovered'
    BY Zenon, <1>3, <2>1 DEF QuotaCovered
  <2>. QED
    BY Zenon, <1>2, <1>8, <1>9, <1>12, <2>2, HoldersChange DEF QuotaInv
<1>. QED
  BY Zenon, <1>5, <1>7, <1>11, <1>12

\* Steps of an attempt that keep to its copy.
LEMMA QuotaQuiet ==
    ASSUME TypeOK, QuotaInv, NEW w \in Workers,
           \/ FetchNothing(w) \/ Fetch(w) \/ AdmitSender(w) \/ SkipDomain(w) \/ OpenSession(w)
           \/ SendDsnBefore(w) \/ SendDsnAfter(w) \/ HoldDomain(w)
           \/ \E refill \in Refills : RateLimitDomain(w, refill)
           \/ \E ans : SessionDone(w, ans)
           \/ \E ans, s : SessionFailed(w, ans, s)
    PROVE  QuotaInv'
<1>. DEFINE a  == att[w]
            id == att[w].ev.id
<1>1. UNCHANGED <<messages, counters, overran>> /\ a.pc \notin {"idle", "notify"}
  BY Zenon DEF FetchNothing, AdmitSender, ReadyToDeliver, SkipDomain, OpenSession, SendDsnBefore,
         SendDsnAfter, SendDsn, HoldDomain, CanThrottle, RateLimitDomain, Fetch, SessionDone,
         SessionFailed, store
<1>2. Active(w) /\ a \in AttRec /\ id \in Ids /\ (HasMessage(w) => a.msg \in Message)
  BY Zenon, <1>1, RunningOK DEF Active, TypeOK, HasMessage
<1>3. ASSUME OtherAttempts(w),
             Running(w)' =>
               /\ att'[w].ev = a.ev
               /\ \/ HasMessage(w) /\ att'[w].msg.quota = a.msg.quota
                  \/ messages[id] # None /\ att'[w].msg.quota = messages[id].quota
      PROVE  QuotaInv'
  <2>1. \A v \in Workers \ {w} : Running(v)' => att'[v] = att[v] /\ Running(v)
    BY Zenon, <1>3 DEF OtherAttempts, Running, Active, HasMessage
  <2>. QED
    BY Zenon, <1>1, <1>2, <1>3, <2>1, QuotaStill DEF Running
<1>4. CASE FetchNothing(w)
  <2>1. att'[w].pc = "idle" /\ OtherAttempts(w)
    BY Zenon, <1>4 DEF FetchNothing, Idle, OtherAttempts, TypeOK
  <2>. QED
    BY Zenon, <1>3, <2>1 DEF Running, Active
<1>5. CASE Fetch(w)
  <2>1. messages[id] # None /\ messages[id] \in Message
    BY ZenonT(40), <1>2, <1>5 DEF Fetch, TypeOK
  <2>2. att'[w].msg = HasPendingDelivery(messages[id], now) /\ att'[w].ev = a.ev /\ OtherAttempts(w)
    BY Zenon, <1>2, <1>5 DEF Fetch, OtherAttempts, TypeOK, AttRec
  <2>3. att'[w].msg.quota = messages[id].quota
    BY SMTT(30), <2>1, <2>2, QuotaFixed
  <2>. QED
    BY Zenon, <1>3, <2>1, <2>2, <2>3
<1>6. CASE AdmitSender(w) \/ OpenSession(w)
  <2>1. HasMessage(w)
    BY Zenon, <1>6 DEF AdmitSender, ReadyToDeliver, OpenSession, HasMessage
  <2>2. ASSUME AdmitSender(w) PROVE att'[w].msg = a.msg /\ att'[w].ev = a.ev /\ OtherAttempts(w)
    BY Zenon, <1>2, <2>2 DEF AdmitSender, OtherAttempts, TypeOK, AttRec
  <2>3. ASSUME OpenSession(w) PROVE att'[w].msg = a.msg /\ att'[w].ev = a.ev /\ OtherAttempts(w)
    BY Zenon, <1>2, <2>3 DEF OpenSession, Goto, OtherAttempts, TypeOK, AttRec
  <2>. QED
    BY Zenon, <1>3, <1>6, <2>1, <2>2, <2>3
<1>7. ASSUME NEW b, b.quota = a.msg.quota, HasMessage(w), NEW hold,
             att' = NextDomain(w, b) \/ att' = [NextDomain(w, b) EXCEPT ![w].hold = hold]
      PROVE  QuotaInv'
  <2>1. att'[w].msg = b /\ att'[w].ev = a.ev /\ OtherAttempts(w)
    BY SMTT(30), <1>2, <1>7 DEF NextDomain, TypeOK, OtherAttempts, AttRec
  <2>. QED
    BY Zenon, <1>3, <1>7, <2>1
<1>8. CASE SkipDomain(w)
  BY Zenon, <1>7, <1>8 DEF SkipDomain, HasMessage
<1>9. CASE HoldDomain(w)
  <2>. DEFINE b == ThrottleConcurrency(a.msg, a.cur)
  <2>1. HasMessage(w)
    BY Zenon, <1>9 DEF HoldDomain, CanThrottle, HasMessage
  <2>2. att' = [NextDomain(w, b) EXCEPT ![w].hold = NextDomain(w, b)[w].hold \cup {a.cur}]
    BY Zenon, <1>9 DEF HoldDomain
  <2>3. b.quota = a.msg.quota
    BY Zenon, <1>2, <2>1, QuotaFixed
  <2>. HIDE DEF b
  <2>. QED
    BY Zenon, <1>7, <2>1, <2>2, <2>3
<1>10. ASSUME NEW refill \in Refills, RateLimitDomain(w, refill) PROVE QuotaInv'
  <2>. DEFINE b == ThrottleRate(a.msg, a.cur, now + refill)
  <2>1. HasMessage(w) /\ att' = NextDomain(w, b)
    BY Zenon, <1>10 DEF RateLimitDomain, CanThrottle, HasMessage
  <2>2. b.quota = a.msg.quota
    BY SMTT(30), <1>2, <2>1, QuotaFixed
  <2>. HIDE DEF b
  <2>. QED
    BY Zenon, <1>7, <2>1, <2>2
<1>11. ASSUME NEW ans, SessionDone(w, ans) PROVE QuotaInv'
  <2>. DEFINE b == DeliverDone(a.msg, a.cur, ans, now)
  <2>1. HasMessage(w) /\ att' = NextDomain(w, b)
    BY Zenon, <1>11 DEF SessionDone, HasMessage
  <2>2. b.quota = a.msg.quota
    BY SMTT(30), <1>2, <2>1, QuotaFixed
  <2>. HIDE DEF b
  <2>. QED
    BY Zenon, <1>7, <2>1, <2>2
<1>12. ASSUME NEW ans, NEW s, SessionFailed(w, ans, s) PROVE QuotaInv'
  <2>. DEFINE b == DeliverFailed(a.msg, a.cur, ans, s, now)
  <2>1. HasMessage(w) /\ att' = NextDomain(w, b)
    BY Zenon, <1>12 DEF SessionFailed, HasMessage
  <2>2. b.quota = a.msg.quota
    BY SMTT(30), <1>2, <2>1, QuotaFixed
  <2>. HIDE DEF b
  <2>. QED
    BY Zenon, <1>7, <2>1, <2>2
<1>13. ASSUME NEW to, HasMessage(w), SendDsn(w, to) PROVE QuotaInv'
  <2>. DEFINE b == IF id \in NullSender THEN HandleDoubleBounce(a.msg) ELSE BuildDsn(a.msg, now)
  <2>1. b.quota = a.msg.quota
    BY Zenon, <1>2, <1>13, QuotaFixed
  <2>2. att'[w].msg = b /\ att'[w].ev = a.ev /\ OtherAttempts(w)
    BY Zenon, <1>2, <1>13 DEF SendDsn, OtherAttempts, TypeOK, AttRec
  <2>. HIDE DEF b
  <2>. QED
    BY Zenon, <1>3, <1>13, <2>1, <2>2
<1>14. CASE SendDsnBefore(w) \/ SendDsnAfter(w)
  BY Zenon, <1>13, <1>14 DEF SendDsnBefore, SendDsnAfter, HasMessage
<1>. QED
  BY Zenon, <1>4, <1>5, <1>6, <1>8, <1>9, <1>10, <1>11, <1>12, <1>14

\* queue reserves the keys of a message that held none.
LEMMA QuotaQueued ==
    ASSUME TypeOK, OnlyAccepted, QuotaInv, NEW m \in Ids, Queue(m)
    PROVE  QuotaInv'
<1>1. session[m] = "checked" /\ UNCHANGED <<att, overran>>
  BY Zenon DEF Queue
<1>2. messages[m] = None /\ \A v \in Workers : Running(v) => att[v].ev.id # m
  BY Zenon, <1>1 DEF OnlyAccepted, Running, Active
<1>3. CASE UNCHANGED <<messages, counters>>
  <2>1. \A v \in Workers : Running(v)' => att'[v] = att[v] /\ Running(v)
    BY Zenon, <1>1 DEF Running, Active, HasMessage
  <2>. QED
    BY Zenon, <1>1, <1>3, <2>1, QuotaStill
<1>4. ASSUME NEW release \in Releases, QueueMessageWrite(m, release) PROVE QuotaInv'
  <2>. DEFINE b == NewMessage(now + release, DOMAIN QuotaLimit)
  <2>1. now + release \in Nat /\ DOMAIN QuotaLimit \in SUBSET QuotaIds
    BY SMTT(30), QueueAssumption DEF TypeOK
  <2>2. /\ messages' = [messages EXCEPT ![m] = b]
        /\ counters' = [q \in QuotaIds |-> counters[q] + IF q \in b.quota THEN 1 ELSE 0]
    BY Zenon, <1>4 DEF QueueMessageWrite
  <2>3. b # None
    BY Zenon, <2>1, NewMessageType, NoneIsNoMessage
  <2>. HIDE DEF b
  <2>4. CopyKeepsQuota'
    <3>. SUFFICES ASSUME NEW v \in Workers, Running(v)', att'[v].ev.id \notin overran
                  PROVE  /\ messages'[att'[v].ev.id] # None
                         /\ att'[v].msg.quota = messages'[att'[v].ev.id].quota
      BY Zenon, <1>1 DEF CopyKeepsQuota
    <3>1. att'[v] = att[v] /\ Running(v)
      BY Zenon, <1>1 DEF Running, Active, HasMessage
    <3>2. att[v].ev.id \in Ids
      BY Zenon, <3>1, RunningOK DEF Running, Active
    <3>3. messages'[att[v].ev.id] = messages[att[v].ev.id]
      BY Zenon, <1>2, <2>2, <3>1, <3>2 DEF TypeOK
    <3>. QED
      BY Zenon, <3>1, <3>3 DEF QuotaInv, CopyKeepsQuota
  <2>5. HoldersFinite
    BY Zenon DEF QuotaInv
  <2>6. ASSUME overran = {}, NEW q \in QuotaIds PROVE counters'[q] >= Cardinality(HoldersOf(q)')
    <3>1. counters[q] >= Cardinality(HoldersOf(q)) /\ counters[q] \in Int /\ IsFiniteSet(HoldersOf(q))
      BY Zenon, <2>5, <2>6 DEF QuotaInv, QuotaCovered, HoldersFinite, TypeOK
    <3>2. Cardinality(HoldersOf(q)) \in Nat
      BY Zenon, <3>1, FS_CardinalityType
    <3>3. m \notin HoldersOf(q)
      BY Zenon, <1>2 DEF HoldersOf
    <3>4. HoldersOf(q)' = IF q \in b.quota THEN HoldersOf(q) \cup {m} ELSE HoldersOf(q)
      <4>1. HoldersOf(q)' = IF b # None /\ q \in b.quota THEN HoldersOf(q) \cup {m}
                                                         ELSE HoldersOf(q) \ {m}
        BY Zenon, <2>2, <2>5, HoldersChange
      <4>2. HoldersOf(q) \ {m} = HoldersOf(q)
        BY Zenon, <3>3
      <4>. QED
        BY Zenon, <2>3, <4>1, <4>2
    <3>5. Cardinality(HoldersOf(q) \cup {m}) = Cardinality(HoldersOf(q)) + 1
      BY Zenon, <3>1, <3>3, FS_AddElement
    <3>6. counters'[q] = counters[q] + IF q \in b.quota THEN 1 ELSE 0
      BY Zenon, <2>2
    <3>. QED
      BY SMTT(30), <3>1, <3>2, <3>4, <3>5, <3>6
  <2>7. QuotaCovered'
    BY Zenon, <1>1, <2>6 DEF QuotaCovered
  <2>. QED
    BY Zenon, <2>2, <2>4, <2>5, <2>7, HoldersChange DEF QuotaInv
<1>. QED
  BY Zenon, <1>3, <1>4 DEF Queue, store

LEMMA QuotaStep ==
    ASSUME IInv, Exclusive, QuotaInv, [Next]_vars
    PROVE  QuotaInv'
<1>0. TypeOK /\ OnlyAccepted
  BY Zenon DEF IInv
<1>1. ASSUME UNCHANGED <<messages, counters>>, overran \subseteq overran',
             \A v \in Workers : att'[v] = att[v] \/ ~Running(v)'
      PROVE  QuotaInv'
  <2>1. \A v \in Workers : Running(v)' => att'[v] = att[v] /\ Running(v)
    BY Zenon, <1>1 DEF Running, Active, HasMessage
  <2>. QED
    BY Zenon, <1>1, <2>1, QuotaStill
<1>2. CASE UNCHANGED vars
  BY Zenon, <1>1, <1>2 DEF vars, store
<1>3. ASSUME NEW w \in Workers, NEW k \in tasks, TryLock(k, w) PROVE QuotaInv'
  <2>1. ~Running(w)' /\ \A v \in Workers \ {w} : att'[v] = att[v]
    BY Zenon, <1>0, <1>3 DEF TryLock, Running, HasMessage, TypeOK, Idle
  <2>. QED
    BY Zenon, <1>1, <1>3, <2>1 DEF TryLock
<1>4. ASSUME NEW w \in Workers, Notify(w) PROVE QuotaInv'
  <2>1. ~Running(w)' /\ \A v \in Workers \ {w} : att'[v] = att[v]
    BY Zenon, <1>0, <1>4 DEF Notify, Running, Active, TypeOK, Idle
  <2>. QED
    BY Zenon, <1>1, <1>4, <2>1 DEF Notify, store
<1>5. ASSUME NEW w \in Workers, Attempt(w) PROVE QuotaInv'
  BY ZenonT(40), <1>0, <1>3, <1>4, <1>5, QuotaQuiet, QuotaWrite DEF Attempt
<1>6. ASSUME NEW n \in Nodes, Crash(n) PROVE QuotaInv'
  <2>1. \A v \in Workers : att'[v] = att[v] \/ att'[v] = Idle
    BY Zenon, <1>6 DEF Crash
  <2>2. \A v \in Workers : att'[v] = Idle => ~Running(v)'
    BY SMTT(30) DEF Running, Active, Idle
  <2>. QED
    BY Zenon, <1>1, <1>6, <2>1, <2>2 DEF Crash, store
<1>7. CASE Tick
  BY Zenon, <1>1, <1>7 DEF Tick, store
<1>8. CASE \/ \E m \in Ids : HasQuota(m)
           \/ \E n \in Nodes : Spawn(n)
           \/ \E h \in held : Unhold(h)
           \/ \E k \in tasks : LockBusy(k)
  BY Zenon, <1>1, <1>8 DEF HasQuota, Spawn, Unhold, LockBusy, store
<1>9. ASSUME NEW m \in Ids, Queue(m) PROVE QuotaInv'
  BY Zenon, <1>0, <1>9, QuotaQueued
<1>. QED
  BY ZenonT(40), <1>2, <1>5, <1>6, <1>7, <1>8, <1>9 DEF Next

\* The counters that has_quota reads never fall below what the stored messages have
\* reserved, as long as no attempt has outlived its lock: queue adds a message's keys
\* once, save_changes takes keys out of the message only, and remove gives back
\* exactly the keys that the stored message still has.
THEOREM QuotaIsCovered == Spec => []QuotaCovered
<1>1. Init => QuotaInv
  <2>. SUFFICES ASSUME Init PROVE QuotaInv
    BY Zenon
  <2>1. \A q \in QuotaIds : HoldersOf(q) = {}
    BY Zenon DEF Init, HoldersOf
  <2>2. \A q \in QuotaIds : IsFiniteSet(HoldersOf(q)) /\ Cardinality(HoldersOf(q)) = 0
    BY Zenon, <2>1, FS_EmptySet
  <2>3. \A q \in QuotaIds : counters[q] >= Cardinality(HoldersOf(q))
    BY SMTT(30), <2>2 DEF Init
  <2>4. CopyKeepsQuota
    BY Zenon DEF Init, CopyKeepsQuota, Running, Active, Idle
  <2>. QED
    BY Zenon, <2>2, <2>3, <2>4 DEF QuotaInv, HoldersFinite, QuotaCovered
<1>2. IInv /\ Exclusive /\ QuotaInv /\ [Next]_vars => QuotaInv'
  BY Zenon, QuotaStep
<1>3. QuotaInv => QuotaCovered
  BY Zenon DEF QuotaInv
<1>. QED
  BY <1>1, <1>2, <1>3, Inductive, AttemptsExclusive, PTL DEF Spec
=============================================================================
