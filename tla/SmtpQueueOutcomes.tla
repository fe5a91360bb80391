------------------------- MODULE SmtpQueueOutcomes --------------------------
(***************************************************************************)
(* Proofs about what becomes of the recipients in SmtpQueue: none is       *)
(* forgotten, whatever fails, none is delivered to twice unless an attempt *)
(* was cut short or outlived its lock, and the event of a queued message   *)
(* is due by its next retry.                                               *)
(***************************************************************************)
EXTENDS SmtpQueueProofs

\* A copy c of a message claims nothing that did not happen: D are the recipients
\* delivered to, F those that failed.
Claims(c, D, F) ==
    \A r \in Rcpts :
        /\ c.rcpt[r] = "completed" => r \in D
        /\ c.rcpt[r] = "perm" => r \in F
        /\ InFinalState(c.domain[DomainOf[r]].status) => r \in D \cup F
        /\ c.domain[DomainOf[r]].status = "completed" => InFinalState(c.rcpt[r])

CopiesSettled ==
    /\ \A m \in Ids : messages[m] # None => Claims(messages[m], delivered[m], failed[m])
    /\ \A w \in Workers : HasMessage(w) =>
         Claims(att[w].msg, delivered[att[w].ev.id], failed[att[w].ev.id])

LEMMA ClaimsGrow ==
    ASSUME NEW c, NEW D, NEW F, NEW D2, NEW F2, Claims(c, D, F), D \subseteq D2, F \subseteq F2
    PROVE  Claims(c, D2, F2)
BY Zenon DEF Claims

\* A change of flags, times and quota keys.
SameStatuses(b, c) ==
    /\ b.rcpt = c.rcpt
    /\ \A d \in Domains : b.domain[d].status = c.domain[d].status

LEMMA ClaimsSame ==
    ASSUME NEW b, NEW c, NEW D, NEW F, Claims(b, D, F), SameStatuses(b, c)
    PROVE  Claims(c, D, F)
BY Zenon, MessageAssumption DEF Claims, SameStatuses

LEMMA ClaimsNew ==
    ASSUME NEW t \in Nat, NEW keys \in SUBSET QuotaIds, NEW D, NEW F
    PROVE  Claims(NewMessage(t, keys), D, F)
BY Zenon, MessageAssumption DEF Claims, NewMessage, InFinalState

LEMMA ClaimsExpiry ==
    ASSUME NEW m \in Message, NEW t \in Nat, NEW D, NEW F, Claims(m, D, F), NEW F2, F \subseteq F2,
           \A r \in Rcpts : /\ ~InFinalState(m.rcpt[r]) /\ DomainOf[r] \in PendingDomains(m)
                            /\ m.domain[DomainOf[r]].expires <= t
                            => r \in F2
    PROVE  Claims(HasPendingDelivery(m, t), D, F2)
<1>. DEFINE c == HasPendingDelivery(m, t)
<1>1. /\ \A r \in Rcpts :
           \/ c.rcpt[r] = m.rcpt[r]
           \/ /\ c.rcpt[r] = "perm" /\ m.rcpt[r] = "temp"
              /\ DomainOf[r] \in PendingDomains(m) /\ m.domain[DomainOf[r]].expires <= t
      /\ \A d \in Domains :
           \/ c.domain[d].status = m.domain[d].status
           \/ /\ c.domain[d].status = "perm"
              /\ d \in PendingDomains(m) /\ m.domain[d].expires <= t
  BY Zenon, HasPendingDeliveryType
<1>. HIDE DEF c
<1>. SUFFICES ASSUME NEW r \in Rcpts
              PROVE  /\ c.rcpt[r] = "completed" => r \in D
                     /\ c.rcpt[r] = "perm" => r \in F2
                     /\ InFinalState(c.domain[DomainOf[r]].status) => r \in D \cup F2
                     /\ c.domain[DomainOf[r]].status = "completed" => InFinalState(c.rcpt[r])
  BY Zenon DEF Claims, c
<1>2. DomainOf[r] \in Domains
  BY Zenon, MessageAssumption
<1>3. /\ m.rcpt[r] = "completed" => r \in D
      /\ m.rcpt[r] = "perm" => r \in F
      /\ InFinalState(m.domain[DomainOf[r]].status) => r \in D \cup F
      /\ m.domain[DomainOf[r]].status = "completed" => InFinalState(m.rcpt[r])
  BY Zenon DEF Claims
<1>4. InFinalState(m.rcpt[r]) => r \in D \cup F
  BY Zenon, <1>3 DEF InFinalState
<1>. QED
  BY Zenon, <1>1, <1>2, <1>3, <1>4 DEF InFinalState

LEMMA ClaimsDone ==
    ASSUME NEW m \in Message, NEW d \in Domains, NEW t \in Nat,
           NEW ans \in [PendingRcpts(m, d) -> Status], NEW D, NEW F, Claims(m, D, F)
    PROVE  Claims(DeliverDone(m, d, ans, t), D \cup {r \in DOMAIN ans : ans[r] = "completed"},
                                             F \cup {r \in DOMAIN ans : ans[r] = "perm"})
<1>. DEFINE c  == DeliverDone(m, d, ans, t)
            D2 == D \cup {r \in DOMAIN ans : ans[r] = "completed"}
            F2 == F \cup {r \in DOMAIN ans : ans[r] = "perm"}
<1>1. /\ c.rcpt = [r \in Rcpts |-> IF r \in PendingRcpts(m, d) THEN ans[r] ELSE m.rcpt[r]]
      /\ \A x \in Domains \ {d} : c.domain[x] = m.domain[x]
      /\ InFinalState(c.domain[d].status) =>
           \A r \in Rcpts : DomainOf[r] = d => InFinalState(c.rcpt[r])
  BY SMTT(30), DeliverDoneType
<1>. HIDE DEF c
<1>. SUFFICES ASSUME NEW r \in Rcpts
              PROVE  /\ c.rcpt[r] = "completed" => r \in D2
                     /\ c.rcpt[r] = "perm" => r \in F2
                     /\ InFinalState(c.domain[DomainOf[r]].status) => r \in D2 \cup F2
                     /\ c.domain[DomainOf[r]].status = "completed" => InFinalState(c.rcpt[r])
  BY Zenon DEF Claims, c
<1>2. DomainOf[r] \in Domains
  BY Zenon, MessageAssumption
<1>3. /\ m.rcpt[r] = "completed" => r \in D
      /\ m.rcpt[r] = "perm" => r \in F
      /\ InFinalState(m.domain[DomainOf[r]].status) => r \in D \cup F
      /\ m.domain[DomainOf[r]].status = "completed" => InFinalState(m.rcpt[r])
  BY Zenon DEF Claims
<1>4. (c.rcpt[r] = "completed" => r \in D2) /\ (c.rcpt[r] = "perm" => r \in F2)
  BY Zenon, <1>1, <1>3
<1>5. CASE DomainOf[r] = d
  BY Zenon, <1>1, <1>4, <1>5 DEF InFinalState
<1>6. CASE DomainOf[r] # d
  <2>1. r \notin PendingRcpts(m, d)
    BY Zenon, <1>6 DEF PendingRcpts
  <2>2. c.rcpt[r] = m.rcpt[r] /\ c.domain[DomainOf[r]] = m.domain[DomainOf[r]]
    BY Zenon, <1>1, <1>2, <1>6, <2>1
  <2>. QED
    BY Zenon, <1>3, <1>4, <2>2
<1>. QED
  BY Zenon, <1>5, <1>6

LEMMA ClaimsFailed ==
    ASSUME NEW m \in Message, NEW d \in Domains, NEW t \in Nat, NEW s \in Status \ {"completed"},
           NEW T \in SUBSET PendingRcpts(m, d), NEW ans \in [T -> Status \ {"completed"}],
           NEW D, NEW F, Claims(m, D, F), NEW F2, F \subseteq F2,
           \A r \in PendingRcpts(m, d) : s = "perm" \/ (r \in T /\ ans[r] = "perm") => r \in F2
    PROVE  Claims(DeliverFailed(m, d, ans, s, t), D, F2)
<1>. DEFINE c  == DeliverFailed(m, d, ans, s, t)
<1>1. /\ c.rcpt = [r \in Rcpts |-> IF r \in T THEN ans[r] ELSE m.rcpt[r]]
      /\ \A x \in Domains \ {d} : c.domain[x] = m.domain[x]
      /\ c.domain[d].status = s
  BY SMTT(30), DeliverFailedType
<1>. HIDE DEF c
<1>. SUFFICES ASSUME NEW r \in Rcpts
              PROVE  /\ c.rcpt[r] = "completed" => r \in D
                     /\ c.rcpt[r] = "perm" => r \in F2
                     /\ InFinalState(c.domain[DomainOf[r]].status) => r \in D \cup F2
                     /\ c.domain[DomainOf[r]].status = "completed" => InFinalState(c.rcpt[r])
  BY Zenon DEF Claims, c
<1>2. DomainOf[r] \in Domains
  BY Zenon, MessageAssumption
<1>3. /\ m.rcpt[r] = "completed" => r \in D
      /\ m.rcpt[r] = "perm" => r \in F
      /\ InFinalState(m.domain[DomainOf[r]].status) => r \in D \cup F
      /\ m.domain[DomainOf[r]].status = "completed" => InFinalState(m.rcpt[r])
  BY Zenon DEF Claims
<1>4. (c.rcpt[r] = "completed" => r \in D) /\ (c.rcpt[r] = "perm" => r \in F2)
  <2>1. CASE r \in T
    BY Zenon, <1>1, <2>1
  <2>2. CASE r \notin T
    BY Zenon, <1>1, <1>3, <2>2
  <2>. QED
    BY Zenon, <2>1, <2>2
<1>5. CASE DomainOf[r] = d
  <2>1. InFinalState(s) => s = "perm"
    BY Zenon DEF InFinalState
  <2>2. r \notin PendingRcpts(m, d) => InFinalState(m.rcpt[r])
    BY Zenon, <1>5 DEF PendingRcpts
  <2>3. s = "perm" => r \in D \cup F2
    BY Zenon, <1>3, <2>2 DEF InFinalState
  <2>. QED
    BY Zenon, <1>1, <1>4, <1>5, <2>1, <2>3
<1>6. CASE DomainOf[r] # d
  <2>1. r \notin T
    BY Zenon, <1>6 DEF PendingRcpts
  <2>2. c.rcpt[r] = m.rcpt[r] /\ c.domain[DomainOf[r]] = m.domain[DomainOf[r]]
    BY Zenon, <1>1, <1>2, <1>6, <2>1
  <2>. QED
    BY Zenon, <1>3, <1>4, <2>2
<1>. QED
  BY Zenon, <1>5, <1>6

-----------------------------------------------------------------------------
(* No recipient is forgotten.                                              *)

Grows == \A m \in Ids : delivered[m] \subseteq delivered'[m] /\ failed[m] \subseteq failed'[m]

\* The claims of the attempt's copy, and of a message it writes, after the step.
MsgSettled(w) ==
    HasMessage(w)' => Claims(att'[w].msg, delivered'[att'[w].ev.id], failed'[att'[w].ev.id])

RowSettled(m) ==
    \/ messages'[m] = messages[m]
    \/ messages'[m] = None /\ Rcpts = delivered'[m] \cup failed'[m]
    \/ messages'[m] # None /\ Claims(messages'[m], delivered'[m], failed'[m])

SettledStep(w) ==
    OtherAttempts(w) /\ Grows /\ MsgSettled(w) /\ session' = session /\ \A m \in Ids : RowSettled(m)

OutcomeInv == CopiesSettled /\ NoRcptForgotten

LEMMA SettledKept ==
    ASSUME TypeOK, TypeOK', OutcomeInv, NEW w \in Workers, SettledStep(w)
    PROVE  OutcomeInv'
<1>1. \A m \in Ids : messages'[m] # None => Claims(messages'[m], delivered'[m], failed'[m])
  <2>. SUFFICES ASSUME NEW m \in Ids, messages'[m] # None
                PROVE  Claims(messages'[m], delivered'[m], failed'[m])
    BY Zenon
  <2>1. CASE messages'[m] = messages[m]
    BY Zenon, <2>1, ClaimsGrow DEF OutcomeInv, CopiesSettled, SettledStep, Grows
  <2>. QED
    BY Zenon, <2>1 DEF SettledStep, RowSettled
<1>2. ASSUME NEW v \in Workers, HasMessage(v)'
      PROVE  Claims(att'[v].msg, delivered'[att'[v].ev.id], failed'[att'[v].ev.id])
  <2>1. CASE v = w
    BY Zenon, <1>2, <2>1 DEF SettledStep, MsgSettled
  <2>2. CASE v # w
    <3>1. att'[v] = att[v] /\ HasMessage(v)
      BY Zenon, <1>2, <2>2 DEF SettledStep, OtherAttempts, HasMessage
    <3>2. att[v].ev.id \in Ids
      BY Zenon, <3>1, RunningOK DEF HasMessage
    <3>. QED
      BY SMTT(30), <3>1, <3>2, ClaimsGrow DEF OutcomeInv, CopiesSettled, SettledStep, Grows
  <2>. QED
    BY Zenon, <2>1, <2>2
<1>3. NoRcptForgotten'
  <2>. SUFFICES ASSUME NEW m \in Ids, session'[m] = "accepted", messages'[m] = None
                PROVE  Rcpts = delivered'[m] \cup failed'[m]
    BY Zenon DEF NoRcptForgotten
  <2>1. delivered'[m] \cup failed'[m] \subseteq Rcpts
    BY Zenon DEF TypeOK
  <2>2. CASE messages'[m] = messages[m]
    BY Zenon, <2>1, <2>2 DEF OutcomeInv, NoRcptForgotten, SettledStep, Grows
  <2>. QED
    BY Zenon, <2>2 DEF SettledStep, RowSettled
<1>. QED
  BY Zenon, <1>1, <1>2, <1>3 DEF OutcomeInv, CopiesSettled

\* A message that is removed has no pending domain, hence no pending recipient.
LEMMA RemovedIsDone ==
    ASSUME TypeOK, NEW id \in Ids, NEW c \in Message, Claims(c, delivered[id], failed[id]),
           PendingDomains(c) = {}
    PROVE  Rcpts = delivered[id] \cup failed[id]
<1>1. \A r \in Rcpts : DomainOf[r] \in Domains
  BY Zenon, MessageAssumption
<1>2. \A r \in Rcpts : InFinalState(c.domain[DomainOf[r]].status)
  BY Zenon, <1>1 DEF PendingDomains
<1>3. Rcpts \subseteq delivered[id] \cup failed[id]
  BY Zenon, <1>2 DEF Claims
<1>4. delivered[id] \cup failed[id] \subseteq Rcpts
  BY Zenon DEF TypeOK
<1>. QED
  BY Zenon, <1>3, <1>4

\* Steps of an attempt that leave the store alone.
LEMMA SettledRun ==
    ASSUME TypeOK, OutcomeInv, NEW w \in Workers,
           \/ \E k \in tasks : TryLock(k, w)
           \/ FetchNothing(w) \/ Notify(w) \/ AdmitSender(w) \/ SkipDomain(w) \/ OpenSession(w)
           \/ SendDsnBefore(w) \/ SendDsnAfter(w) \/ HoldDomain(w)
           \/ \E refill \in Refills : RateLimitDomain(w, refill)
    PROVE  SettledStep(w)
<1>. DEFINE a == att[w]
<1>0. CopiesSettled
  BY Zenon DEF OutcomeInv
<1>1. UNCHANGED <<messages, session, delivered, failed>>
  BY Zenon DEF TryLock, FetchNothing, Notify, AdmitSender, SkipDomain, OpenSession, SendDsnBefore,
         SendDsnAfter, SendDsn, HoldDomain, RateLimitDomain, store, outcome
<1>2. Grows /\ \A m \in Ids : RowSettled(m)
  BY Zenon, <1>1 DEF Grows, RowSettled
<1>3. ASSUME NEW b, att' = [att EXCEPT ![w] = b],
             b.pc \notin {"idle", "fetch"} =>
               b.ev = a.ev /\ Claims(b.msg, delivered[a.ev.id], failed[a.ev.id])
      PROVE  SettledStep(w)
  BY Zenon, <1>1, <1>2, <1>3 DEF SettledStep, MsgSettled, OtherAttempts, HasMessage, TypeOK
<1>4. ASSUME NEW k \in tasks, TryLock(k, w) PROVE SettledStep(w)
  BY Zenon, <1>3, <1>4 DEF TryLock, Idle
<1>5. CASE FetchNothing(w) \/ Notify(w)
  BY Zenon, <1>3, <1>5 DEF FetchNothing, Notify, Idle
<1>6. HasMessage(w) => a.msg \in Message /\ Claims(a.msg, delivered[a.ev.id], failed[a.ev.id])
  BY Zenon, <1>0, RunningOK DEF CopiesSettled, HasMessage
<1>7. CASE AdmitSender(w)
  <2>1. att' = [att EXCEPT ![w] = [a EXCEPT !.pc = "deliver", !.cur = 1]]
    BY Zenon, <1>7 DEF AdmitSender, TypeOK
  <2>2. HasMessage(w) /\ a \in AttRec
    BY Zenon, <1>7 DEF AdmitSender, ReadyToDeliver, HasMessage, TypeOK
  <2>3. [a EXCEPT !.pc = "deliver", !.cur = 1].ev = a.ev /\ [a EXCEPT !.pc = "deliver", !.cur = 1].msg = a.msg
    BY Zenon, <2>2 DEF AttRec
  <2>. QED
    BY Zenon, <1>3, <1>6, <2>1, <2>2, <2>3
<1>8. CASE OpenSession(w)
  <2>1. att' = [att EXCEPT ![w] = [a EXCEPT !.pc = "session"]]
    BY Zenon, <1>8 DEF OpenSession, Goto, TypeOK
  <2>2. HasMessage(w) /\ a \in AttRec
    BY Zenon, <1>8 DEF OpenSession, HasMessage, TypeOK
  <2>3. [a EXCEPT !.pc = "session"].ev = a.ev /\ [a EXCEPT !.pc = "session"].msg = a.msg
    BY Zenon, <2>2 DEF AttRec
  <2>. QED
    BY Zenon, <1>3, <1>6, <2>1, <2>2, <2>3
<1>9. ASSUME NEW m \in Message, a.pc \in {"deliver", "session"}, NEW hold,
             Claims(m, delivered[a.ev.id], failed[a.ev.id]),
             \/ att' = NextDomain(w, m)
             \/ att' = [NextDomain(w, m) EXCEPT ![w].hold = hold]
      PROVE  SettledStep(w)
  <2>1. a \in AttRec
    BY Zenon DEF TypeOK
  <2>2. att'[w].msg = m /\ att'[w].ev = a.ev /\ OtherAttempts(w)
    BY SMTT(30), <1>9, <2>1 DEF NextDomain, TypeOK, OtherAttempts, AttRec
  <2>. QED
    BY Zenon, <1>1, <1>2, <1>9, <2>2 DEF SettledStep, MsgSettled
<1>10. CASE SkipDomain(w)
  BY Zenon, <1>6, <1>9, <1>10 DEF SkipDomain, HasMessage
<1>11. ASSUME CanThrottle(w)
       PROVE  a.pc \in {"deliver", "session"} /\ a.cur \in Domains /\ HasMessage(w) /\ now \in Nat
  BY Zenon, <1>11 DEF CanThrottle, CurrentIsDue, TypeOK, Consistent, HasMessage
<1>12. ASSUME NEW m \in Message, NEW c \in Message, NEW d \in Domains, Claims(c, delivered[a.ev.id], failed[a.ev.id]),
              m.rcpt = c.rcpt, m.domain[d].status = "temp",
              \A x \in Domains \ {d} : m.domain[x] = c.domain[x]
       PROVE  Claims(m, delivered[a.ev.id], failed[a.ev.id])
  BY Zenon, <1>12, MessageAssumption DEF Claims, InFinalState
<1>13. CASE HoldDomain(w)
  <2>. DEFINE m == ThrottleConcurrency(a.msg, a.cur)
  <2>1. a.msg \in Message /\ a.cur \in Domains /\ a.pc \in {"deliver", "session"}
        /\ Claims(a.msg, delivered[a.ev.id], failed[a.ev.id])
    BY Zenon, <1>6, <1>11, <1>13 DEF HoldDomain
  <2>2. m \in Message /\ m.rcpt = a.msg.rcpt /\ m.domain[a.cur].status = "temp"
        /\ \A x \in Domains \ {a.cur} : m.domain[x] = a.msg.domain[x]
    BY ZenonT(40), <2>1, ThrottleType DEF TypeOK
  <2>3. att' = [NextDomain(w, m) EXCEPT ![w].hold = NextDomain(w, m)[w].hold \cup {a.cur}]
    BY <1>13 DEF HoldDomain
  <2>. HIDE DEF m
  <2>4. Claims(m, delivered[a.ev.id], failed[a.ev.id])
    BY Zenon, <1>12, <2>1, <2>2
  <2>. QED
    BY Zenon, <1>9, <2>1, <2>2, <2>3, <2>4
<1>14. ASSUME NEW refill \in Refills, RateLimitDomain(w, refill) PROVE SettledStep(w)
  <2>. DEFINE m == ThrottleRate(a.msg, a.cur, now + refill)
  <2>1. a.msg \in Message /\ a.cur \in Domains /\ a.pc \in {"deliver", "session"}
        /\ Claims(a.msg, delivered[a.ev.id], failed[a.ev.id])
    BY Zenon, <1>6, <1>11, <1>14 DEF RateLimitDomain
  <2>2. now + refill \in Nat
    BY SMTT(30), QueueAssumption DEF TypeOK
  <2>3. m \in Message /\ m.rcpt = a.msg.rcpt /\ m.domain[a.cur].status = "temp"
        /\ \A x \in Domains \ {a.cur} : m.domain[x] = a.msg.domain[x]
    BY ZenonT(40), <2>1, <2>2, ThrottleType
  <2>4. att' = NextDomain(w, m)
    BY Zenon, <1>14 DEF RateLimitDomain
  <2>. HIDE DEF m
  <2>5. Claims(m, delivered[a.ev.id], failed[a.ev.id])
    BY Zenon, <1>12, <2>1, <2>3
  <2>. QED
    BY Zenon, <1>9, <2>1, <2>3, <2>4, <2>5
<1>15. ASSUME NEW to, HasMessage(w), SendDsn(w, to) PROVE SettledStep(w)
  <2>. DEFINE m == IF a.ev.id \in NullSender THEN HandleDoubleBounce(a.msg) ELSE BuildDsn(a.msg, now)
  <2>1. SameStatuses(a.msg, m)
    <3>1. a.msg \in Message /\ now \in Nat
      BY Zenon, <1>6, <1>15 DEF TypeOK
    <3>2. SameStatuses(a.msg, BuildDsn(a.msg, now)) /\ SameStatuses(a.msg, HandleDoubleBounce(a.msg))
      BY Zenon, <3>1, DsnType DEF SameStatuses
    <3>. QED
      BY Zenon, <3>2
  <2>2. Claims(m, delivered[a.ev.id], failed[a.ev.id])
    BY Zenon, <1>6, <1>15, <2>1, ClaimsSame
  <2>3. att' = [att EXCEPT ![w] = [a EXCEPT !.pc = to, !.msg = m]]
    BY Zenon, <1>15 DEF SendDsn, TypeOK
  <2>4. a \in AttRec
    BY Zenon DEF TypeOK
  <2>. HIDE DEF m
  <2>5. [a EXCEPT !.pc = to, !.msg = m].ev = a.ev /\ [a EXCEPT !.pc = to, !.msg = m].msg = m
    BY Zenon, <2>4 DEF AttRec
  <2>. QED
    BY ZenonT(40), <1>3, <2>2, <2>3, <2>5
<1>16. CASE SendDsnBefore(w) \/ SendDsnAfter(w)
  BY Zenon, <1>15, <1>16 DEF SendDsnBefore, SendDsnAfter, HasMessage
<1>. QED
  BY Zenon, <1>4, <1>5, <1>7, <1>8, <1>10, <1>13, <1>14, <1>16

\* Steps that decide about recipients.
LEMMA SettledDecision ==
    ASSUME TypeOK, OutcomeInv, NEW w \in Workers,
           \/ Fetch(w)
           \/ /\ att[w].pc = "session"
              /\ \/ \E ans \in [PendingRcpts(att[w].msg, att[w].cur) -> RcptAnswers] :
                       SessionDone(w, ans)
                 \/ \E ans \in Answers(PendingRcpts(att[w].msg, att[w].cur),
                                       RcptAnswers \ {"completed"}),
                       s \in DomainAnswers : SessionFailed(w, ans, s)
    PROVE  SettledStep(w)
<1>. DEFINE a  == att[w]
            id == att[w].ev.id
<1>0. CopiesSettled
  BY Zenon DEF OutcomeInv
<1>1. a.pc # "idle" /\ id \in Ids /\ a.ev \in Event /\ a \in AttRec /\ now \in Nat
  BY Zenon, RunningOK DEF Fetch, TypeOK
<1>2. UNCHANGED <<messages, session>>
  BY Zenon DEF Fetch, SessionDone, SessionFailed, store
<1>3. \A m \in Ids : RowSettled(m)
  BY Zenon, <1>2 DEF RowSettled
<1>4. ASSUME Fetch(w) PROVE SettledStep(w)
  <2>. DEFINE m == messages[id]
              new == {r \in Rcpts : /\ ~InFinalState(m.rcpt[r])
                                    /\ DomainOf[r] \in PendingDomains(m)
                                    /\ m.domain[DomainOf[r]].expires <= now}
  <2>1. m \in Message /\ Claims(m, delivered[id], failed[id])
    BY Zenon, <1>0, <1>1, <1>4 DEF Fetch, TypeOK, CopiesSettled
  <2>2. delivered' = delivered /\ failed' = [failed EXCEPT ![id] = @ \cup new]
    BY Zenon, <1>4 DEF Fetch
  <2>3. failed[id] \cup new = failed'[id] /\ Grows
    BY Zenon, <1>1, <2>2 DEF TypeOK, Grows
  <2>4. Claims(HasPendingDelivery(m, now), delivered[id], failed[id] \cup new)
    BY Zenon, <1>1, <2>1, ClaimsExpiry
  <2>5. att'[w].msg = HasPendingDelivery(m, now) /\ att'[w].ev = a.ev /\ OtherAttempts(w)
    BY Zenon, <1>1, <1>4 DEF Fetch, OtherAttempts, TypeOK, AttRec
  <2>. QED
    BY Zenon, <1>2, <1>3, <2>2, <2>3, <2>4, <2>5 DEF SettledStep, MsgSettled
<1>5. a.pc = "session" => a.msg \in Message /\ a.cur \in Domains
                          /\ Claims(a.msg, delivered[id], failed[id])
  BY Zenon, <1>0, RunningOK DEF TypeOK, Consistent, CopiesSettled, HasMessage
<1>6. ASSUME NEW m, att' = NextDomain(w, m)
      PROVE  att'[w].msg = m /\ att'[w].ev = a.ev /\ OtherAttempts(w)
  BY Zenon, <1>1, <1>6 DEF NextDomain, OtherAttempts, TypeOK, AttRec
<1>7. ASSUME NEW ans \in [PendingRcpts(a.msg, a.cur) -> RcptAnswers], SessionDone(w, ans)
      PROVE  SettledStep(w)
  <2>. DEFINE ok  == {r \in DOMAIN ans : ans[r] = "completed"}
              bad == {r \in DOMAIN ans : ans[r] = "perm"}
              m   == DeliverDone(a.msg, a.cur, ans, now)
  <2>1. ans \in [PendingRcpts(a.msg, a.cur) -> Status]
    BY Zenon, QueueAssumption DEF Status
  <2>2. a.pc = "session"
    BY Zenon, <1>7 DEF SessionDone
  <2>3. Claims(m, delivered[id] \cup ok, failed[id] \cup bad)
    BY Zenon, <1>1, <1>5, <2>1, <2>2, ClaimsDone
  <2>4. /\ delivered' = [delivered EXCEPT ![id] = @ \cup ok]
        /\ failed' = [failed EXCEPT ![id] = @ \cup bad]
        /\ att' = NextDomain(w, m)
    BY Zenon, <1>7 DEF SessionDone
  <2>. HIDE DEF ok, bad, m
  <2>5. delivered'[id] = delivered[id] \cup ok /\ failed'[id] = failed[id] \cup bad /\ Grows
    BY Zenon, <1>1, <2>4 DEF TypeOK, Grows
  <2>6. att'[w].msg = m /\ att'[w].ev = a.ev /\ OtherAttempts(w)
    BY Zenon, <1>6, <2>4
  <2>. QED
    BY Zenon, <1>2, <1>3, <2>3, <2>5, <2>6 DEF SettledStep, MsgSettled
<1>8. ASSUME a.pc = "session",
             NEW T \in SUBSET PendingRcpts(a.msg, a.cur),
             NEW ans \in [T -> RcptAnswers \ {"completed"}],
             NEW s \in DomainAnswers, SessionFailed(w, ans, s)
      PROVE  SettledStep(w)
  <2>. DEFINE bad == {r \in PendingRcpts(a.msg, a.cur) : s = "perm" \/ (r \in T /\ ans[r] = "perm")}
              m   == DeliverFailed(a.msg, a.cur, ans, s, now)
  <2>1. ans \in [T -> Status \ {"completed"}] /\ s \in Status \ {"completed"} /\ DOMAIN ans = T
    BY Zenon, QueueAssumption DEF Status
  <2>6. a.msg \in Message /\ a.cur \in Domains /\ now \in Nat /\ Claims(a.msg, delivered[id], failed[id])
    BY Zenon, <1>1, <1>5, <1>8
  <2>2. Claims(m, delivered[id], failed[id] \cup bad)
    BY Zenon, <2>1, <2>6, ClaimsFailed
  <2>3. /\ delivered' = delivered
        /\ failed' = [failed EXCEPT ![id] = @ \cup bad]
        /\ att' = NextDomain(w, m)
    BY Zenon, <1>8, <2>1 DEF SessionFailed
  <2>. HIDE DEF bad, m
  <2>4. failed'[id] = failed[id] \cup bad /\ Grows
    BY Zenon, <1>1, <2>3 DEF TypeOK, Grows
  <2>5. att'[w].msg = m /\ att'[w].ev = a.ev /\ OtherAttempts(w)
    BY Zenon, <1>6, <2>3
  <2>. QED
    BY Zenon, <1>2, <1>3, <2>2, <2>3, <2>4, <2>5 DEF SettledStep, MsgSettled
<1>. QED
  BY Zenon, <1>4, <1>7, <1>8 DEF Answers

\* Steps that write the attempt's copy back, or remove the message.
LEMMA SettledWrite ==
    ASSUME TypeOK, OutcomeInv, NEW w \in Workers,
           \/ RemoveExpired(w) \/ Requeue(w) \/ HoldSender(w)
           \/ \E refill \in Refills : RateLimitSender(w, refill)
           \/ FinishOnHold(w) \/ FinishIncomplete(w) \/ FinishCompleted(w)
    PROVE  SettledStep(w)
<1>. DEFINE a  == att[w]
            id == att[w].ev.id
<1>1. a.pc \in {"decide", "finish"}
  BY Zenon DEF RemoveExpired, Requeue, HoldSender, RateLimitSender, ReadyToDeliver,
         FinishOnHold, FinishIncomplete, FinishCompleted
<1>2. id \in Ids /\ a.msg \in Message /\ a \in AttRec /\ Claims(a.msg, delivered[id], failed[id])
  BY Zenon, <1>1, RunningOK DEF TypeOK, OutcomeInv, CopiesSettled, HasMessage
<1>3. UNCHANGED <<session, delivered, failed>> /\ Grows
  BY Zenon DEF RemoveExpired, Requeue, HoldSender, RateLimitSender, FinishOnHold, FinishIncomplete,
         FinishCompleted, outcome, Grows
<1>4. att'[w].ev = a.ev /\ att'[w].msg = a.msg /\ OtherAttempts(w)
  <2>1. ASSUME att' = Goto(w, "notify")
        PROVE  att'[w].ev = a.ev /\ att'[w].msg = a.msg /\ OtherAttempts(w)
    BY Zenon, <1>2, <2>1 DEF Goto, OtherAttempts, TypeOK, AttRec
  <2>2. CASE HoldSender(w)
    BY Zenon, <1>2, <2>2 DEF HoldSender, OtherAttempts, TypeOK, AttRec
  <2>3. CASE FinishOnHold(w)
    BY Zenon, <1>2, <2>3 DEF FinishOnHold, OtherAttempts, TypeOK, AttRec
  <2>. QED
    BY Zenon, <2>1, <2>2, <2>3 DEF RemoveExpired, Requeue, RateLimitSender, FinishIncomplete, FinishCompleted
<1>5. MsgSettled(w)
  BY Zenon, <1>2, <1>3, <1>4 DEF MsgSettled
<1>6. ASSUME NEW prev, NEW next, Write(id, SaveChanges(id, a.msg, prev, next))
      PROVE  \A m \in Ids : RowSettled(m)
  <2>1. Claims(ReleaseQuota(a.msg), delivered[id], failed[id])
    BY Zenon, <1>2, ReleaseQuotaType, ClaimsSame DEF SameStatuses
  <2>2. ReleaseQuota(a.msg) # None
    BY Zenon, <1>2, ReleaseQuotaType, NoneIsNoMessage
  <2>3. messages' = messages \/ messages' = [messages EXCEPT ![id] = ReleaseQuota(a.msg)]
    BY Zenon, <1>6 DEF Write, SaveChanges, store
  <2>. QED
    BY Zenon, <1>2, <1>3, <2>1, <2>2, <2>3 DEF RowSettled, TypeOK
<1>7. ASSUME PendingDomains(a.msg) = {}, Write(id, Remove(id, a.msg, a.ev.due))
      PROVE  \A m \in Ids : RowSettled(m)
  <2>1. Rcpts = delivered[id] \cup failed[id]
    BY Zenon, <1>2, <1>7, RemovedIsDone
  <2>2. messages' = messages \/ messages' = [messages EXCEPT ![id] = None]
    BY Zenon, <1>7 DEF Write, Remove, store
  <2>. QED
    BY Zenon, <1>2, <1>3, <2>1, <2>2 DEF RowSettled, TypeOK
<1>8. \A m \in Ids : RowSettled(m)
  BY Zenon, <1>2, <1>6, <1>7, NextEventType DEF RemoveExpired, Requeue, HoldSender, RateLimitSender,
     FinishOnHold, FinishIncomplete, FinishCompleted
<1>. QED
  BY Zenon, <1>3, <1>4, <1>5, <1>8 DEF SettledStep

LEMMA OutcomeStep ==
    ASSUME TypeOK, TypeOK', OutcomeInv, [Next]_vars
    PROVE  OutcomeInv'
<1>1. ASSUME NEW w \in Workers, Attempt(w) PROVE OutcomeInv'
  BY Zenon, <1>1, SettledRun, SettledDecision, SettledWrite, SettledKept DEF Attempt
<1>2. ASSUME UNCHANGED <<messages, delivered, failed>>,
             \A w \in Workers : att'[w] \in {att[w], Idle},
             \A m \in Ids : session'[m] = "accepted" => session[m] = "accepted"
      PROVE  OutcomeInv'
  <2>1. \A w \in Workers : HasMessage(w)' => HasMessage(w) /\ att'[w] = att[w]
    BY SMTT(30), <1>2 DEF HasMessage, Idle
  <2>. QED
    BY Zenon, <1>2, <2>1 DEF OutcomeInv, CopiesSettled, NoRcptForgotten
<1>3. CASE UNCHANGED vars
  BY Zenon, <1>2, <1>3 DEF vars, store, outcome
<1>4. ASSUME NEW m \in Ids, HasQuota(m) PROVE OutcomeInv'
  BY Zenon, <1>2, <1>4 DEF HasQuota, store, outcome, TypeOK
<1>5. ASSUME NEW n \in Nodes, Spawn(n) PROVE OutcomeInv'
  BY Zenon, <1>2, <1>5 DEF Spawn, store, outcome
<1>6. ASSUME NEW n \in Nodes, Crash(n) PROVE OutcomeInv'
  BY Zenon, <1>2, <1>6 DEF Crash, store, outcome
<1>7. ASSUME NEW h \in held, Unhold(h) PROVE OutcomeInv'
  BY Zenon, <1>2, <1>7 DEF Unhold, store, outcome
<1>8. ASSUME NEW k \in tasks, LockBusy(k) PROVE OutcomeInv'
  BY Zenon, <1>2, <1>8 DEF LockBusy, store, outcome
<1>9. CASE Tick
  BY Zenon, <1>2, <1>9 DEF Tick, store, outcome
<1>10. ASSUME NEW m \in Ids, Queue(m) PROVE OutcomeInv'
  <2>1. UNCHANGED <<att, delivered, failed>>
    BY Zenon, <1>10 DEF Queue, outcome
  <2>2. CASE UNCHANGED store /\ session' = [session EXCEPT ![m] = "refused"]
    BY Zenon, <1>2, <2>1, <2>2 DEF store, TypeOK
  <2>3. ASSUME NEW release \in Releases, QueueMessageWrite(m, release),
               session' = [session EXCEPT ![m] = "accepted"]
        PROVE  OutcomeInv'
    <3>. DEFINE msg == NewMessage(now + release, DOMAIN QuotaLimit)
    <3>1. now + release \in Nat /\ DOMAIN QuotaLimit \in SUBSET QuotaIds
      BY SMTT(30), QueueAssumption DEF TypeOK
    <3>2. Claims(msg, delivered[m], failed[m])
      BY Zenon, <3>1, ClaimsNew
    <3>3. msg # None
      BY Zenon, <3>1, NewMessageType, NoneIsNoMessage
    <3>4. messages' = [messages EXCEPT ![m] = msg]
      BY Zenon, <2>3 DEF QueueMessageWrite
    <3>. HIDE DEF msg
    <3>. QED
      BY ZenonT(40), <2>1, <2>3, <3>2, <3>3, <3>4 DEF OutcomeInv, CopiesSettled, NoRcptForgotten, TypeOK, HasMessage
  <2>. QED
    BY Zenon, <1>10, <2>2, <2>3 DEF Queue
<1>. QED
  BY Zenon, <1>1, <1>3, <1>4, <1>5, <1>6, <1>7, <1>8, <1>9, <1>10 DEF Next

\* Every copy of a message, in the store or in the hands of an attempt, says only what
\* happened to its recipients (OutcomeInv); remove is only reached without a pending
\* domain.
LEMMA OutcomeInductive == Spec => []OutcomeInv
<1>1. Init => OutcomeInv
  BY SMTT(30) DEF Init, OutcomeInv, CopiesSettled, NoRcptForgotten, HasMessage, Idle
<1>2. TypeOK /\ TypeOK' /\ OutcomeInv /\ [Next]_vars => OutcomeInv'
  BY Zenon, OutcomeStep
<1>. QED
  BY <1>1, <1>2, TypeCorrect, PTL DEF Spec

\* No accepted message leaves the queue (try_deliver's remove) with a recipient that
\* was neither delivered to, nor refused, nor expired: for any number of nodes, any
\* crash, failed read or write and any overrun lock.
THEOREM NothingForgotten == Spec => []NoRcptForgotten
<1>1. OutcomeInv => NoRcptForgotten
  BY Zenon DEF OutcomeInv
<1>. QED
  BY <1>1, OutcomeInductive, PTL

\* The case build_dsn declares impossible is impossible: no copy of a message has a
\* completed domain with an open recipient.
THEOREM CompletedDomainsDone == Spec => []CompletedDomainIsDone
<1>1. TypeOK /\ OutcomeInv => CompletedDomainIsDone
  BY Zenon DEF OutcomeInv, CopiesSettled, Claims, CompletedDomainIsDone, Copies
<1>. QED
  BY <1>1, OutcomeInductive, TypeCorrect, PTL

-----------------------------------------------------------------------------
(* No recipient is delivered to twice.                                     *)

\* The copy c knows the recipients D that were delivered to, and the failed
\* recipients R that were reported.
Knows(c, D, R) == (\A r \in D : c.rcpt[r] = "completed") /\ R \subseteq c.dsn

\* The attempt works on its own copy of the message.
Running(w) == Active(w) /\ HasMessage(w)

RunningOn(m) == {w \in Workers : Running(w) /\ att[w].ev.id = m}

\* As long as no attempt on m was cut short or outlived its lock, the copy that counts
\* (the running attempt's, else the stored one) knows every delivery and report.
Once(m) ==
    /\ duplicated[m] = {} /\ rebounced[m] = {}
    /\ \A w \in RunningOn(m) : Knows(att[w].msg, delivered[m], reported[m])
    /\ RunningOn(m) = {} /\ messages[m] # None => Knows(messages[m], delivered[m], reported[m])
    /\ session[m] # "accepted" => delivered[m] = {} /\ reported[m] = {}

OnceInv == \A m \in Ids \ (overran \cup interrupted) : Once(m)

HistoryGrows == overran \subseteq overran' /\ interrupted \subseteq interrupted'

\* Nothing that Once(m) is about changes.
LEMMA OnceSame ==
    ASSUME OnceInv, HistoryGrows, NEW m \in Ids \ (overran' \cup interrupted'),
           duplicated'[m] = duplicated[m], delivered'[m] = delivered[m],
           rebounced'[m] = rebounced[m], reported'[m] = reported[m],
           messages'[m] = messages[m], session'[m] = "accepted" <=> session[m] = "accepted",
           \A v \in Workers : v \in RunningOn(m)' <=> v \in RunningOn(m),
           \A v \in RunningOn(m) : att'[v].msg = att[v].msg
    PROVE  Once(m)'
<1>1. Once(m)
  BY Zenon DEF OnceInv, HistoryGrows
<1>2. RunningOn(m)' = RunningOn(m)
  BY Zenon DEF RunningOn
<1>. QED
  BY Zenon, <1>1, <1>2 DEF Once

\* A step of a running attempt: of its own message, either the new copy knows every
\* delivery, or the attempt ends and the stored copy does.
OnceStep(w) ==
    LET id == att[w].ev.id
    IN  /\ Active(w) /\ OtherAttempts(w) /\ HistoryGrows /\ session' = session
        /\ \A m \in Ids \ {id} : /\ messages'[m] = messages[m]
                                 /\ delivered'[m] = delivered[m]
                                 /\ duplicated'[m] = duplicated[m]
                                 /\ reported'[m] = reported[m]
                                 /\ rebounced'[m] = rebounced[m]
        /\ att'[w].pc # "idle" => att'[w].ev = att[w].ev
        /\ id \notin overran' \cup interrupted' =>
             /\ duplicated'[id] = {} /\ rebounced'[id] = {}
             /\ \/ Running(w)' /\ Knows(att'[w].msg, delivered'[id], reported'[id])
                \/ /\ ~Active(w)'
                   /\ messages'[id] # None => Knows(messages'[id], delivered'[id], reported'[id])

LEMMA OnceKept ==
    ASSUME TypeOK, Exclusive, OnlyAccepted, OnceInv, NEW w \in Workers, OnceStep(w)
    PROVE  OnceInv'
<1>0. PICK id \in Ids : id = att[w].ev.id
  BY Zenon, RunningOK DEF OnceStep, Active
<1>1. /\ OtherAttempts(w) /\ HistoryGrows /\ session' = session /\ Active(w)
      /\ att'[w].pc # "idle" => att'[w].ev = att[w].ev
  BY Zenon DEF OnceStep
<1>2. ASSUME NEW m \in Ids \ (overran' \cup interrupted'), m # id PROVE Once(m)'
  <2>1. \A v \in Workers \ {w} : v \in RunningOn(m)' <=> v \in RunningOn(m)
    BY Zenon, <1>0, <1>1 DEF OtherAttempts, RunningOn, Running, Active, HasMessage
  <2>2. w \notin RunningOn(m) /\ w \notin RunningOn(m)'
    BY Zenon, <1>0, <1>1, <1>2 DEF RunningOn, Running, Active
  <2>3. \A v \in RunningOn(m) : att'[v].msg = att[v].msg
    BY Zenon, <1>0, <1>1, <2>2 DEF RunningOn, OtherAttempts
  <2>. QED
    BY Zenon, <1>0, <1>1, <1>2, <2>1, <2>2, <2>3, OnceSame DEF OnceStep
<1>3. ASSUME id \notin overran' \cup interrupted' PROVE Once(id)'
  <2>1. Once(id) /\ id \notin overran
    BY Zenon, <1>0, <1>1, <1>3 DEF OnceInv, HistoryGrows
  <2>2. \A v \in Workers \ {w} : v \notin RunningOn(id)
    BY Zenon, <1>0, <1>1, <2>1 DEF Exclusive, RunningOn, Running
  <2>3. \A v \in Workers \ {w} : v \notin RunningOn(id)'
    BY Zenon, <1>0, <1>1, <2>2 DEF OtherAttempts, RunningOn, Running, Active, HasMessage
  <2>4. session'[id] = "accepted"
    BY Zenon, <1>0, <1>1 DEF OnlyAccepted, Owns, Active
  <2>5. duplicated'[id] = {} /\ rebounced'[id] = {}
    BY Zenon, <1>0, <1>3 DEF OnceStep
  <2>6. CASE Running(w)' /\ Knows(att'[w].msg, delivered'[id], reported'[id])
    <3>1. w \in RunningOn(id)'
      BY Zenon, <1>0, <1>1, <2>6 DEF RunningOn, Running, Active
    <3>. QED
      BY Zenon, <2>3, <2>4, <2>5, <2>6, <3>1 DEF Once, RunningOn
  <2>7. CASE /\ ~Active(w)'
             /\ messages'[id] # None => Knows(messages'[id], delivered'[id], reported'[id])
    <3>1. w \notin RunningOn(id)'
      BY Zenon, <2>7 DEF RunningOn, Running
    <3>2. RunningOn(id)' = {}
      BY Zenon, <2>3, <3>1 DEF RunningOn
    <3>. QED
      BY Zenon, <2>4, <2>5, <2>7, <3>2 DEF Once
  <2>. QED
    BY Zenon, <1>0, <1>3, <2>6, <2>7 DEF OnceStep
<1>. QED
  BY Zenon, <1>2, <1>3 DEF OnceInv

\* What a running attempt knows.
LEMMA OnceCopy ==
    ASSUME TypeOK, Exclusive, OnceInv, NEW w \in Workers, Active(w),
           att[w].ev.id \notin overran \cup interrupted
    PROVE  LET id == att[w].ev.id
           IN  /\ duplicated[id] = {} /\ rebounced[id] = {}
               /\ HasMessage(w) => Knows(att[w].msg, delivered[id], reported[id])
               /\ ~HasMessage(w) /\ messages[id] # None =>
                    Knows(messages[id], delivered[id], reported[id])
<1>. DEFINE id == att[w].ev.id
<1>1. Once(id) /\ id \in Ids
  BY Zenon, RunningOK DEF OnceInv, Active
<1>2. HasMessage(w) => w \in RunningOn(id)
  BY Zenon DEF RunningOn, Running
<1>3. ~HasMessage(w) => RunningOn(id) = {}
  BY Zenon DEF RunningOn, Running, Exclusive
<1>. QED
  BY Zenon, <1>1, <1>2, <1>3 DEF Once

\* Steps of an attempt that keep to its copy and deliver to no one.
LEMMA OnceQuiet ==
    ASSUME TypeOK, Exclusive, OnceInv, NEW w \in Workers,
           \/ FetchNothing(w) \/ Fetch(w) \/ AdmitSender(w) \/ SkipDomain(w) \/ OpenSession(w)
           \/ SendDsnBefore(w) \/ SendDsnAfter(w) \/ HoldDomain(w)
           \/ \E refill \in Refills : RateLimitDomain(w, refill)
    PROVE  OnceStep(w)
<1>. DEFINE a  == att[w]
            id == att[w].ev.id
<1>1. /\ UNCHANGED <<messages, session, delivered, duplicated, overran, interrupted>>
      /\ SendDsnBefore(w) \/ SendDsnAfter(w) \/ UNCHANGED <<reported, rebounced>>
      /\ a.pc \notin {"idle", "notify"}
  BY Zenon DEF FetchNothing, AdmitSender, ReadyToDeliver, SkipDomain, OpenSession, SendDsnBefore,
         SendDsnAfter, SendDsn, HoldDomain, CanThrottle, RateLimitDomain, Fetch, store, outcome
<1>2. Active(w) /\ a \in AttRec /\ now \in Nat /\ HistoryGrows /\ id \in Ids /\ a.ev \in Event
      /\ (HasMessage(w) => a.msg \in Message)
  BY Zenon, <1>1, RunningOK DEF Active, TypeOK, HistoryGrows, HasMessage
<1>3. ASSUME id \notin overran \cup interrupted
      PROVE  /\ duplicated[id] = {} /\ rebounced[id] = {}
             /\ HasMessage(w) => Knows(a.msg, delivered[id], reported[id])
             /\ a.pc = "fetch" /\ messages[id] # None =>
                  Knows(messages[id], delivered[id], reported[id])
  BY Zenon, <1>2, <1>3, OnceCopy DEF HasMessage
<1>4. ASSUME NEW b \in Message, att'[w].msg = b, att'[w].ev = a.ev, OtherAttempts(w),
             att'[w].pc \in {"dsn", "decide", "deliver", "session", "finish"},
             \A m \in Ids \ {id} : reported'[m] = reported[m] /\ rebounced'[m] = rebounced[m],
             id \notin overran \cup interrupted =>
                Knows(b, delivered[id], reported'[id]) /\ rebounced'[id] = {}
      PROVE  OnceStep(w)
  BY Zenon, <1>1, <1>2, <1>3, <1>4 DEF OnceStep, Running, Active, HasMessage
<1>5. CASE FetchNothing(w)
  <2>1. /\ att'[w].pc = "idle" /\ OtherAttempts(w) /\ a.pc = "fetch"
        /\ UNCHANGED <<reported, rebounced>>
    BY Zenon, <1>5 DEF FetchNothing, Idle, OtherAttempts, TypeOK, outcome
  <2>. QED
    BY Zenon, <1>1, <1>2, <1>3, <2>1 DEF OnceStep, Active
<1>6. CASE Fetch(w)
  <2>. DEFINE m == messages[id]
              b == HasPendingDelivery(m, now)
  <2>1. m \in Message /\ a.pc = "fetch" /\ m # None
    BY ZenonT(40), <1>2, <1>6 DEF Fetch, TypeOK
  <2>2. b \in Message /\ b.dsn = m.dsn /\ \A r \in Rcpts : b.rcpt[r] = m.rcpt[r] \/ m.rcpt[r] = "temp"
    BY SMTT(30), <1>2, <2>1, HasPendingDeliveryType
  <2>3. /\ att'[w].msg = b /\ att'[w].ev = a.ev /\ OtherAttempts(w) /\ att'[w].pc = "dsn"
        /\ UNCHANGED <<reported, rebounced>>
    BY Zenon, <1>2, <1>6 DEF Fetch, OtherAttempts, TypeOK, AttRec
  <2>. HIDE DEF b
  <2>4. Knows(m, delivered[id], reported[id]) => Knows(b, delivered[id], reported[id])
    BY Zenon, <1>2, <2>2 DEF Knows, TypeOK
  <2>. QED
    BY Zenon, <1>3, <1>4, <2>1, <2>2, <2>3, <2>4
<1>7. ASSUME NEW b \in Message, HasMessage(w), b.rcpt = a.msg.rcpt, b.dsn = a.msg.dsn,
             UNCHANGED <<reported, rebounced>>
      PROVE  /\ \A m \in Ids \ {id} : reported'[m] = reported[m] /\ rebounced'[m] = rebounced[m]
             /\ id \notin overran \cup interrupted =>
                  Knows(b, delivered[id], reported'[id]) /\ rebounced'[id] = {}
  BY Zenon, <1>3, <1>7 DEF Knows
<1>8. CASE AdmitSender(w)
  <2>1. att'[w].msg = a.msg /\ att'[w].ev = a.ev /\ OtherAttempts(w) /\ att'[w].pc = "deliver"
    BY Zenon, <1>2, <1>8 DEF AdmitSender, OtherAttempts, TypeOK, AttRec
  <2>2. HasMessage(w) /\ UNCHANGED <<reported, rebounced>>
    BY Zenon, <1>8 DEF AdmitSender, ReadyToDeliver, HasMessage, outcome
  <2>. QED
    BY Zenon, <1>2, <1>4, <1>7, <2>1, <2>2
<1>9. CASE OpenSession(w)
  <2>1. att'[w].msg = a.msg /\ att'[w].ev = a.ev /\ OtherAttempts(w) /\ att'[w].pc = "session"
    BY Zenon, <1>2, <1>9 DEF OpenSession, Goto, OtherAttempts, TypeOK, AttRec
  <2>2. HasMessage(w) /\ UNCHANGED <<reported, rebounced>>
    BY Zenon, <1>9 DEF OpenSession, HasMessage, outcome
  <2>. QED
    BY Zenon, <1>2, <1>4, <1>7, <2>1, <2>2
<1>10. ASSUME NEW b \in Message, HasMessage(w), b.rcpt = a.msg.rcpt, b.dsn = a.msg.dsn, NEW hold,
              UNCHANGED <<reported, rebounced>>,
              \/ att' = NextDomain(w, b)
              \/ att' = [NextDomain(w, b) EXCEPT ![w].hold = hold]
       PROVE  OnceStep(w)
  <2>1. att'[w].msg = b /\ att'[w].ev = a.ev /\ OtherAttempts(w) /\ att'[w].pc = "deliver"
    BY SMTT(30), <1>2, <1>10 DEF NextDomain, TypeOK, OtherAttempts, AttRec
  <2>. QED
    BY ZenonT(40), <1>4, <1>7, <1>10, <2>1
<1>11. CASE SkipDomain(w)
  BY Zenon, <1>2, <1>10, <1>11 DEF SkipDomain, HasMessage, outcome
<1>12. ASSUME CanThrottle(w) PROVE a.cur \in Domains /\ HasMessage(w)
  BY Zenon, <1>12 DEF CanThrottle, CurrentIsDue, TypeOK, Consistent, HasMessage
<1>13. CASE HoldDomain(w)
  <2>. DEFINE b == ThrottleConcurrency(a.msg, a.cur)
  <2>1. HasMessage(w) /\ b \in Message /\ b.rcpt = a.msg.rcpt /\ b.dsn = a.msg.dsn
    BY Zenon, <1>2, <1>12, <1>13, ThrottleType DEF HoldDomain
  <2>2. /\ att' = [NextDomain(w, b) EXCEPT ![w].hold = NextDomain(w, b)[w].hold \cup {a.cur}]
        /\ UNCHANGED <<reported, rebounced>>
    BY Zenon, <1>13 DEF HoldDomain, outcome
  <2>. HIDE DEF b
  <2>. QED
    BY Zenon, <1>10, <2>1, <2>2
<1>14. ASSUME NEW refill \in Refills, RateLimitDomain(w, refill) PROVE OnceStep(w)
  <2>. DEFINE b == ThrottleRate(a.msg, a.cur, now + refill)
  <2>1. now + refill \in Nat
    BY SMTT(30), <1>2, QueueAssumption
  <2>2. HasMessage(w) /\ b \in Message /\ b.rcpt = a.msg.rcpt /\ b.dsn = a.msg.dsn
    BY ZenonT(40), <1>2, <1>12, <1>14, <2>1, ThrottleType DEF RateLimitDomain
  <2>3. att' = NextDomain(w, b) /\ UNCHANGED <<reported, rebounced>>
    BY Zenon, <1>14 DEF RateLimitDomain, outcome
  <2>. HIDE DEF b
  <2>. QED
    BY Zenon, <1>10, <2>2, <2>3
<1>15. ASSUME NEW to \in {"decide", "finish"}, HasMessage(w), SendDsn(w, to) PROVE OnceStep(w)
  <2>. DEFINE b    == IF id \in NullSender THEN HandleDoubleBounce(a.msg) ELSE BuildDsn(a.msg, now)
              news == IF id \in NullSender THEN {} ELSE DsnFailure(a.msg) \cap DsnReported(a.msg, now)
  <2>1. b \in Message /\ b.rcpt = a.msg.rcpt /\ a.msg.dsn \subseteq b.dsn /\ news \subseteq b.dsn
    BY Zenon, <1>2, <1>15, DsnType
  <2>2. news \cap a.msg.dsn = {}
    BY Zenon DEF DsnFailure, DsnCandidates
  <2>3. att'[w].msg = b /\ att'[w].ev = a.ev /\ OtherAttempts(w) /\ att'[w].pc = to
    BY Zenon, <1>2, <1>15 DEF SendDsn, OtherAttempts, TypeOK, AttRec
  <2>4. PICK sent : /\ sent \in {{}, news}
                    /\ reported' = [reported EXCEPT ![id] = @ \cup sent]
                    /\ rebounced' = [rebounced EXCEPT ![id] = @ \cup (sent \cap reported[id])]
    BY Zenon, <1>15 DEF SendDsn
  <2>. HIDE DEF b, news
  <2>5. /\ reported'[id] = reported[id] \cup sent
        /\ rebounced'[id] = rebounced[id] \cup (sent \cap reported[id])
        /\ \A m \in Ids \ {id} : reported'[m] = reported[m] /\ rebounced'[m] = rebounced[m]
    BY Zenon, <1>2, <2>4 DEF TypeOK
  <2>6. ASSUME id \notin overran \cup interrupted
        PROVE  Knows(b, delivered[id], reported'[id]) /\ rebounced'[id] = {}
    <3>1. Knows(a.msg, delivered[id], reported[id]) /\ rebounced[id] = {}
      BY Zenon, <1>3, <1>15, <2>6
    <3>. QED
      BY Zenon, <2>1, <2>2, <2>4, <2>5, <3>1 DEF Knows
  <2>. QED
    BY Zenon, <1>4, <1>15, <2>1, <2>3, <2>5, <2>6
<1>16. CASE SendDsnBefore(w) \/ SendDsnAfter(w)
  BY Zenon, <1>15, <1>16 DEF SendDsnBefore, SendDsnAfter, HasMessage
<1>. QED
  BY Zenon, <1>5, <1>6, <1>8, <1>9, <1>11, <1>13, <1>14, <1>16

\* The end of a session.
LEMMA OnceSession ==
    ASSUME TypeOK, Exclusive, OnceInv, NEW w \in Workers, att[w].pc = "session",
           \/ \E ans \in [PendingRcpts(att[w].msg, att[w].cur) -> RcptAnswers] :
                 SessionDone(w, ans)
           \/ \E ans \in Answers(PendingRcpts(att[w].msg, att[w].cur), RcptAnswers \ {"completed"}),
                 s \in DomainAnswers : SessionFailed(w, ans, s)
    PROVE  OnceStep(w)
<1>. DEFINE a  == att[w]
            id == att[w].ev.id
<1>1. /\ a.msg \in Message /\ a.cur \in Domains /\ a \in AttRec /\ now \in Nat /\ id \in Ids
      /\ Active(w) /\ HasMessage(w)
      /\ delivered[id] \subseteq Rcpts
  BY Zenon, RunningOK DEF TypeOK, Consistent, Active, HasMessage
<1>2. /\ UNCHANGED <<messages, session, reported, rebounced, overran, interrupted>> /\ HistoryGrows
  BY Zenon DEF SessionDone, SessionFailed, store, HistoryGrows
<1>3. ASSUME id \notin overran \cup interrupted
      PROVE  /\ duplicated[id] = {} /\ rebounced[id] = {} /\ Knows(a.msg, delivered[id], reported[id])
             /\ delivered[id] \cap PendingRcpts(a.msg, a.cur) = {}
  <2>1. duplicated[id] = {} /\ rebounced[id] = {} /\ Knows(a.msg, delivered[id], reported[id])
    BY Zenon, <1>1, <1>3, OnceCopy
  <2>. QED
    BY Zenon, <2>1 DEF Knows, PendingRcpts, InFinalState
<1>4. ASSUME NEW m, att' = NextDomain(w, m)
      PROVE  att'[w].msg = m /\ att'[w].ev = a.ev /\ OtherAttempts(w) /\ Running(w)'
  BY Zenon, <1>1, <1>4 DEF NextDomain, OtherAttempts, TypeOK, AttRec, Running, Active, HasMessage
<1>5. ASSUME NEW ans \in [PendingRcpts(a.msg, a.cur) -> RcptAnswers], SessionDone(w, ans)
      PROVE  OnceStep(w)
  <2>. DEFINE ok == {r \in DOMAIN ans : ans[r] = "completed"}
              m  == DeliverDone(a.msg, a.cur, ans, now)
  <2>1. ans \in [PendingRcpts(a.msg, a.cur) -> Status]
    BY ZenonT(40), QueueAssumption DEF Status
  <2>2. /\ m.dsn = a.msg.dsn
        /\ m.rcpt = [r \in Rcpts |-> IF r \in PendingRcpts(a.msg, a.cur) THEN ans[r] ELSE a.msg.rcpt[r]]
    BY SMTT(30), <1>1, <2>1, DeliverDoneType
  <2>3. /\ delivered' = [delivered EXCEPT ![id] = @ \cup ok]
        /\ duplicated' = [duplicated EXCEPT ![id] = @ \cup (ok \cap delivered[id])]
        /\ att' = NextDomain(w, m)
    BY Zenon, <1>5 DEF SessionDone
  <2>4. ok \subseteq PendingRcpts(a.msg, a.cur) /\ ok \subseteq Rcpts /\ \A r \in ok : ans[r] = "completed"
    BY Zenon DEF PendingRcpts
  <2>. HIDE DEF ok, m
  <2>5. /\ delivered'[id] = delivered[id] \cup ok
        /\ duplicated'[id] = duplicated[id] \cup (ok \cap delivered[id])
        /\ \A x \in Ids \ {id} : delivered'[x] = delivered[x] /\ duplicated'[x] = duplicated[x]
    BY Zenon, <1>1, <2>3 DEF TypeOK
  <2>6. ASSUME id \notin overran \cup interrupted
        PROVE  duplicated'[id] = {} /\ rebounced'[id] = {} /\ Knows(m, delivered'[id], reported'[id])
    BY ZenonT(40), <1>1, <1>2, <1>3, <2>2, <2>4, <2>5, <2>6 DEF Knows
  <2>7. att'[w].msg = m /\ att'[w].ev = a.ev /\ OtherAttempts(w) /\ Running(w)'
    BY Zenon, <1>4, <2>3
  <2>8. \A x \in Ids \ {id} : /\ messages'[x] = messages[x] /\ delivered'[x] = delivered[x]
                              /\ duplicated'[x] = duplicated[x] /\ reported'[x] = reported[x]
                              /\ rebounced'[x] = rebounced[x]
    BY Zenon, <1>2, <2>5
  <2>. QED
    BY Zenon, <1>1, <1>2, <2>6, <2>7, <2>8 DEF OnceStep
<1>6. ASSUME NEW T \in SUBSET PendingRcpts(a.msg, a.cur),
             NEW ans \in [T -> RcptAnswers \ {"completed"}],
             NEW s \in DomainAnswers, SessionFailed(w, ans, s)
      PROVE  OnceStep(w)
  <2>. DEFINE m == DeliverFailed(a.msg, a.cur, ans, s, now)
  <2>1. ans \in [T -> Status] /\ s \in Status
    BY ZenonT(40), QueueAssumption DEF Status
  <2>2. /\ m.dsn = a.msg.dsn
        /\ m.rcpt = [r \in Rcpts |-> IF r \in T THEN ans[r] ELSE a.msg.rcpt[r]]
    BY SMTT(30), <1>1, <2>1, DeliverFailedType
  <2>3. UNCHANGED <<delivered, duplicated>> /\ att' = NextDomain(w, m)
    BY Zenon, <1>6 DEF SessionFailed
  <2>. HIDE DEF m
  <2>4. ASSUME id \notin overran \cup interrupted
        PROVE  duplicated'[id] = {} /\ rebounced'[id] = {} /\ Knows(m, delivered'[id], reported'[id])
    BY Zenon, <1>1, <1>2, <1>3, <2>2, <2>3, <2>4 DEF Knows
  <2>. QED
    BY Zenon, <1>1, <1>2, <1>4, <2>3, <2>4 DEF OnceStep
<1>. QED
  BY Zenon, <1>5, <1>6 DEF Answers

\* The attempt ends with a write.
LEMMA OnceWrite ==
    ASSUME TypeOK, Exclusive, OnceInv, NEW w \in Workers,
           \/ RemoveExpired(w) \/ Requeue(w) \/ HoldSender(w)
           \/ \E refill \in Refills : RateLimitSender(w, refill)
           \/ FinishOnHold(w) \/ FinishIncomplete(w) \/ FinishCompleted(w)
    PROVE  OnceStep(w)
<1>. DEFINE a  == att[w]
            id == att[w].ev.id
            b  == ReleaseQuota(att[w].msg)
<1>1. a.pc \in {"decide", "finish"}
  BY Zenon DEF RemoveExpired, Requeue, HoldSender, RateLimitSender, ReadyToDeliver,
         FinishOnHold, FinishIncomplete, FinishCompleted
<1>2. id \in Ids /\ a.msg \in Message /\ a \in AttRec /\ Active(w) /\ HasMessage(w)
  BY Zenon, <1>1, RunningOK DEF TypeOK, HasMessage, Active
<1>3. UNCHANGED <<session, delivered, duplicated, reported, rebounced, overran>>
  BY Zenon DEF RemoveExpired, Requeue, HoldSender, RateLimitSender, FinishOnHold, FinishIncomplete,
         FinishCompleted, outcome
<1>4. att'[w].ev = a.ev /\ att'[w].pc = "notify" /\ OtherAttempts(w)
  <2>1. ASSUME att' = Goto(w, "notify")
        PROVE  att'[w].ev = a.ev /\ att'[w].pc = "notify" /\ OtherAttempts(w)
    BY Zenon, <1>2, <2>1 DEF Goto, OtherAttempts, TypeOK, AttRec
  <2>2. CASE HoldSender(w)
    BY Zenon, <1>2, <2>2 DEF HoldSender, OtherAttempts, TypeOK, AttRec
  <2>3. CASE FinishOnHold(w)
    BY Zenon, <1>2, <2>3 DEF FinishOnHold, OtherAttempts, TypeOK, AttRec
  <2>. QED
    BY Zenon, <2>1, <2>2, <2>3 DEF RemoveExpired, Requeue, RateLimitSender, FinishIncomplete, FinishCompleted
<1>5. \/ messages' = messages /\ interrupted' = interrupted \cup {id}
      \/ messages' = [messages EXCEPT ![id] = b] /\ interrupted' = interrupted
      \/ messages' = [messages EXCEPT ![id] = None] /\ interrupted' = interrupted
  BY Zenon DEF RemoveExpired, Requeue, HoldSender, RateLimitSender, FinishOnHold, FinishIncomplete,
         FinishCompleted, Write, SaveChanges, Remove, store
<1>6. b.rcpt = a.msg.rcpt /\ b.dsn = a.msg.dsn
  BY Zenon, <1>2, ReleaseQuotaType
<1>. HIDE DEF b
<1>7. HistoryGrows /\ \A m \in Ids \ {id} : messages'[m] = messages[m]
  BY Zenon, <1>3, <1>5 DEF HistoryGrows, TypeOK
<1>8. ASSUME id \notin overran' \cup interrupted'
      PROVE  /\ duplicated'[id] = {} /\ rebounced'[id] = {}
             /\ messages'[id] # None => Knows(messages'[id], delivered'[id], reported'[id])
  <2>1. duplicated[id] = {} /\ rebounced[id] = {} /\ Knows(a.msg, delivered[id], reported[id])
    BY Zenon, <1>2, <1>7, <1>8, OnceCopy DEF HistoryGrows
  <2>2. messages'[id] # None => messages'[id] = b
    BY Zenon, <1>2, <1>5, <1>8 DEF TypeOK
  <2>. QED
    BY Zenon, <1>3, <1>6, <2>1, <2>2 DEF Knows
<1>. QED
  BY Zenon, <1>2, <1>3, <1>4, <1>7, <1>8 DEF OnceStep, Active

LEMMA OnceInductive ==
    ASSUME IInv, IInv', Exclusive, OnceInv, [Next]_vars
    PROVE  OnceInv'
<1>0. TypeOK /\ OnlyAccepted /\ TypeOK'
  BY Zenon DEF IInv
<1>1. ASSUME HistoryGrows, UNCHANGED <<messages, delivered, duplicated, reported, rebounced>>,
             \A m \in Ids : session'[m] = "accepted" <=> session[m] = "accepted",
             \A v \in Workers :
                \/ att'[v] = att[v]
                \/ /\ ~Running(v)'
                   /\ Running(v) => att[v].ev.id \in interrupted'
      PROVE  OnceInv'
  <2>. SUFFICES ASSUME NEW m \in Ids \ (overran' \cup interrupted') PROVE Once(m)'
    BY Zenon DEF OnceInv
  <2>1. \A v \in Workers : att'[v] = att[v] => (v \in RunningOn(m)' <=> v \in RunningOn(m))
    BY Zenon DEF RunningOn, Running, Active, HasMessage
  <2>2. \A v \in Workers : att'[v] # att[v] => v \notin RunningOn(m)' /\ v \notin RunningOn(m)
    BY Zenon, <1>1 DEF RunningOn
  <2>3. \A v \in RunningOn(m) : att'[v].msg = att[v].msg
    BY Zenon, <2>2 DEF RunningOn
  <2>. QED
    BY Zenon, <1>1, <2>1, <2>2, <2>3, OnceSame
<1>2. CASE UNCHANGED vars
  BY Zenon, <1>1, <1>2 DEF vars, store, outcome, HistoryGrows
<1>3. ASSUME NEW w \in Workers, NEW k \in tasks, TryLock(k, w) PROVE OnceInv'
  <2>1. ~Running(w) /\ ~Running(w)' /\ \A v \in Workers \ {w} : att'[v] = att[v]
    BY Zenon, <1>0, <1>3 DEF TryLock, Running, Active, HasMessage, TypeOK, Idle
  <2>. QED
    BY Zenon, <1>1, <1>3, <2>1 DEF TryLock, HistoryGrows, outcome
<1>4. ASSUME NEW w \in Workers, Notify(w) PROVE OnceInv'
  <2>1. ~Running(w) /\ ~Running(w)' /\ \A v \in Workers \ {w} : att'[v] = att[v]
    BY Zenon, <1>0, <1>4 DEF Notify, Running, Active, HasMessage, TypeOK, Idle
  <2>. QED
    BY Zenon, <1>1, <1>4, <2>1 DEF Notify, HistoryGrows, outcome, store
<1>5. ASSUME NEW w \in Workers, Attempt(w) PROVE OnceInv'
  BY ZenonT(40), <1>0, <1>3, <1>4, <1>5, OnceQuiet, OnceSession, OnceWrite, OnceKept DEF Attempt
<1>6. ASSUME NEW m \in Ids, HasQuota(m) PROVE OnceInv'
  BY Zenon, <1>0, <1>1, <1>6 DEF HasQuota, store, outcome, HistoryGrows, TypeOK
<1>7. ASSUME NEW n \in Nodes, Spawn(n) PROVE OnceInv'
  BY Zenon, <1>1, <1>7 DEF Spawn, store, outcome, HistoryGrows
<1>8. ASSUME NEW n \in Nodes, Crash(n) PROVE OnceInv'
  <2>1. \A v \in Workers :
          att'[v] = att[v] \/ (att'[v] = Idle /\ (Active(v) => att[v].ev.id \in interrupted'))
    BY Zenon, <1>8 DEF Crash
  <2>2. \A v \in Workers : att'[v] = Idle => ~Running(v)'
    BY SMTT(30) DEF Running, Active, Idle
  <2>3. \A v \in Workers : att'[v] = att[v] \/ (~Running(v)' /\ (Running(v) => att[v].ev.id \in interrupted'))
    BY Zenon, <2>1, <2>2 DEF Running
  <2>. QED
    BY Zenon, <1>1, <1>8, <2>3 DEF Crash, store, outcome, HistoryGrows
<1>9. ASSUME NEW h \in held, Unhold(h) PROVE OnceInv'
  BY Zenon, <1>1, <1>9 DEF Unhold, store, outcome, HistoryGrows
<1>10. ASSUME NEW k \in tasks, LockBusy(k) PROVE OnceInv'
  BY Zenon, <1>1, <1>10 DEF LockBusy, store, outcome, HistoryGrows
<1>11. CASE Tick
  BY Zenon, <1>1, <1>11 DEF Tick, store, outcome, HistoryGrows
<1>12. ASSUME NEW m \in Ids, Queue(m) PROVE OnceInv'
  <2>1. /\ UNCHANGED <<att, delivered, duplicated, reported, rebounced, overran, interrupted>>
        /\ session[m] = "checked"
        /\ \A x \in Ids \ {m} : session'[x] = session[x] /\ messages'[x] = messages[x]
    BY Zenon, <1>0, <1>12 DEF Queue, QueueMessageWrite, outcome, TypeOK, store
  <2>2. HistoryGrows /\ \A x \in Ids : RunningOn(x)' = RunningOn(x)
    BY Zenon, <2>1 DEF HistoryGrows, RunningOn, Running, Active, HasMessage
  <2>. SUFFICES ASSUME NEW x \in Ids \ (overran \cup interrupted) PROVE Once(x)'
    BY Zenon, <2>1 DEF OnceInv
  <2>3. CASE x # m
    BY Zenon, <2>1, <2>2, <2>3, OnceSame
  <2>4. CASE x = m
    <3>1. Once(m) /\ delivered[m] = {} /\ reported[m] = {}
      BY Zenon, <2>1, <2>4 DEF OnceInv, Once
    <3>2. RunningOn(m) = {}
      BY Zenon, <1>0, <2>1 DEF OnlyAccepted, RunningOn, Running, Active
    <3>. QED
      BY Zenon, <2>1, <2>2, <2>4, <3>1, <3>2 DEF Once, Knows
  <2>. QED
    BY Zenon, <2>3, <2>4
<1>. QED
  BY ZenonT(40), <1>2, <1>5, <1>6, <1>7, <1>8, <1>9, <1>10, <1>11, <1>12 DEF Next

LEMMA OnceAlways == Spec => []OnceInv
<1>1. Init => OnceInv
  BY SMTT(30) DEF Init, OnceInv, Once, RunningOn, Running, Active, Idle
<1>2. IInv /\ IInv' /\ Exclusive /\ OnceInv /\ [Next]_vars => OnceInv'
  BY Zenon, OnceInductive
<1>. QED
  BY <1>1, <1>2, Inductive, AttemptsExclusive, PTL DEF Spec

\* At most once: a recipient is delivered to a second time only after a delivery
\* attempt was cut short before its save (a crash, a failed write) or outlived the
\* lock that try_lock_event took.
THEOREM DeliveredAtMostOnce == Spec => []AtMostOnce
<1>1. OnceInv => AtMostOnce
  BY Zenon DEF OnceInv, Once, AtMostOnce
<1>. QED
  BY <1>1, OnceAlways, PTL

\* Likewise for the failure reports of send_dsn, whose flag RCPT_DSN_SENT the save at
\* the end of the attempt stores.
THEOREM FailureBouncedOnce == Spec => []BouncedOnce
<1>1. OnceInv => BouncedOnce
  BY DEF OnceInv, Once, BouncedOnce
<1>. QED
  BY <1>1, OnceAlways, PTL

-----------------------------------------------------------------------------
(* Wake-ups.  The event of a message is due by the retry times of its      *)
(* copies: attempts only move retry times to now or later, and they only   *)
(* start when the event is due.                                            *)

\* An event at the time due is early enough for the copy c at time t.
Wakes(due, c, t) ==
    \/ \E r \in Refills : due <= t + r
    \/ /\ \A d \in PendingDomains(c) : due <= c.domain[d].retry
       /\ PendingDomains(c) = {} => due <= t

\* Attempts start when they are due, and a session is with a pending domain.
StartedDue ==
    /\ \A k \in tasks \cup held : k.ev.due <= now
    /\ \A w \in Workers : att[w].pc # "idle" => att[w].ev.due <= now
    /\ \A w \in Workers : att[w].pc = "session" => att[w].cur \in PendingDomains(att[w].msg)

CopiesWake ==
    \A w \in Workers : Running(w) /\ att[w].ev.id \notin overran => Wakes(att[w].ev.due, att[w].msg, now)

RowWakes(m) == messages[m] # None => \A e \in events : e.id = m => Wakes(e.due, messages[m], now)

WakeInv == StartedDue /\ CopiesWake /\ \A m \in Ids \ overran : RowWakes(m)

LEMMA WakesNext ==
    ASSUME NEW c \in Message, NEW t \in Nat
    PROVE  /\ \A due \in Nat : Wakes(due, c, t) =>
                due <= NextDeliveryEvent(c, t) \/ \E r \in Refills : due <= t + r
           /\ PendingDomains(c) # {} => Wakes(NextDeliveryEvent(c, t), c, t) /\ Wakes(NextEvent(c), c, t)
<1>. DEFINE R == {c.domain[d].retry : d \in PendingDomains(c)}
<1>1. CASE PendingDomains(c) = {}
  BY Zenon, <1>1 DEF Wakes, NextDeliveryEvent
<1>2. CASE PendingDomains(c) # {}
  <2>1. R \in SUBSET Nat /\ R # {}
    BY SMTT(30), <1>2 DEF PendingDomains, Message, DomainRec
  <2>2. Min(R) \in R /\ \A x \in R : Min(R) <= x
    BY Zenon, <2>1, MinNat
  <2>3. NextDeliveryEvent(c, t) = Min(R) /\ NextEvent(c) = Min(Times(c))
    BY Zenon, <1>2 DEF NextDeliveryEvent, NextEvent
  <2>4. ASSUME NEW due \in Nat, \A d \in PendingDomains(c) : due <= c.domain[d].retry
        PROVE  due <= Min(R)
    BY Zenon, <2>2, <2>4
  <2>5. \A x \in Times(c) : Min(Times(c)) <= x
    BY Zenon, <1>2, TimesNat, MinNat
  <2>6. \A d \in PendingDomains(c) : c.domain[d].retry \in Times(c)
    BY ZenonT(40) DEF Times
  <2>. QED
    BY Zenon, <1>2, <2>2, <2>3, <2>4, <2>5, <2>6 DEF Wakes
<1>. QED
  BY Zenon, <1>1, <1>2

\* Wake-ups stay early enough as time passes,
LEMMA WakesLater ==
    ASSUME NEW due \in Nat, NEW c, NEW t \in Nat, NEW u \in Nat, t <= u, Wakes(due, c, t)
    PROVE  Wakes(due, c, u)
<1>1. \A r \in Refills : due <= t + r => due <= u + r
  BY QueueAssumption
<1>2. due <= t => due <= u
  OBVIOUS
<1>. QED
  BY Zenon, <1>1, <1>2 DEF Wakes

\* when a copy is saved,
LEMMA WakesSaved ==
    ASSUME NEW due, NEW c \in Message, NEW t, Wakes(due, c, t)
    PROVE  Wakes(due, ReleaseQuota(c), t)
<1>1. ReleaseQuota(c).domain = c.domain
  BY Zenon, ReleaseQuotaType
<1>2. PendingDomains(ReleaseQuota(c)) = PendingDomains(c)
  BY Zenon, <1>1 DEF PendingDomains
<1>. QED
  BY Zenon, <1>1, <1>2 DEF Wakes

\* and when domains are postponed: c is a later copy than b.
Postpones(b, c, t) ==
    \A d \in PendingDomains(c) :
        t <= c.domain[d].retry \/ (d \in PendingDomains(b) /\ c.domain[d].retry = b.domain[d].retry)

LEMMA WakesPostponed ==
    ASSUME NEW b \in Message, NEW c \in Message, NEW t \in Nat, NEW due \in Nat, due <= t,
           Postpones(b, c, t), Wakes(due, b, t)
    PROVE  Wakes(due, c, t)
<1>1. CASE \E r \in Refills : due <= t + r
  BY Zenon, <1>1 DEF Wakes
<1>2. CASE ~ \E r \in Refills : due <= t + r
  <2>1. ASSUME NEW d \in PendingDomains(c) PROVE due <= c.domain[d].retry
    <3>1. CASE t <= c.domain[d].retry
      <4>1. c.domain[d].retry \in Nat
        BY Zenon DEF PendingDomains, Message, DomainRec
      <4>. QED
        BY SMTT(30), <3>1, <4>1
    <3>2. CASE d \in PendingDomains(b) /\ c.domain[d].retry = b.domain[d].retry
      BY Zenon, <1>2, <3>2 DEF Wakes
    <3>. QED
      BY Zenon, <3>1, <3>2 DEF Postpones
  <2>. QED
    BY Zenon, <2>1 DEF Wakes
<1>. QED
  BY Zenon, <1>1, <1>2

\* has_pending_delivery and build_dsn leave the retry times alone.
LEMMA PostponesKept ==
    ASSUME NEW b \in Message, NEW t \in Nat
    PROVE  /\ Postpones(b, b, t)
           /\ Postpones(b, HasPendingDelivery(b, t), t)
           /\ Postpones(b, BuildDsn(b, t), t)
           /\ Postpones(b, HandleDoubleBounce(b), t)
<1>0. b.domain \in [Domains -> DomainRec]
  BY Zenon DEF Message
<1>1. ASSUME NEW c, \A d \in Domains : /\ c.domain[d].retry = b.domain[d].retry
                                       /\ c.domain[d].status = b.domain[d].status \/ c.domain[d].status = "perm"
      PROVE  Postpones(b, c, t)
  BY Zenon, <1>1 DEF Postpones, PendingDomains, InFinalState
<1>2. \A d \in Domains : HasPendingDelivery(b, t).domain[d].retry = b.domain[d].retry
  <2>. DEFINE expired == {d \in PendingDomains(b) : b.domain[d].expires <= t}
              doms == [d \in Domains |-> IF d \in expired THEN [b.domain[d] EXCEPT !.status = "perm"]
                                                          ELSE b.domain[d]]
  <2>1. HasPendingDelivery(b, t).domain = doms
    BY Zenon DEF HasPendingDelivery, Message
  <2>. HIDE DEF expired
  <2>2. ASSUME NEW d \in Domains PROVE doms[d].retry = b.domain[d].retry
    <3>1. doms[d] = IF d \in expired THEN [b.domain[d] EXCEPT !.status = "perm"] ELSE b.domain[d]
      BY Zenon
    <3>2. b.domain[d] \in DomainRec
      BY Zenon, <1>0
    <3>. QED
      BY Zenon, <3>1, <3>2 DEF DomainRec
  <2>. QED
    BY Zenon, <2>1, <2>2
<1>3. \A d \in Domains : BuildDsn(b, t).domain[d].retry = b.domain[d].retry
  <2>. DEFINE due(d) == DsnDelay(b, t) # {} /\ d \in PendingDomains(b) /\ b.domain[d].notify <= t
              doms == [d \in Domains |-> IF due(d) THEN NextNotify(b.domain[d], t) ELSE b.domain[d]]
  <2>1. BuildDsn(b, t).domain = doms
    BY Zenon DEF BuildDsn, Message
  <2>. HIDE DEF due
  <2>2. ASSUME NEW d \in Domains PROVE doms[d].retry = b.domain[d].retry
    <3>1. doms[d] = IF due(d) THEN NextNotify(b.domain[d], t) ELSE b.domain[d]
      BY Zenon
    <3>2. b.domain[d] \in DomainRec
      BY Zenon, <1>0
    <3>3. NextNotify(b.domain[d], t).retry = b.domain[d].retry
      BY Zenon, <3>2 DEF NextNotify, DomainRec
    <3>. QED
      BY Zenon, <3>1, <3>3
  <2>. QED
    BY Zenon, <2>1, <2>2
<1>4. /\ \A d \in Domains : \/ HasPendingDelivery(b, t).domain[d].status = b.domain[d].status
                            \/ HasPendingDelivery(b, t).domain[d].status = "perm"
      /\ \A d \in Domains : BuildDsn(b, t).domain[d].status = b.domain[d].status
      /\ HandleDoubleBounce(b).domain = b.domain
  <2>1. \A d \in Domains : \/ HasPendingDelivery(b, t).domain[d].status = b.domain[d].status
                           \/ HasPendingDelivery(b, t).domain[d].status = "perm"
    <3>1. PICK c : c = HasPendingDelivery(b, t)
      BY Zenon
    <3>2. \A d \in Domains : \/ c.domain[d].status = b.domain[d].status
                             \/ /\ c.domain[d].status = "perm"
                                /\ d \in PendingDomains(b) /\ b.domain[d].expires <= t
      BY SMTT(30), <3>1, HasPendingDeliveryType
    <3>. QED
      BY Zenon, <3>1, <3>2
  <2>2. /\ \A d \in Domains : BuildDsn(b, t).domain[d].status = b.domain[d].status
        /\ HandleDoubleBounce(b).domain = b.domain
    BY Zenon, DsnType
  <2>. QED
    BY Zenon, <2>1, <2>2
<1>. QED
  BY Zenon, <1>1, <1>2, <1>3, <1>4

\* set_status and set_throttle_error postpone a domain or leave its retry time alone.
LEMMA PostponesDomain ==
    ASSUME NEW b \in Message, NEW d \in Domains, NEW t \in Nat
    PROVE  /\ \A ans \in [PendingRcpts(b, d) -> Status] : Postpones(b, DeliverDone(b, d, ans, t), t)
           /\ \A s \in Status : \A A, ans : ans \in [A -> Status] => Postpones(b, DeliverFailed(b, d, ans, s, t), t)
           /\ d \in PendingDomains(b) => Postpones(b, ThrottleConcurrency(b, d), t)
           /\ \A refill \in Nat : Postpones(b, ThrottleRate(b, d, t + refill), t)
<1>0. b.domain \in [Domains -> DomainRec] /\ b.domain[d] \in DomainRec /\ b.rcpt \in [Rcpts -> Status]
  BY Zenon DEF Message
<1>1. ASSUME NEW rcpt, NEW dom \in DomainRec, NEW c, c = Replaced(b, rcpt, d, dom),
             InFinalState(dom.status) \/ t <= dom.retry
                \/ (d \in PendingDomains(b) /\ dom.retry = b.domain[d].retry)
      PROVE  Postpones(b, c, t)
  <2>1. c.domain[d] = dom /\ \A x \in Domains \ {d} : c.domain[x] = b.domain[x]
    BY Zenon, <1>0, <1>1 DEF Replaced, Message
  <2>. QED
    BY Zenon, <1>1, <2>1 DEF Postpones, PendingDomains
<1>2. ASSUME NEW s \in Status
      PROVE  /\ SetStatus(b.domain[d], s, t) \in DomainRec
             /\ InFinalState(SetStatus(b.domain[d], s, t).status) \/ t <= SetStatus(b.domain[d], s, t).retry
  <2>. DEFINE changed == [b.domain[d] EXCEPT !.status = s]
              delay == RetryDelays[Min({changed.attempts + 1, Len(RetryDelays)})]
  <2>1. changed \in DomainRec /\ changed.attempts \in Nat
    BY Zenon, <1>0 DEF DomainRec
  <2>2. delay \in Nat
    <3>1. Len(RetryDelays) \in Nat /\ Len(RetryDelays) >= 1 /\ RetryDelays \in Seq(Nat)
      BY SMTT(30), MessageAssumption
    <3>. DEFINE k == changed.attempts + 1
    <3>2. k \in Nat /\ k >= 1
      BY SMTT(30), <2>1
    <3>. HIDE DEF changed, k
    <3>3. /\ Min({k, Len(RetryDelays)}) \in {k, Len(RetryDelays)}
          /\ Min({k, Len(RetryDelays)}) <= Len(RetryDelays)
      BY Zenon, <3>1, <3>2, MinNat
    <3>4. RetryDelays[Min({k, Len(RetryDelays)})] \in Nat
      BY SMTT(30), <3>1, <3>2, <3>3
    <3>. QED
      BY Zenon, <3>4 DEF k
  <2>3. SetStatus(b.domain[d], s, t) \in DomainRec /\ SetStatus(b.domain[d], s, t).status = s
    BY Zenon, <1>0, SetStatusType
  <2>4. CASE InFinalState(s)
    BY Zenon, <2>3, <2>4
  <2>5. CASE ~InFinalState(s)
    <3>1. SetStatus(b.domain[d], s, t) = [changed EXCEPT !.retry = t + delay, !.attempts = @ + 1]
      BY Zenon, <2>5 DEF SetStatus, Retry
    <3>. HIDE DEF changed, delay
    <3>2. SetStatus(b.domain[d], s, t).retry = t + delay
      BY Zenon, <2>1, <3>1 DEF DomainRec
    <3>3. t <= t + delay
      BY SMTT(30), <2>2
    <3>. QED
      BY Zenon, <2>3, <3>2, <3>3
  <2>. QED
    BY Zenon, <2>4, <2>5
<1>3. ASSUME NEW ans \in [PendingRcpts(b, d) -> Status]
      PROVE  Postpones(b, DeliverDone(b, d, ans, t), t)
  <2>. DEFINE rcpt == [r \in Rcpts |-> IF r \in PendingRcpts(b, d) THEN ans[r] ELSE b.rcpt[r]]
              done == \A r \in Rcpts : DomainOf[r] = d => InFinalState(rcpt[r])
              s    == IF done THEN "completed" ELSE "scheduled"
  <2>1. DeliverDone(b, d, ans, t) = Replaced(b, rcpt, d, SetStatus(b.domain[d], s, t))
    BY Zenon DEF DeliverDone, Replaced
  <2>2. s \in Status
    BY Zenon DEF Status
  <2>. HIDE DEF rcpt, s
  <2>. QED
    BY Zenon, <1>1, <1>2, <2>1, <2>2
<1>4. ASSUME NEW s \in Status, NEW A, NEW ans \in [A -> Status]
      PROVE  Postpones(b, DeliverFailed(b, d, ans, s, t), t)
  <2>. DEFINE rcpt == [r \in Rcpts |-> IF r \in DOMAIN ans THEN ans[r] ELSE b.rcpt[r]]
  <2>1. DeliverFailed(b, d, ans, s, t) = Replaced(b, rcpt, d, SetStatus(b.domain[d], s, t))
    BY Zenon DEF DeliverFailed, Replaced
  <2>. HIDE DEF rcpt
  <2>. QED
    BY Zenon, <1>1, <1>2, <2>1
<1>5. ASSUME d \in PendingDomains(b) PROVE Postpones(b, ThrottleConcurrency(b, d), t)
  <2>. DEFINE busy == [b.domain[d] EXCEPT !.status = "temp"]
  <2>1. busy \in DomainRec /\ busy.retry = b.domain[d].retry
    BY Zenon, <1>0 DEF DomainRec, Status
  <2>2. ThrottleConcurrency(b, d) = Replaced(b, b.rcpt, d, busy)
    BY Zenon DEF ThrottleConcurrency, Replaced, Message
  <2>. HIDE DEF busy
  <2>. QED
    BY Zenon, <1>1, <1>5, <2>1, <2>2
<1>6. ASSUME NEW refill \in Nat PROVE Postpones(b, ThrottleRate(b, d, t + refill), t)
  <2>. DEFINE at == t + refill
              late == [b.domain[d] EXCEPT !.status = "temp", !.retry = at]
  <2>0. at \in Nat /\ t <= at
    BY SMTT(30)
  <2>. HIDE DEF at
  <2>1. late \in DomainRec /\ late.retry = at
    BY Zenon, <1>0, <2>0 DEF DomainRec, Status
  <2>2. ThrottleRate(b, d, at) = Replaced(b, b.rcpt, d, late)
    BY Zenon DEF ThrottleRate, Replaced, Message
  <2>. HIDE DEF late
  <2>3. Postpones(b, ThrottleRate(b, d, at), t)
    BY Zenon, <1>1, <2>0, <2>1, <2>2
  <2>. QED
    BY Zenon, <2>3 DEF at
<1>. QED
  BY Zenon, <1>3, <1>4, <1>5, <1>6

WakeStep(w) ==
    /\ OtherAttempts(w) /\ UNCHANGED <<now, overran>>
    /\ tasks' \subseteq tasks /\ \A h \in held' : h \in held \/ h.ev.due <= now
    /\ att'[w].pc # "idle" => att'[w].ev.due <= now
    /\ att'[w].pc = "session" => att'[w].cur \in PendingDomains(att'[w].msg)
    /\ Running(w)' /\ att'[w].ev.id \notin overran => Wakes(att'[w].ev.due, att'[w].msg, now)
    /\ \A m \in Ids \ overran : RowWakes(m)'

LEMMA WakeKept ==
    ASSUME WakeInv, NEW w \in Workers, WakeStep(w)
    PROVE  WakeInv'
<1>1. StartedDue'
  <2>1. \A k \in tasks' \cup held' : k.ev.due <= now'
    BY Zenon DEF WakeInv, StartedDue, WakeStep
  <2>2. ASSUME NEW v \in Workers
        PROVE  /\ att'[v].pc # "idle" => att'[v].ev.due <= now'
               /\ att'[v].pc = "session" => att'[v].cur \in PendingDomains(att'[v].msg)
    BY Zenon DEF WakeInv, StartedDue, WakeStep, OtherAttempts
  <2>. QED
    BY Zenon, <2>1, <2>2 DEF StartedDue
<1>2. CopiesWake'
  <2>. SUFFICES ASSUME NEW v \in Workers, Running(v)', att'[v].ev.id \notin overran'
                PROVE  Wakes(att'[v].ev.due, att'[v].msg, now')
    BY Zenon DEF CopiesWake
  <2>1. CASE v = w
    BY Zenon, <2>1 DEF WakeStep
  <2>2. CASE v # w
    <3>1. att'[v] = att[v] /\ Running(v)
      BY Zenon, <2>2 DEF WakeStep, OtherAttempts, Running, Active, HasMessage
    <3>. QED
      BY Zenon, <3>1 DEF WakeStep, WakeInv, CopiesWake
  <2>. QED
    BY Zenon, <2>1, <2>2
<1>3. \A m \in Ids \ overran' : RowWakes(m)'
  BY Zenon DEF WakeStep
<1>. QED
  BY Zenon, <1>1, <1>2, <1>3 DEF WakeInv

\* Rows whose messages and due times do not change.
LEMMA RowsStayAwake ==
    ASSUME WakeInv, UNCHANGED <<now, messages>>,
           \A e \in events' : \E f \in events : f.id = e.id /\ f.due = e.due
    PROVE  \A m \in Ids \ overran : RowWakes(m)'
<1>. SUFFICES ASSUME NEW m \in Ids \ overran, messages[m] # None, NEW e \in events', e.id = m
              PROVE  Wakes(e.due, messages[m], now)
  BY Zenon DEF RowWakes
<1>1. PICK f \in events : f.id = e.id /\ f.due = e.due
  BY Zenon
<1>. QED
  BY Zenon, <1>1 DEF WakeInv, RowWakes

\* A step of an attempt that has its message, and only changes its copy.
LEMMA WakeCopy ==
    ASSUME TypeOK, WakeInv, NEW w \in Workers, Running(w), OtherAttempts(w), NEW c \in Message,
           att'[w].ev = att[w].ev, att'[w].msg = c, Postpones(att[w].msg, c, now),
           att'[w].pc = "session" => att'[w].cur \in PendingDomains(c),
           UNCHANGED <<now, tasks, held, overran, messages, events>>
    PROVE  WakeStep(w)
<1>1. att[w].pc # "idle" /\ att[w].msg \in Message /\ att[w].ev.due \in Nat /\ now \in Nat
  BY Zenon, RunningOK DEF Running, HasMessage, TypeOK
<1>2. att[w].ev.due <= now
  BY Zenon, <1>1 DEF WakeInv, StartedDue
<1>3. att[w].ev.id \notin overran => Wakes(att[w].ev.due, att[w].msg, now)
  BY Zenon DEF WakeInv, CopiesWake
<1>4. att[w].ev.id \notin overran => Wakes(att[w].ev.due, c, now)
  BY Zenon, <1>1, <1>2, <1>3, WakesPostponed
<1>5. \A m \in Ids \ overran : RowWakes(m)'
  BY Zenon, RowsStayAwake
<1>. QED
  BY Zenon, <1>2, <1>4, <1>5 DEF WakeStep

\* The steps of an attempt that write nothing but its lock.
LEMMA WakeRun ==
    ASSUME TypeOK, LockInv, WakeInv, NEW w \in Workers,
           \/ \E k \in tasks : TryLock(k, w)
           \/ FetchNothing(w) \/ Fetch(w) \/ Notify(w)
    PROVE  WakeStep(w)
<1>. DEFINE a == att[w]
<1>0. att \in [Workers -> AttRec] /\ a \in AttRec /\ StartedDue
  BY Zenon DEF TypeOK, WakeInv
<1>1. ASSUME NEW k \in tasks, TryLock(k, w) PROVE WakeStep(w)
  <2>. DEFINE b == [Idle EXCEPT !.pc = "fetch", !.node = k.node, !.ev = [k.ev EXCEPT !.lock = now + LockExpiry]]
  <2>1. /\ att' = [att EXCEPT ![w] = b] /\ UNCHANGED <<now, messages, held, overran>>
        /\ tasks' \subseteq tasks /\ k.ev \in events
        /\ events' = SetEvent(events, k.ev.due, k.ev.id, now + LockExpiry)
    BY Zenon, <1>1 DEF TryLock
  <2>2. b.pc = "fetch" /\ b.ev = [k.ev EXCEPT !.lock = now + LockExpiry]
    BY Zenon DEF Idle
  <2>3. k.ev \in Event
    BY Zenon, <2>1 DEF TypeOK
  <2>4. b.ev.due = k.ev.due
    BY Zenon, <2>2, <2>3 DEF Event
  <2>. HIDE DEF b
  <2>5. att'[w] = b /\ OtherAttempts(w)
    BY Zenon, <1>0, <2>1 DEF OtherAttempts
  <2>6. \A e \in events' : \E f \in events : f.id = e.id /\ f.due = e.due
    BY SMTT(30), <2>1 DEF SetEvent
  <2>7. \A m \in Ids \ overran : RowWakes(m)'
    BY Zenon, <2>1, <2>6, RowsStayAwake
  <2>8. k.ev.due <= now
    BY Zenon, <1>0 DEF StartedDue
  <2>. QED
    BY Zenon, <2>1, <2>2, <2>4, <2>5, <2>7, <2>8 DEF WakeStep, Running, HasMessage
<1>2. CASE FetchNothing(w) \/ Notify(w)
  <2>1. att' = [att EXCEPT ![w] = Idle] /\ UNCHANGED <<now, messages, overran, tasks>>
        /\ events' \subseteq events
    BY Zenon, <1>2 DEF FetchNothing, Notify, ClearEvent, store
  <2>2. att'[w] = Idle /\ OtherAttempts(w)
    BY Zenon, <1>0, <2>1 DEF OtherAttempts
  <2>3. Idle.pc = "idle" /\ HoldEntry(a).ev = a.ev
    BY Zenon DEF Idle, HoldEntry
  <2>4. \A m \in Ids \ overran : RowWakes(m)'
    BY Zenon, <2>1, RowsStayAwake
  <2>5. a.ev.due <= now
    BY Zenon, <1>0, <1>2 DEF FetchNothing, Notify, StartedDue
  <2>6. \A h \in held' : h \in held \/ h.ev.due <= now
    BY Zenon, <1>2, <2>3, <2>5 DEF FetchNothing, Notify
  <2>. QED
    BY Zenon, <2>1, <2>2, <2>3, <2>4, <2>6 DEF WakeStep, Running, HasMessage
<1>3. CASE Fetch(w)
  <2>. DEFINE c == HasPendingDelivery(messages[a.ev.id], now)
  <2>1. /\ a.pc = "fetch" /\ messages[a.ev.id] # None
        /\ att' = [att EXCEPT ![w].pc = "dsn", ![w].msg = c]
        /\ UNCHANGED <<now, messages, events, tasks, held, overran>>
    BY Zenon, <1>3 DEF Fetch, store
  <2>2. a.ev.id \in Ids /\ a.ev.due \in Nat /\ now \in Nat /\ messages[a.ev.id] \in Message /\ a.ev.due <= now
    BY Zenon, <1>0, <2>1, RunningOK DEF TypeOK, StartedDue
  <2>3. c \in Message /\ Postpones(messages[a.ev.id], c, now)
    BY Zenon, <2>2, HasPendingDeliveryType, PostponesKept
  <2>. HIDE DEF c
  <2>4. att'[w].pc = "dsn" /\ att'[w].msg = c /\ att'[w].ev = a.ev /\ OtherAttempts(w)
    BY Zenon, <1>0, <2>1 DEF OtherAttempts, AttRec
  <2>5. ASSUME a.ev.id \notin overran PROVE Wakes(a.ev.due, c, now)
    <3>1. a.ev \in events
      BY Zenon, <2>1, <2>5, OwnerAlone DEF Active
    <3>2. Wakes(a.ev.due, messages[a.ev.id], now)
      BY Zenon, <2>1, <2>2, <2>5, <3>1 DEF WakeInv, RowWakes
    <3>. QED
      BY Zenon, <2>2, <2>3, <3>2, WakesPostponed
  <2>6. \A m \in Ids \ overran : RowWakes(m)'
    BY Zenon, <2>1, RowsStayAwake
  <2>. QED
    BY Zenon, <2>1, <2>2, <2>4, <2>5, <2>6 DEF WakeStep
<1>. QED
  BY Zenon, <1>1, <1>2, <1>3

\* The steps of an attempt that work on its copy.
LEMMA WakeLoop ==
    ASSUME TypeOK, WakeInv, NEW w \in Workers,
           \/ AdmitSender(w) \/ SkipDomain(w) \/ OpenSession(w)
           \/ SendDsnBefore(w) \/ SendDsnAfter(w) \/ HoldDomain(w)
           \/ \E refill \in Refills : RateLimitDomain(w, refill)
    PROVE  WakeStep(w)
<1>. DEFINE a == att[w]
<1>1. /\ UNCHANGED <<now, tasks, held, overran, messages, events>>
      /\ a.pc \notin {"idle", "fetch", "notify"}
  BY Zenon DEF AdmitSender, ReadyToDeliver, SkipDomain, OpenSession, SendDsnBefore, SendDsnAfter,
         SendDsn, HoldDomain, CanThrottle, RateLimitDomain, store
<1>2. Running(w) /\ a \in AttRec /\ now \in Nat /\ a.msg \in Message
  BY Zenon, <1>1, RunningOK DEF Running, Active, HasMessage, TypeOK
<1>3. ASSUME NEW c \in Message, Postpones(a.msg, c, now),
             att'[w].ev = a.ev, att'[w].msg = c, OtherAttempts(w),
             att'[w].pc = "session" => att'[w].cur \in PendingDomains(c)
      PROVE  WakeStep(w)
  BY Zenon, <1>1, <1>2, <1>3, WakeCopy
<1>4. Postpones(a.msg, a.msg, now)
  BY Zenon, <1>2, PostponesKept
<1>5. CASE AdmitSender(w)
  <2>1. att'[w].msg = a.msg /\ att'[w].ev = a.ev /\ OtherAttempts(w) /\ att'[w].pc = "deliver"
    BY Zenon, <1>2, <1>5 DEF AdmitSender, OtherAttempts, TypeOK, AttRec
  <2>. QED
    BY Zenon, <1>2, <1>3, <1>4, <2>1
<1>6. CASE OpenSession(w)
  <2>1. att'[w].msg = a.msg /\ att'[w].ev = a.ev /\ OtherAttempts(w) /\ att'[w].cur = a.cur
    BY Zenon, <1>2, <1>6 DEF OpenSession, Goto, OtherAttempts, TypeOK, AttRec
  <2>2. a.cur \in PendingDomains(a.msg)
    BY Zenon, <1>6 DEF OpenSession, CurrentIsDue, IsDue
  <2>. QED
    BY Zenon, <1>2, <1>3, <1>4, <2>1, <2>2
<1>7. ASSUME NEW c \in Message, Postpones(a.msg, c, now), NEW hold,
             \/ att' = NextDomain(w, c)
             \/ att' = [NextDomain(w, c) EXCEPT ![w].hold = hold]
      PROVE  WakeStep(w)
  <2>1. att'[w].msg = c /\ att'[w].ev = a.ev /\ OtherAttempts(w) /\ att'[w].pc = "deliver"
    BY SMTT(30), <1>2, <1>7 DEF NextDomain, TypeOK, OtherAttempts, AttRec
  <2>. QED
    BY Zenon, <1>3, <1>7, <2>1
<1>8. CASE SkipDomain(w)
  BY Zenon, <1>2, <1>4, <1>7, <1>8 DEF SkipDomain
<1>9. ASSUME CanThrottle(w) PROVE a.cur \in Domains /\ a.cur \in PendingDomains(a.msg)
  <2>1. a.cur \in PendingDomains(a.msg)
    BY Zenon, <1>9 DEF CanThrottle, CurrentIsDue, IsDue, WakeInv, StartedDue
  <2>. QED
    BY Zenon, <2>1 DEF PendingDomains
<1>10. CASE HoldDomain(w)
  <2>. DEFINE c == ThrottleConcurrency(a.msg, a.cur)
  <2>1. c \in Message
    BY Zenon, <1>2, <1>9, <1>10, ThrottleType DEF HoldDomain
  <2>2. Postpones(a.msg, c, now)
    BY Zenon, <1>2, <1>9, <1>10, PostponesDomain DEF HoldDomain
  <2>3. att' = [NextDomain(w, c) EXCEPT ![w].hold = NextDomain(w, c)[w].hold \cup {a.cur}]
    BY Zenon, <1>10 DEF HoldDomain
  <2>. HIDE DEF c
  <2>. QED
    BY Zenon, <1>7, <2>1, <2>2, <2>3
<1>11. ASSUME NEW refill \in Refills, RateLimitDomain(w, refill) PROVE WakeStep(w)
  <2>. DEFINE c == ThrottleRate(a.msg, a.cur, now + refill)
  <2>1. refill \in Nat /\ now + refill \in Nat
    BY SMTT(30), <1>2, QueueAssumption
  <2>2. a.cur \in Domains
    BY Zenon, <1>9, <1>11 DEF RateLimitDomain
  <2>3. c \in Message
    BY Zenon, <1>2, <2>1, <2>2, ThrottleType
  <2>4. Postpones(a.msg, c, now)
    BY Zenon, <1>2, <2>1, <2>2, PostponesDomain
  <2>5. att' = NextDomain(w, c)
    BY Zenon, <1>11 DEF RateLimitDomain
  <2>. HIDE DEF c
  <2>. QED
    BY Zenon, <1>7, <2>3, <2>4, <2>5
<1>12. ASSUME NEW to \in {"decide", "finish"}, SendDsn(w, to) PROVE WakeStep(w)
  <2>. DEFINE c == IF a.ev.id \in NullSender THEN HandleDoubleBounce(a.msg) ELSE BuildDsn(a.msg, now)
  <2>1. c \in Message
    BY Zenon, <1>2, DsnType
  <2>2. Postpones(a.msg, c, now)
    BY Zenon, <1>2, PostponesKept
  <2>3. att'[w].msg = c /\ att'[w].ev = a.ev /\ OtherAttempts(w) /\ att'[w].pc = to
    BY Zenon, <1>2, <1>12 DEF SendDsn, OtherAttempts, TypeOK, AttRec
  <2>. HIDE DEF c
  <2>. QED
    BY Zenon, <1>3, <2>1, <2>2, <2>3
<1>13. CASE SendDsnBefore(w) \/ SendDsnAfter(w)
  BY Zenon, <1>12, <1>13 DEF SendDsnBefore, SendDsnAfter
<1>. QED
  BY Zenon, <1>5, <1>6, <1>8, <1>10, <1>11, <1>13

\* The end of a session.
LEMMA WakeSession ==
    ASSUME TypeOK, WakeInv, NEW w \in Workers, att[w].pc = "session",
           \/ \E ans \in [PendingRcpts(att[w].msg, att[w].cur) -> RcptAnswers] :
                 SessionDone(w, ans)
           \/ \E ans \in Answers(PendingRcpts(att[w].msg, att[w].cur), RcptAnswers \ {"completed"}),
                 s \in DomainAnswers : SessionFailed(w, ans, s)
    PROVE  WakeStep(w)
<1>. DEFINE a == att[w]
<1>1. /\ a.msg \in Message /\ a.cur \in Domains /\ a \in AttRec /\ now \in Nat /\ Running(w)
      /\ UNCHANGED <<now, tasks, held, overran, messages, events>>
  BY Zenon, RunningOK DEF TypeOK, Consistent, Running, Active, HasMessage, SessionDone, SessionFailed, store
<1>2. ASSUME NEW c \in Message, Postpones(a.msg, c, now), att' = NextDomain(w, c)
      PROVE  WakeStep(w)
  <2>1. att'[w].msg = c /\ att'[w].ev = a.ev /\ OtherAttempts(w) /\ att'[w].pc = "deliver"
    BY Zenon, <1>1, <1>2 DEF NextDomain, OtherAttempts, TypeOK, AttRec
  <2>. QED
    BY Zenon, <1>1, <1>2, <2>1, WakeCopy
<1>3. ASSUME NEW ans \in [PendingRcpts(a.msg, a.cur) -> RcptAnswers], SessionDone(w, ans)
      PROVE  WakeStep(w)
  <2>1. ans \in [PendingRcpts(a.msg, a.cur) -> Status]
    BY ZenonT(40), QueueAssumption DEF Status
  <2>2. DeliverDone(a.msg, a.cur, ans, now) \in Message
    BY Zenon, <1>1, <2>1, DeliverDoneType
  <2>3. Postpones(a.msg, DeliverDone(a.msg, a.cur, ans, now), now)
    BY Zenon, <1>1, <2>1, PostponesDomain
  <2>. QED
    BY Zenon, <1>2, <1>3, <2>2, <2>3 DEF SessionDone
<1>4. ASSUME NEW T \in SUBSET PendingRcpts(a.msg, a.cur),
             NEW ans \in [T -> RcptAnswers \ {"completed"}],
             NEW s \in DomainAnswers, SessionFailed(w, ans, s)
      PROVE  WakeStep(w)
  <2>1. ans \in [T -> Status] /\ s \in Status
    BY ZenonT(40), QueueAssumption DEF Status
  <2>2. DeliverFailed(a.msg, a.cur, ans, s, now) \in Message
    BY Zenon, <1>1, <2>1, DeliverFailedType
  <2>3. Postpones(a.msg, DeliverFailed(a.msg, a.cur, ans, s, now), now)
    BY Zenon, <1>1, <2>1, PostponesDomain
  <2>. QED
    BY Zenon, <1>2, <1>4, <2>2, <2>3 DEF SessionFailed
<1>. QED
  BY Zenon, <1>3, <1>4 DEF Answers

\* The attempt ends with a write: save_changes moves the event to a time that wakes the
\* saved copy, or leaves it where it is; remove takes the message away.
LEMMA WakeWrite ==
    ASSUME TypeOK, LockInv, WakeInv, NEW w \in Workers,
           \/ RemoveExpired(w) \/ Requeue(w) \/ HoldSender(w)
           \/ \E refill \in Refills : RateLimitSender(w, refill)
           \/ FinishOnHold(w) \/ FinishIncomplete(w) \/ FinishCompleted(w)
    PROVE  WakeStep(w)
<1>. DEFINE a  == att[w]
            id == att[w].ev.id
            saved == ReleaseQuota(att[w].msg)
            Moved(next) == SetEvent(ClearEvent(att[w].ev.due, id), next, id, 0)
<1>1. a.pc \in {"decide", "finish"}
  BY Zenon DEF RemoveExpired, Requeue, HoldSender, RateLimitSender, ReadyToDeliver,
         FinishOnHold, FinishIncomplete, FinishCompleted
<1>2. id \in Ids /\ a.msg \in Message /\ a \in AttRec /\ now \in Nat /\ Active(w) /\ Running(w)
  BY Zenon, <1>1, RunningOK DEF TypeOK, HasMessage, Active, Running
<1>3. UNCHANGED <<now, tasks, held, overran>>
  BY Zenon DEF RemoveExpired, Requeue, HoldSender, RateLimitSender, FinishOnHold, FinishIncomplete,
         FinishCompleted
<1>4. att'[w].ev = a.ev /\ att'[w].pc = "notify" /\ OtherAttempts(w)
  <2>1. ASSUME att' = Goto(w, "notify")
        PROVE  att'[w].ev = a.ev /\ att'[w].pc = "notify" /\ OtherAttempts(w)
    BY Zenon, <1>2, <2>1 DEF Goto, OtherAttempts, TypeOK, AttRec
  <2>2. CASE HoldSender(w)
    BY Zenon, <1>2, <2>2 DEF HoldSender, OtherAttempts, TypeOK, AttRec
  <2>3. CASE FinishOnHold(w)
    BY Zenon, <1>2, <2>3 DEF FinishOnHold, OtherAttempts, TypeOK, AttRec
  <2>. QED
    BY Zenon, <2>1, <2>2, <2>3 DEF RemoveExpired, Requeue, RateLimitSender, FinishIncomplete, FinishCompleted
<1>5. \/ UNCHANGED <<messages, events>>
      \/ messages' = [messages EXCEPT ![id] = None] /\ events' \subseteq events
      \/ messages' = [messages EXCEPT ![id] = saved] /\ events' = events
      \/ \E next : /\ Wakes(next, a.msg, now)
                   /\ messages' = [messages EXCEPT ![id] = saved] /\ events' = Moved(next)
  <2>1. CASE RemoveExpired(w) \/ FinishCompleted(w)
    BY Zenon, <2>1 DEF RemoveExpired, FinishCompleted, Write, Remove, ClearEvent, store
  <2>2. CASE HoldSender(w) \/ FinishOnHold(w)
    BY Zenon, <2>2 DEF HoldSender, FinishOnHold, Write, SaveChanges, store
  <2>3. ASSUME NEW next, next # None, Write(id, SaveChanges(id, a.msg, a.ev.due, next)), Wakes(next, a.msg, now)
        PROVE  \/ UNCHANGED <<messages, events>>
               \/ messages' = [messages EXCEPT ![id] = saved] /\ events' = Moved(next)
    <3>1. a.ev.due # None
      BY Zenon, <1>1, RunningOK, MessageAssumption
    <3>. QED
      BY Zenon, <2>3, <3>1 DEF Write, SaveChanges, store
  <2>4. CASE Requeue(w)
    <3>. DEFINE next == NextDeliveryEvent(a.msg, now)
    <3>1. PendingDomains(a.msg) # {} /\ Write(id, SaveChanges(id, a.msg, a.ev.due, next))
      BY Zenon, <2>4 DEF Requeue
    <3>2. next \in Nat /\ next # None
      BY Zenon, <1>2, NextDeliveryEventType, MessageAssumption
    <3>3. Wakes(next, a.msg, now)
      BY Zenon, <1>2, <3>1, WakesNext
    <3>. HIDE DEF next
    <3>. QED
      BY Zenon, <2>3, <3>1, <3>2, <3>3
  <2>5. CASE FinishIncomplete(w)
    <3>. DEFINE next == NextEvent(a.msg)
    <3>1. next # None /\ Write(id, SaveChanges(id, a.msg, a.ev.due, next))
      BY Zenon, <2>5 DEF FinishIncomplete
    <3>2. Wakes(next, a.msg, now)
      BY Zenon, <1>2, <3>1, WakesNext, NextEventType
    <3>. HIDE DEF next
    <3>. QED
      BY Zenon, <2>3, <3>1, <3>2
  <2>6. ASSUME NEW refill \in Refills, RateLimitSender(w, refill)
        PROVE  \E next : /\ next # None /\ Wakes(next, a.msg, now)
                         /\ Write(id, SaveChanges(id, a.msg, a.ev.due, next))
    <3>. DEFINE at == now + refill
                times == {at} \cup ({NextEventAfter(a.msg, now)} \ {None})
    <3>1. at \in Nat
      BY SMTT(30), <1>2, QueueAssumption
    <3>2. times \in SUBSET Nat
      BY Zenon, <1>2, <3>1, NextEventAfterType
    <3>3. Write(id, SaveChanges(id, a.msg, a.ev.due, Min(times)))
      BY Zenon, <2>6 DEF RateLimitSender
    <3>4. at \in times
      BY Zenon
    <3>. HIDE DEF times
    <3>5. Min(times) \in Nat /\ Min(times) <= at
      BY Zenon, <3>2, <3>4, MinNat
    <3>6. Wakes(Min(times), a.msg, now)
      BY Zenon, <3>5 DEF Wakes
    <3>. QED
      BY Zenon, <3>3, <3>5, <3>6, MessageAssumption
  <2>. QED
    BY Zenon, <2>1, <2>2, <2>3, <2>4, <2>5, <2>6
<1>6. ASSUME id \notin overran
      PROVE  Wakes(a.ev.due, saved, now) /\ \A e \in events : e.id = id => e = a.ev
  <2>1. \A e \in events : e.id = id => e = a.ev
    BY Zenon, <1>2, <1>6, OwnerAlone
  <2>2. Wakes(a.ev.due, a.msg, now)
    BY Zenon, <1>2, <1>6 DEF WakeInv, CopiesWake
  <2>. QED
    BY Zenon, <1>2, <2>1, <2>2, WakesSaved
<1>7. \A m \in Ids : m # id => messages'[m] = messages[m]
  BY Zenon, <1>5 DEF TypeOK
<1>8. \A next : Wakes(next, a.msg, now) => Wakes(next, saved, now)
  BY Zenon, <1>2, WakesSaved
<1>. HIDE DEF saved, Moved
<1>9. ASSUME NEW e \in events'
      PROVE  \/ e \in events /\ (e.id = id => messages'[id] \in {messages[id], None, saved})
             \/ e.id = id /\ messages'[id] = saved /\ Wakes(e.due, saved, now)
  <2>1. ASSUME NEW next, Wakes(next, a.msg, now), events' = Moved(next)
        PROVE  e \in events \/ (e.id = id /\ Wakes(e.due, saved, now))
    <3>1. e \in events \/ e = [due |-> next, id |-> id, lock |-> 0]
      BY Zenon, <2>1 DEF Moved, SetEvent, ClearEvent
    <3>. QED
      BY SMTT(30), <1>8, <2>1, <3>1
  <2>2. messages'[id] \in {messages[id], None, saved}
    BY ZenonT(40), <1>2, <1>5 DEF TypeOK
  <2>3. ASSUME messages' = [messages EXCEPT ![id] = saved] PROVE messages'[id] = saved
    BY Zenon, <1>2, <2>3 DEF TypeOK
  <2>. QED
    BY Zenon, <1>5, <2>1, <2>2, <2>3
<1>10. ASSUME NEW m \in Ids \ overran PROVE RowWakes(m)'
  <2>. SUFFICES ASSUME messages'[m] # None, NEW e \in events', e.id = m
                PROVE  Wakes(e.due, messages'[m], now)
    BY Zenon, <1>3 DEF RowWakes
  <2>1. CASE m # id
    <3>1. e \in events /\ messages'[m] = messages[m]
      BY Zenon, <1>7, <1>9, <2>1
    <3>. QED
      BY Zenon, <3>1 DEF WakeInv, RowWakes
  <2>2. CASE m = id
    <3>1. CASE e \in events /\ messages'[id] \in {messages[id], None, saved}
      <4>1. CASE messages'[id] = messages[id]
        BY Zenon, <2>2, <3>1, <4>1 DEF WakeInv, RowWakes
      <4>2. CASE messages'[id] = saved
        BY Zenon, <1>6, <2>2, <3>1, <4>2
      <4>. QED
        BY Zenon, <2>2, <3>1, <4>1, <4>2
    <3>. QED
      BY Zenon, <1>9, <2>2, <3>1
  <2>. QED
    BY Zenon, <2>1, <2>2
<1>11. a.ev.due <= now
  BY Zenon, <1>1 DEF WakeInv, StartedDue
<1>. QED
  BY Zenon, <1>3, <1>4, <1>10, <1>11 DEF WakeStep, Running, Active

\* The other steps: submission, scans, crashes and the clock.
LEMMA WakeElsewhere ==
    ASSUME TypeOK, TypeOK', OnlyAccepted, WakeInv,
           \/ UNCHANGED vars \/ Tick
           \/ \E m \in Ids : HasQuota(m) \/ Queue(m)
           \/ \E n \in Nodes : Spawn(n) \/ Crash(n)
           \/ \E h \in held : Unhold(h)
           \/ \E k \in tasks : LockBusy(k)
    PROVE  WakeInv'
<1>0. now \in Nat /\ now' \in Nat
  BY Zenon DEF TypeOK
<1>1. now <= now' /\ overran \subseteq overran'
  BY SMTT(30), <1>0 DEF vars, Tick, HasQuota, Queue, Spawn, Crash, Unhold, LockBusy
<1>2. \A w \in Workers : att'[w] = att[w] \/ att'[w].pc = "idle"
  <2>1. Idle.pc = "idle"
    BY Zenon DEF Idle
  <2>2. \A w \in Workers : att'[w] = att[w] \/ att'[w] = Idle
    BY Zenon DEF vars, Tick, HasQuota, Queue, Spawn, Crash, Unhold, LockBusy
  <2>. QED
    BY Zenon, <2>1, <2>2
<1>3. \A k \in tasks' \cup held' :
         \/ k.ev.due <= now /\ k.ev.due \in Nat
         \/ \E h \in tasks \cup held : k.ev = h.ev
  <2>1. ASSUME NEW n \in Nodes, Spawn(n), NEW k \in tasks', k \notin tasks
        PROVE  k.ev.due <= now /\ k.ev.due \in Nat
    <3>1. PICK e \in DueEvents : k = [node |-> n, ev |-> e]
      BY Zenon, <2>1 DEF Spawn
    <3>2. k.ev = e /\ e.due <= now /\ e.due \in Nat
      BY Zenon, <3>1 DEF DueEvents, TypeOK, Event
    <3>. QED
      BY Zenon, <3>2
  <2>2. ASSUME NEW h \in held, Unhold(h), NEW k \in tasks', k \notin tasks
        PROVE  k.ev = h.ev
    <3>1. k = [node |-> h.node, ev |-> h.ev]
      BY Zenon, <2>2 DEF Unhold
    <3>. QED
      BY Zenon, <3>1
  <2>. QED
    BY Zenon, <2>1, <2>2 DEF vars, Tick, HasQuota, Queue, Spawn, Crash, Unhold, LockBusy
<1>4. StartedDue'
  <2>1. ASSUME NEW k \in tasks' \cup held' PROVE k.ev.due <= now'
    <3>1. k.ev.due <= now /\ k.ev.due \in Nat
      BY Zenon, <1>3 DEF WakeInv, StartedDue, TypeOK, Task, OnHold, Event
    <3>. QED
      BY SMTT(30), <1>0, <1>1, <3>1
  <2>2. ASSUME NEW w \in Workers, att'[w].pc # "idle" PROVE att'[w].ev.due <= now'
    <3>1. att'[w] = att[w]
      BY Zenon, <1>2, <2>2
    <3>2. att[w].ev.due <= now /\ att[w].ev.due \in Nat
      BY Zenon, <2>2, <3>1, RunningOK DEF WakeInv, StartedDue
    <3>. QED
      BY SMTT(30), <1>0, <1>1, <3>1, <3>2
  <2>3. ASSUME NEW w \in Workers, att'[w].pc = "session" PROVE att'[w].cur \in PendingDomains(att'[w].msg)
    <3>1. att'[w] = att[w]
      BY Zenon, <1>2, <2>3
    <3>. QED
      BY Zenon, <2>3, <3>1 DEF WakeInv, StartedDue
  <2>. QED
    BY Zenon, <2>1, <2>2, <2>3 DEF StartedDue
<1>5. CopiesWake'
  <2>. SUFFICES ASSUME NEW w \in Workers, Running(w)', att'[w].ev.id \notin overran'
                PROVE  Wakes(att'[w].ev.due, att'[w].msg, now')
    BY Zenon DEF CopiesWake
  <2>1. att'[w] = att[w] /\ Running(w) /\ att[w].pc # "idle"
    BY Zenon, <1>2 DEF Running, Active, HasMessage
  <2>2. Wakes(att[w].ev.due, att[w].msg, now) /\ att[w].ev.due \in Nat
    BY Zenon, <1>1, <2>1, RunningOK DEF WakeInv, CopiesWake
  <2>. QED
    BY Zenon, <1>0, <1>1, <2>1, <2>2, WakesLater
<1>6. ASSUME NEW m \in Ids \ overran' PROVE RowWakes(m)'
  <2>. SUFFICES ASSUME messages'[m] # None, NEW e \in events', e.id = m
                PROVE  Wakes(e.due, messages'[m], now')
    BY Zenon DEF RowWakes
  <2>1. CASE e \in events /\ messages'[m] = messages[m]
    <3>1. Wakes(e.due, messages[m], now) /\ e.due \in Nat
      BY Zenon, <1>1, <2>1 DEF WakeInv, RowWakes, TypeOK, Event
    <3>. QED
      BY Zenon, <1>0, <1>1, <2>1, <3>1, WakesLater
  <2>2. CASE ~(e \in events /\ messages'[m] = messages[m])
    <3>1. PICK x \in Ids : Queue(x)
      BY Zenon, <2>2 DEF vars, store, Tick, HasQuota, Spawn, Crash, Unhold, LockBusy
    <3>2. PICK release \in Releases : QueueMessageWrite(x, release)
      BY Zenon, <2>2, <3>1 DEF Queue, store
    <3>. DEFINE msg == NewMessage(now + release, DOMAIN QuotaLimit)
    <3>3. now' = now /\ session[x] = "checked"
      BY Zenon, <3>1 DEF Queue
    <3>4. \A f \in events : f.id # x
      BY Zenon, <3>3 DEF OnlyAccepted
    <3>5. events' = SetEvent(events, NextEvent(msg), x, 0) /\ messages' = [messages EXCEPT ![x] = msg]
      BY Zenon, <3>2 DEF QueueMessageWrite
    <3>6. msg \in Message /\ PendingDomains(msg) # {}
      <4>1. now + release \in Nat
        BY SMTT(30), <1>0, QueueAssumption
      <4>2. DOMAIN QuotaLimit \in SUBSET QuotaIds
        BY Zenon, QueueAssumption
      <4>3. msg \in Message
        BY Zenon, <4>1, <4>2, NewMessageType
      <4>4. 1 \in Domains
        BY SMTT(30), MessageAssumption DEF Domains
      <4>5. msg.domain[1].status = "scheduled"
        BY SMTT(30), <4>4 DEF NewMessage
      <4>. QED
        BY Zenon, <4>3, <4>4, <4>5 DEF PendingDomains, InFinalState
    <3>. HIDE DEF msg
    <3>7. Wakes(NextEvent(msg), msg, now)
      BY Zenon, <1>0, <3>6, WakesNext
    <3>8. CASE e \in events
      BY Zenon, <2>2, <3>4, <3>5, <3>8 DEF TypeOK
    <3>9. CASE e \notin events
      <4>1. e = [due |-> NextEvent(msg), id |-> x, lock |-> 0]
        BY Zenon, <3>5, <3>9 DEF SetEvent
      <4>2. e.due = NextEvent(msg) /\ e.id = x
        BY Zenon, <4>1
      <4>3. messages'[m] = msg
        BY Zenon, <3>5, <4>2 DEF TypeOK
      <4>. QED
        BY Zenon, <3>3, <3>7, <4>2, <4>3
    <3>. QED
      BY Zenon, <3>8, <3>9
  <2>. QED
    BY Zenon, <2>1, <2>2
<1>. QED
  BY Zenon, <1>4, <1>5, <1>6 DEF WakeInv

LEMMA WakeInductive ==
    ASSUME IInv, IInv', WakeInv, [Next]_vars
    PROVE  WakeInv'
<1>0. TypeOK /\ LockInv /\ OnlyAccepted /\ TypeOK'
  BY Zenon DEF IInv
<1>1. ASSUME NEW w \in Workers, Attempt(w) PROVE WakeInv'
  <2>1. WakeStep(w)
    BY ZenonT(40), <1>0, <1>1, WakeRun, WakeLoop, WakeSession, WakeWrite DEF Attempt
  <2>. QED
    BY Zenon, <2>1, WakeKept
<1>. QED
  BY ZenonT(40), <1>0, <1>1, WakeElsewhere DEF Next

\* A message is not slept through: as long as no attempt on it outlived its lock, its
\* queue event is due by the next retry time of the stored message or by the time the
\* rate limiter refills, whatever is queued, deferred, put on hold, crashes or fails.
THEOREM MessagesAreWoken == Spec => []WokenInTime
<1>1. Init => WakeInv
  BY SMTT(30) DEF Init, WakeInv, StartedDue, CopiesWake, RowWakes, Running, Active, Idle
<1>2. IInv /\ IInv' /\ WakeInv /\ [Next]_vars => WakeInv'
  BY Zenon, WakeInductive
<1>3. IInv /\ WakeInv => WokenInTime
  <2>. SUFFICES ASSUME IInv, WakeInv, NEW m \in Ids \ overran, NEW e \in EventsOf(m), messages[m] # None
                PROVE  \/ e.due <= NextDeliveryEvent(messages[m], now)
                       \/ \E r \in Refills : e.due <= now + r
    BY Zenon DEF WokenInTime
  <2>1. messages[m] \in Message /\ now \in Nat /\ e.due \in Nat
    BY Zenon DEF IInv, TypeOK, EventsOf, Event
  <2>2. Wakes(e.due, messages[m], now)
    BY Zenon DEF WakeInv, RowWakes, EventsOf
  <2>. QED
    BY Zenon, <2>1, <2>2, WakesNext
<1>. QED
  BY <1>1, <1>2, <1>3, Inductive, PTL DEF Spec

=============================================================================
