---------------------------- MODULE QueueMessage ----------------------------
(***************************************************************************)
(* The message record of the SMTP queue and the functions that compute on  *)
(* it without touching the store: when the message needs attention next,   *)
(* which recipients have expired, what one delivery attempt does to a      *)
(* domain and its recipients, which recipients a delivery status           *)
(* notification (DSN) reports, and which quota keys a save gives back.     *)
(*                                                                         *)
(* Addresses, host names and server responses are dropped: a domain is its *)
(* index in Message::domains, a recipient a model value, a status its      *)
(* constructor.  now() is the parameter t.                                 *)
(***************************************************************************)
EXTENDS Integers, FiniteSets, Sequences, FiniteSetsExt

CONSTANTS
    NumDomains,     \* Message::domains has the indices 1 .. NumDomains
    Rcpts,          \* Message::recipients
    DomainOf,       \* Recipient::domain_idx
    NotifyFlags,    \* RCPT_NOTIFY_* flags of each recipient
    RetryDelays,    \* the queue.retry schedule
    NotifyDelays,   \* the queue.notify schedule
    Expire,         \* the queue.expire duration
    None            \* Option::None

Domains == 1 .. NumDomains

\* Ids of quota keys: 0 for the sender, else the domain or the recipient.
QuotaIds == {0} \cup Domains \cup Rcpts

ASSUME MessageAssumption ==
    /\ NumDomains \in Nat \ {0}
    /\ IsFiniteSet(Rcpts)
    /\ DomainOf \in [Rcpts -> Domains]
    /\ NotifyFlags \in [Rcpts -> SUBSET {"success", "delay", "failure", "never"}]
    /\ RetryDelays \in Seq(Nat) /\ RetryDelays # << >>
    /\ NotifyDelays \in Seq(Nat) /\ NotifyDelays # << >>
    /\ Expire \in Nat
    /\ None \notin Nat

Status == {"scheduled", "completed", "temp", "perm"}

DomainRec == [status : Status, retry : Nat, attempts : Nat,
              notify : Nat, notified : Nat, expires : Nat]

Message == [domain : [Domains -> DomainRec],
            rcpt   : [Rcpts -> Status],
            dsn    : SUBSET Rcpts,      \* recipients with RCPT_DSN_SENT
            quota  : SUBSET QuotaIds]   \* quota_keys, by their id

ASSUME NoneIsNoMessage == None \notin Message

\* Mutant: a temporary failure counts as final.
FinalOrTemp(s) == s \in {"completed", "perm", "temp"}

InFinalState(s) == s \in {"completed", "perm"}

\* A new message: every domain is scheduled for delivery at time t, the time of
\* arrival plus the delay a FUTURERELEASE parameter asks for.
NewMessage(t, keys) ==
    [domain |-> [d \in Domains |->
                   [status |-> "scheduled", retry |-> t, attempts |-> 0,
                    notify |-> t + NotifyDelays[1], notified |-> 0,
                    expires |-> t + Expire]],
     rcpt   |-> [r \in Rcpts |-> "scheduled"],
     dsn    |-> {},
     quota  |-> keys]

PendingDomains(m) == {d \in Domains : ~InFinalState(m.domain[d].status)}

-----------------------------------------------------------------------------
(* When does the message need attention?                                   *)

Times(m) ==
    UNION {{m.domain[d].retry, m.domain[d].notify, m.domain[d].expires} :
              d \in PendingDomains(m)}

\* Mutant: the latest of the times.
NextEventLast(m) == IF PendingDomains(m) = {} THEN None ELSE Max(Times(m))

NextEvent(m) == IF PendingDomains(m) = {} THEN None ELSE Min(Times(m))

NextDeliveryEvent(m, t) ==
    IF PendingDomains(m) = {} THEN t
    ELSE Min({m.domain[d].retry : d \in PendingDomains(m)})

NextEventAfter(m, t) ==
    LET later == {x \in Times(m) : x > t}
    IN  IF later = {} THEN None ELSE Min(later)

-----------------------------------------------------------------------------
(* Expiry.                                                                 *)

IntoPermanent(s) == IF s = "temp" THEN "perm" ELSE s

\* Domains whose expiration time is reached fail, and their deferred recipients
\* with them.  The message still has pending deliveries iff a pending domain is
\* left.
HasPendingDelivery(m, t) ==
    LET expired == {d \in PendingDomains(m) : m.domain[d].expires <= t}
    IN  [m EXCEPT
           !.domain = [d \in Domains |->
                         IF d \in expired THEN [@[d] EXCEPT !.status = "perm"]
                                          ELSE @[d]],
           !.rcpt   = [r \in Rcpts |->
                         IF DomainOf[r] \in expired THEN IntoPermanent(@[r])
                                                    ELSE @[r]]]

-----------------------------------------------------------------------------
(* The outcome of one attempt to deliver to a domain.                      *)

\* Is the domain processed by the delivery loop at time t?
IsDue(m, d, t) == d \in PendingDomains(m) /\ m.domain[d].retry <= t

Retry(dom, t) ==
    LET i == Min({dom.attempts + 1, Len(RetryDelays)})
    IN  [dom EXCEPT !.retry = t + RetryDelays[i], !.attempts = @ + 1]

SetStatus(dom, s, t) ==
    LET changed == [dom EXCEPT !.status = s]
    IN  IF InFinalState(s) THEN changed ELSE Retry(changed, t)

\* Recipients of domain d that are still to be handled.
PendingRcpts(m, d) ==
    {r \in Rcpts : DomainOf[r] = d /\ ~InFinalState(m.rcpt[r])}

\* Mutant: a deferred recipient counts as done.
DeliverDoneDeferred(m, d, ans, t) ==
    LET rcpt == [r \in Rcpts |-> IF r \in PendingRcpts(m, d) THEN ans[r] ELSE m.rcpt[r]]
        done == \A r \in Rcpts : DomainOf[r] = d => rcpt[r] # "scheduled"
    IN  [m EXCEPT !.rcpt = rcpt,
                  !.domain[d] = SetStatus(@, IF done THEN "completed" ELSE "scheduled", t)]

\* The session reached its end: every pending recipient got an answer ans[r],
\* and the domain is completed exactly when no recipient is left.
DeliverDone(m, d, ans, t) ==
    LET rcpt == [r \in Rcpts |-> IF r \in PendingRcpts(m, d) THEN ans[r] ELSE m.rcpt[r]]
        done == \A r \in Rcpts : DomainOf[r] = d => InFinalState(rcpt[r])
    IN  [m EXCEPT !.rcpt = rcpt,
                  !.domain[d] = SetStatus(@, IF done THEN "completed" ELSE "scheduled", t)]

\* The attempt ended early with status s for the domain: lookup, connection, TLS,
\* EHLO, MAIL FROM, DATA or a dropped connection.  Some recipients may already
\* have been refused (ans), none has been delivered.
DeliverFailed(m, d, ans, s, t) ==
    [m EXCEPT !.rcpt = [r \in Rcpts |-> IF r \in DOMAIN ans THEN ans[r] ELSE @[r]],
              !.domain[d] = SetStatus(@, s, t)]

\* set_throttle_error, concurrency: the retry time is left alone.
ThrottleConcurrency(m, d) == [m EXCEPT !.domain[d].status = "temp"]

\* set_throttle_error, rate.
ThrottleRate(m, d, at) ==
    [m EXCEPT !.domain[d].status = "temp", !.domain[d].retry = at]

-----------------------------------------------------------------------------
(* Delivery status notifications.                                          *)

\* What the DSN says about a recipient: the recipient's own status, or its
\* domain's when the recipient has none yet.
DsnStatus(m, r) ==
    IF m.rcpt[r] = "scheduled" THEN m.domain[DomainOf[r]].status ELSE m.rcpt[r]

DsnCandidates(m) == {r \in Rcpts : r \notin m.dsn /\ "never" \notin NotifyFlags[r]}

DsnFailure(m) == {r \in DsnCandidates(m) : DsnStatus(m, r) = "perm"}

DsnSuccess(m) == {r \in DsnCandidates(m) : m.rcpt[r] = "completed"}

DsnDelay(m, t) ==
    {r \in DsnCandidates(m) :
        /\ DsnStatus(m, r) \in {"scheduled", "temp"}
        /\ m.domain[DomainOf[r]].notify <= t
        /\ "delay" \in NotifyFlags[r]}

\* The recipients the notification reports.
DsnReported(m, t) ==
    {r \in DsnFailure(m) : "failure" \in NotifyFlags[r]}
      \cup {r \in DsnSuccess(m) : "success" \in NotifyFlags[r]}
      \cup DsnDelay(m, t)

NextNotify(dom, t) ==
    IF dom.notified + 2 <= Len(NotifyDelays)
    THEN [dom EXCEPT !.notify = t + NotifyDelays[dom.notified + 2], !.notified = @ + 1]
    ELSE [dom EXCEPT !.notify = dom.expires + 10]

\* Mutant: RCPT_DSN_SENT is not set.
BuildDsnUnflagged(m, t) ==
    [m EXCEPT !.domain = [d \in Domains |->
                            IF d \in PendingDomains(m) /\ m.domain[d].notify <= t
                            THEN NextNotify(@[d], t) ELSE @[d]]]

\* The message after build_dsn: final recipients are flagged as reported whether
\* or not the sender asked for the report, and the domains with a due delay
\* notification get their next one, but only if a delay is part of this DSN.
BuildDsn(m, t) ==
    [m EXCEPT
       !.dsn = @ \cup DsnFailure(m) \cup DsnSuccess(m),
       !.domain = [d \in Domains |->
                     IF /\ DsnDelay(m, t) # {}
                        /\ d \in PendingDomains(m)
                        /\ m.domain[d].notify <= t
                     THEN NextNotify(@[d], t)
                     ELSE @[d]]]

\* A bounce cannot be bounced: recipients are flagged and nothing is sent.
HandleDoubleBounce(m) == [m EXCEPT !.dsn = @ \cup DsnFailure(m)]

-----------------------------------------------------------------------------
(* Quotas.                                                                 *)

\* Keys that release_quota takes out of quota_keys: those of final domains and
\* final recipients (the sender's key has id 0 and is never among them).
ReleasedKeys(m) ==
    m.quota \cap ( {d \in Domains : InFinalState(m.domain[d].status)}
                     \cup {r \in Rcpts : InFinalState(m.rcpt[r])} )

ReleaseQuota(m) == [m EXCEPT !.quota = @ \ ReleasedKeys(m)]

=============================================================================
