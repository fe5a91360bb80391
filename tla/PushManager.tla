------------------------------ MODULE PushManager ------------------------------
(***************************************************************************)
(* The push manager (jmap/src/push/manager.rs): one task that owns the     *)
(* registered push subscriptions, groups the state changes meant for each  *)
(* of them, posts them in requests of their own tasks, and retries the     *)
(* requests that fail.  Instants are kept as ages, the time elapsed since  *)
(* the instant, cut at Horizon where no comparison tells them apart.       *)
(***************************************************************************)
EXTENDS Integers, Sequences, FiniteSets, Functions, FiniteSetsExt

CONSTANTS
  Ids,              \* push subscription ids (account and document)
  Owner,            \* [Ids -> account] the account of a subscription
  Urls,             \* push service addresses
  Throttle, AttemptInterval, AttemptsMax, RetryInterval, VerifyTimeout,
  LongSlumber,      \* settings of common/src/config/jmap/settings.rs
  Capacity          \* IPC_CHANNEL_BUFFER: events push_rx holds

VARIABLES
  inbox,            \* push_rx, the events sent and not yet received
  subscriptions,    \* id -> PushServer, a function on the registered ids
  last_verify,      \* account -> age of its last verification request
  last_retry,       \* age of the last sweep that left something to retry
  retry_timeout,    \* how long the task waits for an event
  waited,           \* how long it has waited
  retry_ids,        \* subscriptions to look at again
  requests,         \* id -> requests of PushServer::send on the wire
  codes,            \* subscriptions whose verification code was delivered
  fails             \* id -> failures received since a success (history)

managerVars == <<subscriptions, last_verify, last_retry, retry_timeout, waited,
                 retry_ids, requests, codes>>

vars == <<inbox, managerVars, fails>>

Owners == Range(Owner)

\* The entries of f, and those of g for other keys.
Over(f, g) == [k \in DOMAIN f \cup DOMAIN g |-> IF k \in DOMAIN f THEN f[k] ELSE g[k]]

WithoutNth(s, n) == SubSeq(s, 1, n - 1) \o SubSeq(s, n + 1, Len(s))

Horizon == Max({Throttle, AttemptInterval, RetryInterval, VerifyTimeout}) + 2

Older(age) == Min({age + 1, Horizon})

Never == Horizon

Init ==
  /\ inbox = <<>>
  /\ subscriptions = <<>>
  /\ last_verify = [a \in Owners |-> Never]
  /\ last_retry = 0
  /\ retry_timeout = LongSlumber
  /\ waited = 0
  /\ retry_ids = {}
  /\ requests = [i \in Ids |-> <<>>]
  /\ codes = {}
  /\ fails = [i \in Ids |-> 0]

-----------------------------------------------------------------------------
(* Subscriptions. *)

PushServer(url) ==
  [url |-> url, num_attempts |-> 0, last_request |-> Throttle + 1,
   state_changes |-> <<>>, in_flight |-> FALSE]

\* A new change is sent at once when nothing is in flight and the throttle, or
\* the interval after a failed attempt, has passed.
SendsAtOnce(s) ==
  /\ ~s.in_flight
  /\ \/ s.num_attempts = 0 /\ s.last_request > Throttle
     \/ s.num_attempts \in 1..(AttemptsMax - 1) /\ s.last_request > AttemptInterval

RetryDue(s) ==
  /\ ~s.in_flight
  /\ \/ s.num_attempts = 0 /\ s.last_request >= Throttle
     \/ s.num_attempts > 0 /\ s.last_request >= AttemptInterval

Sent(s) == [s EXCEPT !.state_changes = <<>>, !.in_flight = TRUE, !.last_request = 0]

Dropped(s) == [s EXCEPT !.state_changes = <<>>, !.num_attempts = 0]

Request(s) == [url |-> s.url, state_changes |-> s.state_changes]

-----------------------------------------------------------------------------
(* What an event does to the subscriptions and the retry list, and which   *)
(* requests it starts.                                                     *)

Unchanged == [subs |-> subscriptions, retry |-> retry_ids, send |-> <<>>]

OnPush(ids, change) ==
  LET known == ids \cap DOMAIN subscriptions
      grown == [i \in known |->
                  [subscriptions[i] EXCEPT !.state_changes = Append(@, change)]]
      now == {i \in known : SendsAtOnce(subscriptions[i])}
  IN  [subs |-> [i \in DOMAIN subscriptions |->
                   IF i \in now THEN Sent(grown[i])
                   ELSE IF i \in known THEN grown[i] ELSE subscriptions[i]],
       retry |-> (retry_ids \ now) \cup (known \ now),
       send |-> [i \in now |-> Request(grown[i])]]

OnUpdate(register, unregister) ==
  LET kept == DOMAIN subscriptions \ unregister
  IN  [Unchanged EXCEPT !.subs =
         [i \in kept \cup DOMAIN register |->
            IF i \in kept THEN subscriptions[i] ELSE PushServer(register[i])]]

OnReset == [Unchanged EXCEPT !.subs = <<>>]

OnDeliverySuccess(id) ==
  IF id \in DOMAIN subscriptions
  THEN [Unchanged EXCEPT
          !.subs[id].num_attempts = 0, !.subs[id].in_flight = FALSE,
          !.retry = retry_ids \ {id}]
  ELSE Unchanged

\* The failed subscription is not put on the list.
OnDeliveryFailureForgets(id, changes) ==
  IF id \in DOMAIN subscriptions
  THEN [Unchanged EXCEPT
          !.subs[id].last_request = 0, !.subs[id].num_attempts = @ + 1,
          !.subs[id].state_changes = @ \o changes, !.subs[id].in_flight = FALSE]
  ELSE Unchanged

OnDeliveryFailure(id, changes) ==
  IF id \in DOMAIN subscriptions
  THEN [Unchanged EXCEPT
          !.subs[id].last_request = 0, !.subs[id].num_attempts = @ + 1,
          !.subs[id].state_changes = @ \o changes, !.subs[id].in_flight = FALSE,
          !.retry = retry_ids \cup {id}]
  ELSE Unchanged

OnEvent(e) ==
  CASE e.kind = "update" -> OnUpdate(e.register, e.unregister)
    [] e.kind = "push" -> OnPush(e.ids, e.change)
    [] e.kind = "reset" -> OnReset
    [] e.kind = "success" -> OnDeliverySuccess(e.id)
    [] e.kind = "failure" -> OnDeliveryFailure(e.id, e.changes)

-----------------------------------------------------------------------------
(* The end of every turn of the loop: look at the subscriptions to retry,  *)
(* if the last look is RetryInterval old, and choose the next wait.        *)

\* A sweep that clears the list although some were not due.
SweepClears(m) ==
  LET due == {i \in m.retry \cap DOMAIN m.subs : RetryDue(m.subs[i])}
      go == {i \in due : m.subs[i].num_attempts < AttemptsMax}
  IN  [subs |-> [i \in DOMAIN m.subs |->
                   IF i \in go THEN Sent(m.subs[i])
                   ELSE IF i \in due THEN Dropped(m.subs[i]) ELSE m.subs[i]],
       retry |-> {},
       send |-> Over([i \in go |-> Request(m.subs[i])], m.send),
       timeout |-> LongSlumber, last_retry |-> last_retry]

\* As the code, but one failed request is enough to give up.
SweepAfterOne(m) ==
  LET gone == m.retry \ DOMAIN m.subs
      due == {i \in m.retry \ gone : RetryDue(m.subs[i])}
      go == {i \in due : m.subs[i].num_attempts = 0}
      left == m.retry \ (due \cup gone)
  IN  [subs |-> [i \in DOMAIN m.subs |->
                   IF i \in go THEN Sent(m.subs[i])
                   ELSE IF i \in due THEN Dropped(m.subs[i]) ELSE m.subs[i]],
       retry |-> left,
       send |-> Over([i \in go |-> Request(m.subs[i])], m.send),
       timeout |-> IF left = {} THEN LongSlumber ELSE RetryInterval,
       last_retry |-> IF left = {} THEN last_retry ELSE 0]

Sweep(m) ==
  LET gone == m.retry \ DOMAIN m.subs
      due == {i \in m.retry \ gone : RetryDue(m.subs[i])}
      go == {i \in due : m.subs[i].num_attempts < AttemptsMax}
      left == m.retry \ (due \cup gone)
  IN  [subs |-> [i \in DOMAIN m.subs |->
                   IF i \in go THEN Sent(m.subs[i])
                   ELSE IF i \in due THEN Dropped(m.subs[i]) ELSE m.subs[i]],
       retry |-> left,
       send |-> Over([i \in go |-> Request(m.subs[i])], m.send),
       timeout |-> IF left = {} THEN LongSlumber ELSE RetryInterval,
       last_retry |-> IF left = {} THEN last_retry ELSE 0]

Wait(m, timeout) ==
  [subs |-> m.subs, retry |-> m.retry, send |-> m.send,
   timeout |-> timeout, last_retry |-> last_retry]

EndOfTurn(m) ==
  IF m.retry = {} THEN Wait(m, LongSlumber)
  ELSE IF last_retry >= RetryInterval THEN Sweep(m)
  ELSE Wait(m, RetryInterval - last_retry)

Turn(m) ==
  LET r == EndOfTurn(m)
  IN  /\ subscriptions' = r.subs
      /\ retry_ids' = r.retry
      /\ retry_timeout' = r.timeout
      /\ last_retry' = r.last_retry
      /\ waited' = 0
      /\ requests' = [i \in Ids |->
                        IF i \in DOMAIN r.send THEN Append(requests[i], r.send[i])
                        ELSE requests[i]]

-----------------------------------------------------------------------------
(* Steps. *)

\* Of the unverified subscriptions of an update, in order, the first of every
\* account whose last verification is older than VerifyTimeout is verified.
Verify(ids) ==
  LET allowed == {a \in Owners : last_verify[a] > VerifyTimeout}
      asked == {a \in allowed : \E i \in ids : Owner[i] = a}
  IN  /\ last_verify' = [a \in Owners |-> IF a \in asked THEN 0 ELSE last_verify[a]]
      /\ \E posted \in SUBSET ids :
           /\ \A a \in Owners :
                Cardinality({i \in posted : Owner[i] = a}) <= (IF a \in asked THEN 1 ELSE 0)
           /\ codes' = codes \cup posted

Receive ==
  /\ inbox # <<>>
  /\ inbox' = Tail(inbox)
  /\ LET e == Head(inbox)
     IN  /\ Turn(OnEvent(e))
         /\ IF e.kind = "update" THEN Verify(e.verify)
            ELSE UNCHANGED <<last_verify, codes>>
         /\ fails' = CASE e.kind = "success" -> [fails EXCEPT ![e.id] = 0]
                       [] e.kind = "failure" ->
                            [fails EXCEPT ![e.id] = Min({@ + 1, AttemptsMax})]
                       [] OTHER -> fails

TimeOut ==
  /\ waited >= retry_timeout
  /\ Turn(Unchanged)
  /\ UNCHANGED <<inbox, last_verify, codes, fails>>

\* The outcome of a failed request is not reported.
AnswerLost(id, n, ok) ==
  /\ n \in DOMAIN requests[id]
  /\ requests' = [requests EXCEPT ![id] = WithoutNth(@, n)]
  /\ inbox' = IF ok THEN Append(inbox, [kind |-> "success", id |-> id]) ELSE inbox
  /\ UNCHANGED <<subscriptions, last_verify, last_retry, retry_timeout, waited,
                 retry_ids, codes, fails>>

\* http_request ends, with a 2xx status or without, or its content could not
\* be encrypted, which counts as success; the outcome is sent to the manager.
Answer(id, n, ok) ==
  /\ n \in DOMAIN requests[id]
  /\ Len(inbox) < Capacity
  /\ requests' = [requests EXCEPT ![id] = WithoutNth(@, n)]
  /\ inbox' = Append(inbox,
       IF ok THEN [kind |-> "success", id |-> id]
       ELSE [kind |-> "failure", id |-> id,
             changes |-> requests[id][n].state_changes])
  /\ UNCHANGED <<subscriptions, last_verify, last_retry, retry_timeout, waited,
                 retry_ids, codes, fails>>

Tick ==
  /\ waited' = Min({waited + 1, LongSlumber})
  /\ last_retry' = Older(last_retry)
  /\ last_verify' = [a \in Owners |-> Older(last_verify[a])]
  /\ subscriptions' = [i \in DOMAIN subscriptions |->
                         [subscriptions[i] EXCEPT !.last_request = Older(@)]]
  /\ UNCHANGED <<inbox, retry_timeout, retry_ids, requests, codes, fails>>

Post(id) == \E n \in DOMAIN requests[id], ok \in BOOLEAN : Answer(id, n, ok)

Step == Receive \/ TimeOut \/ Tick \/ \E id \in Ids : Post(id)

\* Time passes, the task takes its turns, and a request ends: reqwest's timeout
\* bounds it.
Fairness ==
  /\ WF_vars(Receive)
  /\ WF_vars(TimeOut)
  /\ WF_vars(Tick)
  /\ \A id \in Ids : WF_vars(Post(id))

-----------------------------------------------------------------------------
(* Properties. *)

Outcomes(id) == {k \in DOMAIN inbox :
                   inbox[k].kind \in {"success", "failure"} /\ inbox[k].id = id}

Pending(id) == id \in DOMAIN subscriptions /\ subscriptions[id].state_changes # <<>>

TypeOK ==
  /\ Len(inbox) <= Capacity
  /\ DOMAIN subscriptions \subseteq Ids
  /\ \A i \in DOMAIN subscriptions :
       /\ subscriptions[i].url \in Urls
       /\ subscriptions[i].num_attempts \in Nat
       /\ subscriptions[i].last_request \in 0..Horizon
       /\ subscriptions[i].in_flight \in BOOLEAN
  /\ last_verify \in [Owners -> 0..Horizon]
  /\ last_retry \in 0..Horizon
  /\ retry_timeout \in 0..LongSlumber /\ waited \in 0..LongSlumber
  /\ retry_ids \subseteq Ids /\ codes \subseteq Ids
  /\ DOMAIN requests = Ids

\* A subscription whose last request failed stays in the manager's sight until
\* it is tried again or given up ("Failed deliveries should be re-attempted",
\* tests/src/jmap/push_subscription.rs): it is in flight or in retry_ids,
\* whatever registrations, resets and answers of older requests came between.
FailedIsRetried ==
  \A i \in DOMAIN subscriptions :
    subscriptions[i].num_attempts > 0 => subscriptions[i].in_flight \/ i \in retry_ids

\* A subscription marked in flight has an answer on its way: a request on the
\* wire or its outcome in the channel.  A mark left behind would silence the
\* subscription for good.
FlightAnswered ==
  \A i \in DOMAIN subscriptions :
    subscriptions[i].in_flight => requests[i] # <<>> \/ Outcomes(i) # {}

\* Changes are given up only after AttemptsMax failed requests without a success
\* between them: a step that drops a registered subscription's changes without
\* sending them has that many failures, one it received in this step included.
GivesUpLate ==
  [][\A i \in DOMAIN subscriptions \cap DOMAIN subscriptions' :
       (/\ Pending(i)
        /\ subscriptions'[i].state_changes = <<>>
        /\ Len(requests'[i]) <= Len(requests[i]))
       => fails'[i] >= AttemptsMax]_vars

\* A subscription whose last request failed is eventually rid of the failure: a
\* later request succeeds, the changes are given up, or it is unregistered.
FailuresResolved ==
  \A i \in Ids :
    (i \in DOMAIN subscriptions /\ subscriptions[i].num_attempts > 0)
      ~> (i \notin DOMAIN subscriptions \/ subscriptions[i].num_attempts = 0)

\* "Multiple change updates should be grouped and pushed in intervals"
\* (tests/src/jmap/push_subscription.rs:222): changes that wait in a
\* subscription are eventually pushed, given up, or go with the subscription.
GroupedChangesPushed == \A i \in Ids : Pending(i) ~> ~Pending(i)
=============================================================================
