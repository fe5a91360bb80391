------------------------------ MODULE PushService ------------------------------
(***************************************************************************)
(* The state manager and the push manager at work together: the channel    *)
(* inbox is the one's push_tx and the other's push_rx.  A restart of the   *)
(* server keeps the documents and the tokens and loses everything else.    *)
(***************************************************************************)
EXTENDS StateManager

CONSTANTS
  Throttle, AttemptInterval, AttemptsMax, RetryInterval, VerifyTimeout,
  LongSlumber, Owner

VARIABLES
  subscriptions, last_verify, last_retry, retry_timeout, waited, retry_ids,
  requests, codes, fails,
  restarts, published \* restarts and changes so far (bound them)

CONSTANTS MaxRestarts, MaxPublished

Push == INSTANCE PushManager WITH Capacity <- QueueSize

ASSUME PushAssumption ==
  /\ Throttle \in Nat /\ AttemptInterval \in Nat /\ AttemptsMax \in Nat
  /\ RetryInterval \in Nat /\ VerifyTimeout \in Nat
  /\ LongSlumber \in Nat /\ RetryInterval <= LongSlumber
  /\ QueueSize \in Nat /\ Lifetime \in Nat /\ MaxTime \in Nat /\ MaxRestarts \in Nat
  /\ Owner \in [Ids -> Accounts]

pushVars == <<subscriptions, last_verify, last_retry, retry_timeout, waited,
              retry_ids, requests, codes, fails>>

Init ==
  /\ StateInit
  /\ Push!Init
  /\ restarts = 0 /\ published = 0

\* The server's tasks and the calls they served are gone, and the documents
\* stay.  Nothing at start-up reads the subscriptions back.
Restart ==
  /\ restarts < MaxRestarts
  /\ restarts' = restarts + 1
  /\ calls' = [c \in Calls |-> Idle]
  /\ queue' = <<>>
  /\ subscribers' = <<>>
  /\ conns' = [n \in Conns |-> Closed]
  /\ shared_accounts' = <<>>
  /\ shared_accounts_map' = [a \in Accounts |-> <<>>]
  /\ running' = TRUE
  /\ inbox' = <<>>
  /\ subscriptions' = <<>>
  /\ last_verify' = [a \in Push!Owners |-> Push!Never]
  /\ last_retry' = 0
  /\ retry_timeout' = LongSlumber
  /\ waited' = 0
  /\ retry_ids' = {}
  /\ requests' = [i \in Ids |-> <<>>]
  /\ fails' = [i \in Ids |-> 0]
  /\ UNCHANGED <<now, docs, acl, codes, published>>

StateStep ==
  \/ \E c \in Calls : SetCall(c, codes)
  \/ \E n \in Conns : Connection(n)
  \/ \E a \in Accounts, token \in Tokens : Grant(a, token)
  \/ \E hourly \in BOOLEAN : Manage(hourly)
  \/ SendStop \/ Stop \/ Advance

PublishSome ==
  /\ published < MaxPublished
  /\ published' = published + 1
  /\ \E a \in Accounts, types \in Publications : Publish(a, types)

PushStep == Push!Step

Next ==
  \/ StateStep /\ UNCHANGED <<pushVars, restarts, published>>
  \/ PublishSome /\ UNCHANGED <<pushVars, restarts>>
  \/ PushStep /\ UNCHANGED <<docVars, queue, routeVars, conns, running, restarts, published>>
  \/ Restart

allVars == <<stateVars, pushVars, restarts, published>>

Spec == Init /\ [][Next]_allVars

-----------------------------------------------------------------------------
(* Properties. *)

TypeOK ==
  /\ now \in 0..MaxTime
  /\ DOMAIN docs \subseteq Ids
  /\ DOMAIN subscribers \subseteq Ids
  /\ Len(queue) <= QueueSize
  /\ running \in BOOLEAN /\ restarts \in 0..MaxRestarts
  /\ Push!TypeOK

Registers(e, i) == e.kind = "update" /\ i \in DOMAIN e.register

Unregisters(e, i) ==
  e.kind = "reset" \/ (e.kind = "update" /\ i \in e.unregister \ DOMAIN e.register)

KeptAfter(i, k) == \A j \in DOMAIN inbox : j > k => ~Unregisters(inbox[j], i)

\* The push manager will know i once it has read its channel.
Registered(i) ==
  \/ i \in DOMAIN subscriptions /\ KeptAfter(i, 0)
  \/ \E k \in DOMAIN inbox : Registers(inbox[k], i) /\ KeptAfter(i, k)

\* Every push subscriber the state manager routes changes to is registered at
\* the push manager by the time a change reaches it: otherwise the change is
\* dropped with "No push subscription found".
RoutedIsRegistered == running => \A i \in DOMAIN subscribers : Registered(i)

Quiet ==
  /\ running /\ queue = <<>> /\ inbox = <<>>
  /\ \A c \in Calls : calls[c].at = "idle"

\* "Receive states just for the requested types"
\* (tests/src/jmap/push_subscription.rs:160): no request on the wire carries a
\* type that the subscription it goes to has not asked for.
JustTheRequestedTypes ==
  Quiet => \A i \in Ids \cap DOMAIN docs \cap DOMAIN subscribers :
    subscribers[i].types = docs[i].types =>
      \A k \in DOMAIN requests[i] :
        \A m \in DOMAIN requests[i][k].state_changes :
          requests[i][k].state_changes[m].types \subseteq docs[i].types

\* tests/src/jmap/push_subscription.rs:231-235 destroys a subscription, changes
\* a mailbox and then has "expect_nothing(&mut event_rx)": once every call has
\* returned and the channels are empty, a destroyed subscription is not
\* registered any more, at either manager.
DestroyedIsGone ==
  Quiet => \A i \in Ids : i \notin DOMAIN docs =>
             i \notin DOMAIN subscribers /\ i \notin DOMAIN subscriptions
=============================================================================
