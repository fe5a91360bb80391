----------------------------- MODULE StateManager -----------------------------
(***************************************************************************)
(* Push subscriptions of JMAP accounts and the state manager that routes   *)
(* state changes to them (jmap/src/push/set.rs, push/get.rs and            *)
(* services/state.rs).  PushSubscription/set calls change documents and    *)
(* then send the manager a picture of the account's subscriptions they     *)
(* read; the manager is one task and owns the routing tables.              *)
(***************************************************************************)
EXTENDS Integers, Sequences, FiniteSets

CONSTANTS
  Accounts, Docs,   \* accounts, document ids of one account's subscriptions
  Types,            \* data types (Email, Mailbox, ...)
  Urls,             \* push service addresses
  Conns,            \* event source and web socket connections
  Calls,            \* PushSubscription/set calls that may run at once
  MaxTotal,         \* jmap.push.max-total
  Lifetime,         \* EXPIRES_MAX
  MaxTime,          \* the clock stops here (bound)
  Publications,     \* sets of types that changes carry
  QueueSize,        \* IPC_CHANNEL_BUFFER: events the manager's channel holds
  Tokens            \* values get_access_token may have for an account

VARIABLES
  now, docs,        \* the clock; <<account, document>> -> PushSubscription
  calls,            \* what each call is doing
  acl,              \* account -> access token, or NoToken
  queue,            \* state_tx, events sent to the manager
  subscribers,      \* <<account, document>> -> Subscriber of type Push
  conns,            \* connection -> Subscriber of type Ipc and its mail box
  shared_accounts, shared_accounts_map,
  running,          \* the manager's task has not been stopped
  inbox             \* push_tx, events sent to the push manager

docVars == <<now, docs, calls, acl>>

routeVars == <<subscribers, shared_accounts, shared_accounts_map>>

stateVars == <<docVars, queue, routeVars, conns, running, inbox>>

Ids == Accounts \X Docs

NoToken == [known |-> FALSE, member_of |-> {}, access_to |-> <<>>]

Idle == [at |-> "idle"]

Closed == [at |-> "closed"]

StateInit ==
  /\ now = 0
  /\ docs = <<>>
  /\ calls = [c \in Calls |-> Idle]
  /\ acl \in [Accounts -> Tokens]
  /\ queue = <<>>
  /\ subscribers = <<>>
  /\ conns = [c \in Conns |-> Closed]
  /\ shared_accounts = <<>>
  /\ shared_accounts_map = [a \in Accounts |-> <<>>]
  /\ running = TRUE

\* A channel without a limit.
EnqueueUnbounded(e) == queue' = Append(queue, e)

Enqueue(e) == Len(queue) < QueueSize /\ queue' = Append(queue, e)

Of(account, f) == {i \in DOMAIN f : i[1] = account}

Without(f, s) == [i \in DOMAIN f \ s |-> f[i]]

Insert(f, k, v) == [i \in DOMAIN f \cup {k} |-> IF i = k THEN v ELSE f[i]]

Become(c, state) == calls' = [calls EXCEPT ![c] = state]

-----------------------------------------------------------------------------
(* PushSubscription/set, one object a call.                                *)

\* The ids are read first, the rest of the call works with that picture.
Begin(c, account) ==
  /\ calls[c].at = "idle"
  /\ Become(c, [at |-> "begun", account |-> account, push_ids |-> Of(account, docs)])
  /\ UNCHANGED <<now, docs, acl, queue, routeVars, conns, running, inbox>>

Expiries == now..(now + Lifetime)

Changed(c) == Become(c, [at |-> "changed", account |-> calls[c].account])

\* Whatever id is free may be assigned, one that was used before included.
Create(c) ==
  /\ calls[c].at = "begun"
  /\ Cardinality(calls[c].push_ids) < MaxTotal
  /\ \E id \in {i \in Ids : i[1] = calls[c].account} \ DOMAIN docs,
        url \in Urls, types \in SUBSET Types \ {{}}, expires \in Expiries :
       docs' = Insert(docs, id, [url |-> url, types |-> types, expires |-> expires,
                                 verified |-> FALSE])
  /\ Changed(c)
  /\ UNCHANGED <<now, acl, queue, routeVars, conns, running, inbox>>

\* An update rewrites the object it read, with the code the push service
\* received, other types or another expiry date.
ReadDoc(c, id) ==
  /\ calls[c].at = "begun"
  /\ id \in Of(calls[c].account, docs)
  /\ Become(c, [at |-> "read", account |-> calls[c].account, id |-> id, doc |-> docs[id]])
  /\ UNCHANGED <<now, docs, acl, queue, routeVars, conns, running, inbox>>

WriteDoc(c, codes) ==
  /\ calls[c].at = "read"
  /\ LET old == calls[c].doc
     IN  \E new \in [url : {old.url}, types : SUBSET Types \ {{}}, expires : Expiries \cup {old.expires},
                     verified : {old.verified, calls[c].id \in codes}] :
           docs' = [i \in DOMAIN docs |-> IF i = calls[c].id THEN new ELSE docs[i]]
  /\ Changed(c)
  /\ UNCHANGED <<now, acl, queue, routeVars, conns, running, inbox>>

Destroy(c, id) ==
  /\ calls[c].at = "begun"
  /\ id \in calls[c].push_ids
  /\ docs' = Without(docs, {id})
  /\ Changed(c)
  /\ UNCHANGED <<now, acl, queue, routeVars, conns, running, inbox>>

\* Nothing was created, updated or destroyed.
NoChanges(c) ==
  /\ calls[c].at = "begun"
  /\ Become(c, Idle)
  /\ UNCHANGED <<now, docs, acl, queue, routeVars, conns, running, inbox>>

\* fetch_push_subscriptions: the ids, then the objects; an object that is gone
\* by then ends the call without a word to the manager.
FetchIds(c) ==
  /\ calls[c].at = "changed"
  /\ Become(c, [at |-> "listed", account |-> calls[c].account,
                ids |-> Of(calls[c].account, docs)])
  /\ UNCHANGED <<now, docs, acl, queue, routeVars, conns, running, inbox>>

Picture(ids) ==
  LET current == {i \in ids : docs[i].expires > now}
  IN  [verified |-> [i \in {j \in current : docs[j].verified} |-> docs[i]],
       unverified |-> {i \in current : ~docs[i].verified}]

FetchDocs(c) ==
  /\ calls[c].at = "listed"
  /\ IF calls[c].ids \subseteq DOMAIN docs
     THEN Become(c, [at |-> "fetched", account |-> calls[c].account,
                     subs |-> Picture(calls[c].ids)])
     ELSE Become(c, Idle)
  /\ UNCHANGED <<now, docs, acl, queue, routeVars, conns, running, inbox>>

SendShared(c) ==
  /\ calls[c].at = "fetched"
  /\ Enqueue([kind |-> "shared", account |-> calls[c].account])
  /\ Become(c, [calls[c] EXCEPT !.at = "told"])
  /\ UNCHANGED <<now, docs, acl, routeVars, conns, running, inbox>>

SendSubscriptions(c) ==
  /\ calls[c].at = "told"
  /\ Enqueue([kind |-> "subs", account |-> calls[c].account, subs |-> calls[c].subs])
  /\ Become(c, Idle)
  /\ UNCHANGED <<now, docs, acl, routeVars, conns, running, inbox>>

-----------------------------------------------------------------------------
(* Event sources and web sockets (subscribe_state_manager), publications,  *)
(* and the world around the manager.                                       *)

Connect(n, account) ==
  /\ conns[n].at = "closed"
  /\ \A k \in DOMAIN queue : queue[k] # [kind |-> "subscribe", conn |-> n]
  /\ Enqueue([kind |-> "shared", account |-> account])
  /\ conns' = [conns EXCEPT ![n] = [at |-> "opening", account |-> account]]
  /\ UNCHANGED <<docVars, routeVars, running, inbox>>

Subscribe(n, types) ==
  /\ conns[n].at = "opening"
  /\ Enqueue([kind |-> "subscribe", conn |-> n])
  /\ conns' = [conns EXCEPT ![n] =
                 [at |-> "open", account |-> conns[n].account, types |-> types,
                  listed |-> FALSE, transit |-> {}]]
  /\ UNCHANGED <<docVars, routeVars, running, inbox>>

\* The client goes; the manager finds its channel closed.  That a change which
\* meets a closed channel makes it purge is part of the choice of hourly below.
Disconnect(n) ==
  /\ conns[n].at = "open"
  /\ conns' = [conns EXCEPT ![n] = Closed]
  /\ UNCHANGED <<docVars, queue, routeVars, running, inbox>>

\* A task of its own hands a change over, or gives up after SEND_TIMEOUT.
HandOver(n, change) ==
  /\ conns[n].at = "open" /\ change \in conns[n].transit
  /\ conns' = [conns EXCEPT ![n].transit = @ \ {change}]
  /\ UNCHANGED <<docVars, queue, routeVars, running, inbox>>

Publish(account, types) ==
  /\ Enqueue([kind |-> "publish", change |-> [account |-> account, types |-> types]])
  /\ UNCHANGED <<docVars, routeVars, conns, running, inbox>>

SendStop ==
  /\ Enqueue([kind |-> "stop"])
  /\ UNCHANGED <<docVars, routeVars, conns, running, inbox>>

Grant(account, token) ==
  /\ acl[account] # token
  /\ acl' = [acl EXCEPT ![account] = token]
  /\ UNCHANGED <<now, docs, calls, queue, routeVars, conns, running, inbox>>

Advance ==
  /\ now < MaxTime
  /\ now' = now + 1
  /\ UNCHANGED <<docs, calls, acl, queue, routeVars, conns, running, inbox>>

-----------------------------------------------------------------------------
(* The manager. *)

Forget(s) == subscribers' = Without(subscribers, s)

ToPushManager(e) == Len(inbox) < QueueSize /\ inbox' = Append(inbox, e)

Invalid == {i \in DOMAIN subscribers : subscribers[i].expires <= now}

Listening(n, owner) == conns[n].at = "open" /\ conns[n].listed /\ conns[n].account = owner

\* Accounts the token no longer names keep their routes.
UpdateSharedAccountsKeeps(account) ==
  LET token == acl[account]
      seen == {account} \cup token.member_of \cup DOMAIN token.access_to
      types(b) == IF b \in {account} \cup token.member_of THEN Types ELSE token.access_to[b]
  IN  /\ shared_accounts' = Insert(shared_accounts, account, seen)
      /\ shared_accounts_map' =
           [b \in Accounts |->
              IF b \in seen THEN Insert(shared_accounts_map[b], account, types(b))
              ELSE shared_accounts_map[b]]

\* The table of accounts this account may see, after its token was read again;
\* both directions are kept.
UpdateSharedAccounts(account) ==
  LET token == acl[account]
      seen == {account} \cup token.member_of \cup DOMAIN token.access_to
      types(b) == IF b \in {account} \cup token.member_of THEN Types ELSE token.access_to[b]
      lost == IF account \in DOMAIN shared_accounts THEN shared_accounts[account] \ seen ELSE {}
  IN  /\ shared_accounts' = Insert(shared_accounts, account, seen)
      /\ shared_accounts_map' =
           [b \in Accounts |->
              IF b \in lost THEN Without(shared_accounts_map[b], {account})
              ELSE IF b \in seen THEN Insert(shared_accounts_map[b], account, types(b))
              ELSE shared_accounts_map[b]]

Wanted(types, owner, change) ==
  types \cap change.types \cap shared_accounts_map[change.account][owner]

ToPush(change) ==
  {i \in DOMAIN subscribers :
     /\ i[1] \in DOMAIN shared_accounts_map[change.account]
     /\ Wanted(subscribers[i].types, i[1], change) # {}}

ToConnUnfiltered(change, n) ==
  IF \E o \in DOMAIN shared_accounts_map[change.account] :
       Listening(n, o) /\ Wanted(conns[n].types, o, change) # {}
  THEN {change} ELSE {}

\* What a connection is sent of a change: the types it asked for and may see.
ToConn(change, n) ==
  {[change EXCEPT !.types = Wanted(conns[n].types, o, change)] :
     o \in {p \in DOMAIN shared_accounts_map[change.account] :
              Listening(n, p) /\ Wanted(conns[n].types, p, change) # {}}}

\* Subscribers that are no longer valid go once an hour, or when a change meets one.
PublishChange(change, hourly) ==
  LET hit == ToPush(change)
      live == hit \ Invalid
  IN  /\ conns' = [n \in Conns |->
                     IF ToConn(change, n) = {} THEN conns[n]
                     ELSE [conns[n] EXCEPT !.transit = @ \cup ToConn(change, n)]]
      /\ IF live = {} THEN UNCHANGED inbox
         ELSE ToPushManager([kind |-> "push", ids |-> live, change |-> change])
      /\ IF hourly \/ hit # live THEN Forget(Invalid) ELSE UNCHANGED subscribers
      /\ UNCHANGED <<shared_accounts, shared_accounts_map>>

\* A verified subscription that is not new is not announced again.
UpdateSubscriptionsOnce(account, subs, hourly) ==
  LET removed == Of(account, subscribers) \ DOMAIN subs.verified
      kept == [i \in DOMAIN subs.verified \cup (DOMAIN subscribers \ removed) |->
                 IF i \in DOMAIN subs.verified
                 THEN [types |-> subs.verified[i].types, expires |-> subs.verified[i].expires]
                 ELSE subscribers[i]]
      register == [i \in DOMAIN subs.verified \ DOMAIN subscribers |-> subs.verified[i].url]
  IN  /\ subscribers' = kept
      /\ ToPushManager([kind |-> "update", unregister |-> Of(account, subscribers),
                        verify |-> subs.unverified, register |-> register])
      /\ UNCHANGED <<shared_accounts, shared_accounts_map, conns>>

UpdateSubscriptions(account, subs, hourly) ==
  LET removed == Of(account, subscribers) \ DOMAIN subs.verified
      kept == [i \in DOMAIN subs.verified \cup (DOMAIN subscribers \ removed) |->
                 IF i \in DOMAIN subs.verified
                 THEN [types |-> subs.verified[i].types, expires |-> subs.verified[i].expires]
                 ELSE subscribers[i]]
      update == [kind |-> "update", unregister |-> removed, verify |-> subs.unverified,
                 register |-> [i \in DOMAIN subs.verified |-> subs.verified[i].url]]
  IN  /\ subscribers' =
           IF hourly THEN [i \in {j \in DOMAIN kept : kept[j].expires > now} |-> kept[i]]
           ELSE kept
      /\ IF removed \cup subs.unverified \cup DOMAIN subs.verified = {} THEN UNCHANGED inbox
         ELSE ToPushManager(update)
      /\ UNCHANGED <<shared_accounts, shared_accounts_map, conns>>

AddConn(n, hourly) ==
  /\ conns' = IF conns[n].at = "open" THEN [conns EXCEPT ![n].listed = TRUE] ELSE conns
  /\ IF hourly THEN Forget(Invalid) ELSE UNCHANGED subscribers
  /\ UNCHANGED <<shared_accounts, shared_accounts_map, inbox>>

Share(account, hourly) ==
  /\ IF ~acl[account].known THEN UNCHANGED routeVars
     ELSE /\ UpdateSharedAccounts(account)
          /\ IF hourly THEN Forget(Invalid) ELSE UNCHANGED subscribers
  /\ UNCHANGED <<conns, running, inbox>>

Manage(hourly) ==
  /\ running /\ queue # <<>>
  /\ queue' = Tail(queue)
  /\ LET e == Head(queue)
     IN  \/ e.kind = "shared" /\ Share(e.account, hourly)
         \/ e.kind = "subscribe" /\ AddConn(e.conn, hourly)
         \/ e.kind = "publish" /\ PublishChange(e.change, hourly)
         \/ e.kind = "subs" /\ UpdateSubscriptions(e.account, e.subs, hourly)
  /\ UNCHANGED <<docVars, running>>

\* Stop ends the task: what is sent after it is never received.
Stop ==
  /\ running /\ queue # <<>> /\ Head(queue).kind = "stop"
  /\ running' = FALSE
  /\ queue' = Tail(queue)
  /\ ToPushManager([kind |-> "reset"])
  /\ UNCHANGED <<docVars, routeVars, conns>>

SetCall(c, codes) ==
  \/ \E a \in Accounts : Begin(c, a)
  \/ Create(c) \/ WriteDoc(c, codes) \/ NoChanges(c)
  \/ \E id \in Ids : ReadDoc(c, id) \/ Destroy(c, id)
  \/ FetchIds(c) \/ FetchDocs(c) \/ SendShared(c) \/ SendSubscriptions(c)

Connection(n) ==
  \/ \E a \in Accounts : Connect(n, a)
  \/ \E types \in SUBSET Types \ {{}} : Subscribe(n, types)
  \/ Disconnect(n)
  \/ conns[n].at = "open" /\ \E change \in conns[n].transit : HandOver(n, change)

-----------------------------------------------------------------------------
(* Properties. *)

\* The two sharing tables mirror each other: account a is in b's routes exactly
\* when b is in a's list.  A route without its entry in the list is one no later
\* update can take away, a listed account without a route gets no events.
TablesMirror ==
  \A a, b \in Accounts :
    a \in DOMAIN shared_accounts_map[b] <=>
      (a \in DOMAIN shared_accounts /\ b \in shared_accounts[a])

\* A connection is sent only types it subscribed to, whatever the change carried.
OnlySubscribedTypes ==
  \A n \in Conns : conns[n].at = "open" =>
    \A change \in conns[n].transit : change.types \subseteq conns[n].types
=============================================================================
