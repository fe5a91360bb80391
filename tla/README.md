# TLA+ specifications of the Stalwart mail server

These modules model the parts of Stalwart in which several actors share state
and a test hardly reaches the interesting orders of their steps.  TLC checks
them on small instances; TLAPS proves every safety property of those runs for
any number of nodes, workers, messages, accounts and packets.  `PROJECT.json`
maps every definition to the lines it models and lists the hazards, the runs and
the theorems.

Contents: [the system](#the-system-and-its-parts), [the modules](#modules),
[the runs](#runs), [bounds](#bounds), [fairness](#fairness),
[where the code and its documentation disagree](#where-the-code-and-its-documentation-disagree),
[the proofs](#proofs), [what is only model-checked](#what-is-only-model-checked),
[what is not modelled](#what-is-not-modelled).

## The system and its parts

Stalwart is one process per node.  Nodes share a data store (key-value rows with
atomic batches and value assertions), a blob store and a settings store, and
learn of each other by gossip.

| part | shared state | what makes it hard | modules |
|---|---|---|---|
| **SMTP queue** (`crates/smtp/src/queue`, `outbound/delivery.rs`) | message, event and link rows, quota counters | all nodes compete for the same events; locks expire under running attempts; a crash between delivery and save; failed reads and writes are logged and ignored | `QueueMessage`, `SmtpQueue` |
| **Queue manager** (`queue/manager.rs`, `queue/throttle.rs`) | a channel, a wake-up time, messages on hold, concurrency limiters | wake-ups come only from the channel and one timer; a message on hold has its event locked | `QueueManager` |
| **Blob lifecycle** (`crates/store/src/write/blob.rs`, `crates/jmap/src/blob`) | reservations, links, commit rows, contents | a purge reads rows in some steps and deletes contents in later ones; check and reservation of a quota are two steps | `BlobStore` |
| **Full-text index queue** (`crates/jmap/src/services/index.rs`, `housekeeper.rs`) | queue entries with locks, the index | locks that run out under their holder, purges and reused document ids under an indexer, a busy flag kept through a channel | `IndexQueue`, `IndexPromise` |
| **Push** (`crates/jmap/src/push`, `services/state.rs`) | subscriptions, routing tables, requests in flight | answers arrive after the state they belong to has changed; two managers with a channel between them | `PushManager`, `StateManager`, `PushService` |
| **Gossip** (`crates/jmap/src/services/gossip`) | peer lists, epochs, generation counters | packets are lost, repeated and overtaken; everybody repeats what others said; reloads run later than the news that asks for them | `Gossip` |

## Modules

Each `MC...` module instantiates a specification for TLC.

**`QueueMessage`** is the message record of the queue (`queue/mod.rs`) and the
functions that compute on it: when it next needs attention (`NextEvent`,
`NextDeliveryEvent`), expiry (`HasPendingDelivery`), the outcome of a session for
one domain, what a DSN (delivery status notification) reports and flags
(`BuildDsn`), which quota keys a save gives back.  Addresses, sizes and texts are
left out; a status keeps its kind.

**`SmtpQueue`** is the queue.  The rows `events`, `messages`, `links` and
`counters` are the shared store; `tasks` are spawned attempts that have no lock
yet, `att` the attempts that have, with their program counter, their copy of the
message and the domain they are at; `held` are messages on hold.  Each await of
`try_deliver` that another actor can run in ends a step: lock, fetch, DSN,
decision and save, admission, one session per domain, DSN, final save,
notification.  A batch written to the store is one step, and the constant
`Faults` says which accesses may fail.  History variables record what the
properties speak of: `delivered`, `duplicated`, `failed`, `reported`,
`rebounced`, `overran` (messages with an attempt that outlived its lock, which
nothing renews) and `interrupted` (messages with an attempt cut short by a crash
or a failed write).

**`QueueManager`** adds the loop of `queue/manager.rs` on every node: its channel,
its wake-up time, the messages on hold (`on_hold`, and those received and not yet
stored there), and the concurrency limiters with the slots of attempts that have
reported and not yet been dropped (`lingering`).  It composes with the queue by
an instance of `SmtpQueue` over the same rows, and `ManagesQueue` says that every
step of the managers is a step of the queue.

**`BlobStore`** has requests (upload, ingestion, scripts, queueing, copies,
deletions, account removal) and purges, each access to a store one step, with
failures and crashes at every step.  A content is its hash.

**`IndexQueue`** has indexers, housekeepers with `index_busy` and
`index_pending`, requests that write, announce and purge messages, failing calls
and restarts.  **`IndexPromise`** is the abstract specification: an entry leaves
the queue only when its message is indexed or gone.

**`PushManager`** is the push manager with its HTTP requests, **`StateManager`**
the routing tables, the documents and the connections, **`PushService`** the two
with the channel between them, `PushSubscription/set` calls, purges, stops and
restarts.

**`Gossip`** has pings, pongs and leaves over UDP, the peer lists merged from
them, a nondeterministic verdict in the place of the accrual failure detector,
and the reloads that generation counters cause.  Settings are sets of changes;
`told` is a history of what each node announced last, and to whom it was news.

## Runs

| run | asks | states |
|---|---|---|
| `queue_locks` | Two nodes, two workers, crashes, failing writes, a lock of one tick: the compare-and-swap of `try_lock_event` excludes (`Exclusive`), the rows of a message stay together (`RowsTogether`), nobody is delivered to twice unless a lock was outlived or an attempt cut short (`AtMostOnce`), no one else touches a locked event (`LockRespected`). | 208,969 |
| `queue_outcomes` | Every answer for two recipients of two domains, with failing DSNs, locks and reads: no recipient is forgotten, no domain is completed with an unfinished recipient, a counter covers the messages that hold its key, the event of a message is due by its next retry, a failure is bounced once. | 1,383,480 |
| `manager_wakes` | Two managers, a message that may be released later: it leaves the queue (`EventuallyGone`). | 166,425 |
| `manager_holds` | Two messages that compete for one slot, a crash: messages on hold stay tracked, limits are kept, quotas are covered, and the managers implement the queue. | 82,207 |
| `blob_promises` | A request and a purge on two documents of one content, with a failure: links and unexpired BlobIds have their content, uploads stay bounded, unused content is collected. | 271,698 |
| `index_promises` | Two nodes whose locks run out at once: `KeepsPromise` (refinement of `IndexPromise`), one indexer per node, the queue drains. | 191,936 |
| `push_retries` | The push manager with failing, late and lost answers: failed subscriptions stay in sight, marks of requests in flight are truthful, changes are given up only after the configured attempts, failures are resolved. | 71,659 |
| `push_registered` | Both managers: what is routed is registered by the time a change arrives. | 643,704 |
| `state_routes` | Tokens that change, subscriptions and connections: the two sharing tables mirror each other, connections get the types they asked for. | 894,240 |
| `gossip` | Three nodes, from their seeds or from a cluster that has formed: lists stay sound, nobody is ahead of a node about itself, an announced change is loaded by who hears of it. | 395,015 |
| `quota_leak`, `blob_race` | Two disagreements with the code's comments and tests, below. | |

Every property of a passing run has a mutant in `PROJECT.json`: a plausible bug
in a mapped definition that makes the run fail.

## Bounds

The bounds are named constants of the specifications or of the `MC` modules.

| configuration | instance |
|---|---|
| `QueueLocks` | 2 nodes, 2 workers, 1 message with 1 recipient, a lock of 1 tick, time to 3, failing writes |
| `QueueOutcomes` | 1 node, 1 worker, 2 recipients of 2 domains with a quota each, time to 3, failing DSNs, locks and reads |
| `ManagerWakes` | 2 nodes, 2 workers, 1 message released at 0 or 1, expiry 2, a lock of 1 tick, time to 7, channels of 2 |
| `ManagerHolds` | 1 node, 2 workers, 2 messages, one slot per limiter, time to 2, one crash |
| `BlobPromises` | 1 account, 1 hash, 2 documents, 1 queue id, 1 request and 1 purge at a time, 1 failure, time to 1 |
| `IndexPromises` | 2 nodes, 1 document id, 1 message, locks that run out at once, 1 failure, channels of 2, time to 2 |
| `PushRetries` | 1 subscription, 2 attempts, 2 changes, 2 updates, 1 reset, a channel of 2 |
| `PushRegistered` | 1 account, 1 document, 1 type, 1 call at a time, 1 publication, 1 restart |
| `StateRoutes` | 2 accounts, 2 types, 1 connection, 2 publications |
| `Gossip` | 3 nodes, 2 packets on the wire, 1 request, 1 fault, 4 steps of gossip from the seeds or from a formed cluster |

They are the smallest in which the hazards happen.  Two workers and a lock
shorter than an attempt give two attempts at one message; two domains give a
partial delivery; two messages and one slot give a message on hold; an expiry
longer than the lock gives a retry; a third node gives news at second hand.  The
mutants confirm it: each is a bug of one of these kinds, and the instance finds
it.  The theorems below have no bounds on nodes, workers, messages, documents or
packets; a bound on time or on the number of faults is an arbitrary natural
number there.

Two bounds restrict behaviours.  In `QueueManager` the clock waits for runnable
tasks after `SlowUntil`, so that a run which ends at `MaxTime` has had the time to
finish; before it, attempts may take arbitrarily long and outlive their locks.
`LastArrival` lets the queue drain.  Both matter to `EventuallyGone` only.

## Fairness

Tokio runs every runnable task, and a timer that is due fires; the models assume
weak fairness of exactly the steps that are such tasks.

- `QueueManager`: the steps of each manager's loop (`Manage`), of each attempt
  (`Run`, `Finish`), the end of a task (`Drop`), a lock attempt that finds the
  event taken (`GiveUp`), the clock.  No client has to queue anything, no crash
  has to happen, no remote host has to accept.
- `BlobStore`: the steps of a purge, which the housekeeper repeats for ever.
- `IndexQueue`: requests that announce what they queued, housekeepers, indexers,
  the clock.
- `PushManager`: the manager's loop, its timeout, the clock, and that each HTTP
  request ends, since the code gives every one a timeout.

## Where the code and its documentation disagree

Two runs end in a violation, on purpose:

- `quota_leak`: `Message::save_changes` collects the decrements of the quota
  counters under the comment "Release quota for completed deliveries"
  (`queue/spool.rs:399`) in a batch that the next `let mut batch` shadows.  The
  keys leave the message and the counters stay up.  This is why `QuotaCovered`
  says "at least" and no invariant says "exactly".
- `blob_race`: `purge_blobs` deletes what it found unlinked some steps earlier,
  and the reservation of a queued message lies where its scan ends.
  `tests/src/store/blob.rs:213` says "make sure nothing else is deleted"; content
  linked meanwhile is deleted.  `PromisesKept` therefore speaks of hashes on which
  no purge and no request overlapped.

Further configurations show disagreements that are not listed as runs; each ends
in a counterexample to the property it names.

| configuration, module | property | what happens |
|---|---|---|
| `LostWakeUp`, `MCQueueManager` | `HeldResumed` | "Deliver any concurrency limited messages" comes before the message just received is put on hold; if the slot it waits for is free by then, no event is left to wake the manager |
| `CrashStrands`, `MCQueueManager` | `EventuallyGone` | the scan after a restart passes over an event whose lock has not run out, and sets no wake-up time for it |
| `SilentFailure`, `MCSmtpQueue` | `FailureReported` | the DSN cannot be queued, and the message is removed all the same: "(DSN has been already sent)" does not hold |
| `LostEvent`, `MCSmtpQueue` | `StoredHasEvent` | a failed read is taken for "Message no longer exists, delete queue event." |
| `BlobOrphan`, `MCBlobStore` | `ExpiredRemoved` | a request stores content after a purge took its expired reservation, and fails before the commit row: no row leads a purge to it |
| `BlobAllOnes`, `MCBlobStore` | `OnlyUnlinkedDoomed` | the link of a queue id of all ones lies at the end of the purge's scan and is not read |
| `PushStranded`, `MCPushManager` | `GroupedChangesPushed` | the success of a request takes the subscription off the retry list, with the changes grouped meanwhile still in it |
| `PushTypes`, `MCPushService` | `JustTheRequestedTypes` | a change of several types is sent whole to a subscription that asked for one of them |
| `PushStale`, `MCPushService` | `DestroyedIsGone` | the list of one call, read before another call destroyed the subscription, is applied after it |
| `IndexLeft`, `MCIndexQueue` | `AnyQueuedIndexed` | "Index any queued messages" at a restart passes over an entry whose lock has not run out, and nothing looks at it again before the next message |
| `IndexGhost`, `MCIndexQueue` | `PurgedNotIndexed` | an indexer writes the terms of a message after its purge |

## Proofs

Eight modules hold the proofs; each states an inductive invariant and has one
lemma per action.  They hold for every value of the constants that satisfies the
named assumptions, which say what the constants are (`MessageAssumption`,
`QueueAssumption`, `ManagerAssumption`, `BlobAssumption`, `IndexAssumption`,
`PushAssumption`, `GossipAssumption`) and that the marker `None` is no message and
no event (`NoneIsNoMessage`, `NoneIsNoEvent`).  Two say more: limiters have room
for one attempt at least, and no node is its own seed.

**`SmtpQueueProofs`**: `TypeCorrect`, `AttemptsExclusive`, `LocksRespected`,
`RowsStayTogether`.  `Exclusive` is not inductive: a second attempt could come
from a task, a message on hold or an event that two of them know.  `LockInv`
speaks of *tokens*, the events that attempts, tasks and messages on hold have in
their hands.  For a message whose locks were never outlived, an attempt at work
has an unexpired lock (`ActiveLive`), only the domain loop puts an attempt on hold
(`HoldLate`), an unexpired token is the event in the store (`TokensStored`), it is
in one place only (`TokensDistinct`), and a message has one event (`OneEvent`).  A
lock succeeds only on the event as it was read, so a token already there makes it
fail.  `RowsTogether` needs that reads do not fail, and is proved under `"read"
\notin Faults`; the configuration `LostEvent` shows that it needs this.

**`SmtpQueueOutcomes`**: `NothingForgotten` and `CompletedDomainsDone` from
`OutcomeInv`: every copy of a message, stored or in an attempt, claims of a
recipient or a domain only what has happened, although overrun attempts overwrite
each other's copies.  `DeliveredAtMostOnce` and `FailureBouncedOnce` from
`OnceInv`: for messages that were neither overrun nor interrupted, the working
copy knows every delivery and report.  `MessagesAreWoken` from `WakeInv`: attempts
start when they are due, and the event of a message is due by the next retry of
the attempt's copy and of the stored row.

**`SmtpQueueQuota`**: `QuotaIsCovered` from `QuotaInv`: counters are compared with
the set of stored messages that hold the key, which stays finite and loses a
member at each decrement, and an attempt's copy holds the same keys as its row.

**`QueueManagerProofs`**: `ManagersImplementQueue` is the refinement: each step of
the managers is one of the queue or leaves it alone.  `ManagersCoverQuota` follows
from it and `QuotaIsCovered`.  `ConcurrencyLimited` counts attempts in flight and
those finished that still have their slot.  `HoldsAreTracked` needs `OwnersApart`,
which says of expired tokens too that no two owners share one (a lock that
`try_lock_event` writes is new), and `HoldInv`: an entry is in one place of its
node, its channel, its manager's hands or `on_hold`, and a manager that waits has
none in its hands.

**`BlobStoreProofs`**: `TypeCorrect`; `PromisesAreKept` from `KeptInv`, which says
of every hash on which no purge and no request overlapped what the rows are while
a request is at each of its steps, and that what a purge did not find reserved, or
is about to delete, is of no use to anyone; `UploadsStayBounded` from `BoundInv`,
a cardinality argument over the reservations counted and those under way.
`PromisesAreKept` assumes `AllOnes = {}`, and `BlobAllOnes` shows why.

**`IndexQueueProofs`**: `Refinement` of `IndexPromise` with the rows as the
mapping, from what an indexer knows of the entry it works on; `NeverLost` follows
through the abstract specification.  `OneIndexerEach` from `BusyInv`: busy
indexers and `IndexDone` events in the channel together are one if `index_busy` is
set and none otherwise.

**`PushProofs`**: about the whole service.  `RoutedAreRegistered` from
`ServiceInv`: what is routed is registered already, or by an event in the channel,
and no later event unregisters it.  `FailedStaysInSight`, `FlightIsAnswered` and
`ChangesGivenUpLate` are the properties of `PushManager` that `push_retries`
checks there, proved for the push manager inside the service from `ManagerInv`,
which says of each subscription whether it is in flight, on the retry list and
answered, and how often it failed in a row.  `SharingTablesMirror` and
`OnlySubscribedSent` are about the state manager.

**`GossipProofs`**: `GossipTypes`, `PeersListedOnce` and `NobodyAhead` from
`GossipInv` (every list and every packet is sound about every node).
`AnnouncementsAreLoaded` from `AnnounceInv`.  A merge keeps the peers that were
heard, and names every generation of theirs that moves (`Carried`), which starts a
reload.  So a node that had counted heartbeats of the announcer and has the
generation announced has the changes, or a reload that has read them or will
(`Heeds`, `Loads`), and no reload that read the settings before they were written
can still overwrite them (`ReadsAll`).  Merging a packet is a recursive function;
what it preserves is proved by taking the first index at which it would not.

## What is only model-checked

The liveness properties `EventuallyGone`, `UnusedCollected`, `QueueDrained` and
`FailuresResolved`: they rest on fairness, hence on `ENABLED`, which the provers
do not handle.  They hold on the instances above, and say nothing of larger ones.
The provers do not do induction over data either; where a proof needs it, it
takes a least counterexample instead.  Every other property of the passing runs has
a theorem.

## What is not modelled

Most of Stalwart's source is outside these models; `PROJECT.json` lists every
component with the reason.

- *Sequential front ends*: SMTP sessions, IMAP, POP3, ManageSieve, milters and most
  JMAP methods serve one request after the other; they matter here as what they
  hand to the queue, the blob store and the index.
- *Data*: parsing and serialisation, full-text search, classification, expressions,
  DKIM, reports, backup.
- *Outside services*: store backends (a batch is atomic in every model here),
  directories, DNS, TLS and ACME.  A session with a remote host is one step with
  any outcome the code can record.
- *Parts of what is modelled*: the arithmetic of the failure detector (any verdict),
  sizes in quotas (as counts), rate limits (any answer), the housekeeper's schedule.
- *Queue administration*: cancelling and rescheduling from the HTTP API change a
  message without its lock.  The theorems about locks speak of a queue nobody
  administers meanwhile.
