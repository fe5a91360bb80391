------------------------------- MODULE IndexQueue -------------------------------
(***************************************************************************)
(* Full-text indexing: messages put an entry in the index queue of the     *)
(* store (email/ingest.rs), the housekeeper of a node runs at most one     *)
(* indexer (services/housekeeper.rs), indexers of several nodes share the  *)
(* entries by locks that expire (services/index.rs), and an account purge  *)
(* removes deleted messages and their index (email/delete.rs).             *)
(* A message is a number; it stands for its content and its queue entry.   *)
(***************************************************************************)
EXTENDS Integers, Sequences, FiniteSets

CONSTANTS
  Nodes, Docs,      \* servers; document ids of the Email collection
  MaxMessages,      \* messages in a behaviour (bound)
  LockExpiry,       \* INDEX_LOCK_EXPIRY
  MaxTime,          \* the clock stops here (bound)
  MaxFailures,      \* failed calls and crashes in a behaviour (bound)
  MaxGossip,        \* index runs asked for by gossip in a behaviour (bound)
  ChannelSize,      \* IPC_CHANNEL_BUFFER
  Slots             \* indexer tasks a node could have at once

ASSUME IndexAssumption ==
  /\ MaxMessages \in Nat /\ MaxTime \in Nat \ {0} /\ LockExpiry \in Nat
  /\ ChannelSize \in Nat /\ 1 \in Slots

VARIABLES
  now,
  emails,           \* document id -> message, tombstoned or not
  fts,              \* document id -> messages its terms come from
  queue,            \* message -> FtsQueue entry: document and lock_expiry
  next,             \* the next message
  announce,         \* node -> IndexStart events still to be sent
  keeper,           \* node -> the housekeeper's index_busy and index_pending
  channel,          \* node -> the housekeeper's events
  indexer,          \* node -> slot -> fts_index_queued
  purger,           \* emails_purge_tombstoned
  failures, gossips \* failed calls and crashes, requests by gossip so far

vars == <<now, emails, fts, queue, next, announce, keeper, channel, indexer,
          purger, failures, gossips>>

Messages == 1..MaxMessages

\* A call fails, or the server stops.
Failure == failures < MaxFailures /\ failures' = failures + 1

NoEmail == [msg |-> 0, tombstone |-> FALSE]

Idle == [at |-> "idle", entries |-> {}]

Task(at, entries) == [at |-> at, entries |-> entries]

\* A housekeeper starts with an indexer for what is in the queue.
Started == [s \in Slots |-> IF s = 1 THEN Task("scan", {}) ELSE Idle]

Init ==
  /\ now = 1
  /\ emails = [d \in Docs |-> NoEmail]
  /\ fts = [d \in Docs |-> {}]
  /\ queue = [m \in {} |-> 0]
  /\ next = 1
  /\ announce = [n \in Nodes |-> 0]
  /\ keeper = [n \in Nodes |-> [busy |-> TRUE, pending |-> FALSE]]
  /\ channel = [n \in Nodes |-> <<>>]
  /\ indexer = [n \in Nodes |-> Started]
  /\ purger = Idle
  /\ failures = 0 /\ gossips = 0

-----------------------------------------------------------------------------
(* Messages come and go. *)

Entry(d, lock) == [doc |-> d, lock_expiry |-> lock]

Put(m, entry) == [k \in DOMAIN queue \cup {m} |-> IF k = m THEN entry ELSE queue[k]]

\* One batch writes the message and its queue entry; the housekeeper is told
\* afterwards.
Ingest(n, d) ==
  /\ next <= MaxMessages
  /\ emails[d] = NoEmail
  /\ emails' = [emails EXCEPT ![d] = [msg |-> next, tombstone |-> FALSE]]
  /\ queue' = Put(next, Entry(d, 0))
  /\ next' = next + 1
  /\ announce' = [announce EXCEPT ![n] = @ + 1]
  /\ UNCHANGED <<now, fts, keeper, channel, indexer, purger, failures, gossips>>

\* A sender that does not wait for room.
TellUnbounded(n, event) == channel' = [channel EXCEPT ![n] = Append(@, event)]

Tell(n, event) ==
  /\ Len(channel[n]) < ChannelSize
  /\ channel' = [channel EXCEPT ![n] = Append(@, event)]

RequestIndex(n) ==
  /\ announce[n] > 0
  /\ announce' = [announce EXCEPT ![n] = @ - 1]
  /\ Tell(n, "IndexStart")
  /\ UNCHANGED <<now, emails, fts, queue, next, keeper, indexer, purger, failures, gossips>>

\* A peer that comes or goes makes the gossip task ask for an index run.
GossipRequest(n) ==
  /\ gossips < MaxGossip
  /\ gossips' = gossips + 1
  /\ Tell(n, "IndexStart")
  /\ UNCHANGED <<now, emails, fts, queue, next, announce, keeper, indexer, purger, failures>>

Tombstone(d) ==
  /\ emails[d] # NoEmail /\ ~emails[d].tombstone
  /\ emails' = [emails EXCEPT ![d].tombstone = TRUE]
  /\ UNCHANGED <<now, fts, queue, next, announce, keeper, channel, indexer, purger, failures, gossips>>

Tombstoned == {d \in Docs : emails[d].tombstone}

PurgeScan ==
  /\ purger.at = "idle"
  /\ Tombstoned # {}
  /\ purger' = Task("fts", Tombstoned)
  /\ UNCHANGED <<now, emails, fts, queue, next, announce, keeper, channel, indexer, failures, gossips>>

PurgeIndex ==
  /\ purger.at = "fts"
  /\ fts' = [d \in Docs |-> IF d \in purger.entries THEN {} ELSE fts[d]]
  /\ purger' = Task("docs", purger.entries)
  /\ UNCHANGED <<now, emails, queue, next, announce, keeper, channel, indexer, failures, gossips>>

PurgeDoc(d) ==
  /\ purger.at = "docs" /\ d \in purger.entries
  /\ emails' = [emails EXCEPT ![d] = NoEmail]
  /\ purger' = IF purger.entries = {d} THEN Idle ELSE Task("docs", purger.entries \ {d})
  /\ UNCHANGED <<now, fts, queue, next, announce, keeper, channel, indexer, failures, gossips>>

PurgeFails ==
  /\ purger.at # "idle" /\ Failure
  /\ purger' = Idle
  /\ UNCHANGED <<now, emails, fts, queue, next, announce, keeper, channel, indexer, gossips>>

-----------------------------------------------------------------------------
(* The housekeeper's index_busy and index_pending. *)

Spawn(n) ==
  \E s \in Slots :
    /\ indexer[n][s].at = "idle"
    /\ indexer' = [indexer EXCEPT ![n][s] = Task("scan", {})]

\* The busy mark is dropped although a start came in meanwhile.
IndexDoneForgets(n) ==
  /\ keeper' = [keeper EXCEPT ![n] = [busy |-> FALSE, pending |-> FALSE]]
  /\ UNCHANGED indexer

\* A start does not look whether an indexer runs.
IndexStartAlways(n) ==
  /\ keeper' = [keeper EXCEPT ![n].busy = TRUE]
  /\ Spawn(n)

IndexStart(n) ==
  IF keeper[n].busy
  THEN /\ keeper' = [keeper EXCEPT ![n].pending = TRUE]
       /\ UNCHANGED indexer
  ELSE /\ keeper' = [keeper EXCEPT ![n].busy = TRUE]
       /\ Spawn(n)

IndexDone(n) ==
  IF keeper[n].pending
  THEN /\ keeper' = [keeper EXCEPT ![n].pending = FALSE]
       /\ Spawn(n)
  ELSE /\ keeper' = [keeper EXCEPT ![n].busy = FALSE]
       /\ UNCHANGED indexer

Housekeep(n) ==
  /\ channel[n] # <<>>
  /\ channel' = [channel EXCEPT ![n] = Tail(@)]
  /\ \/ Head(channel[n]) = "IndexStart" /\ IndexStart(n)
     \/ Head(channel[n]) = "IndexDone" /\ IndexDone(n)
  /\ UNCHANGED <<now, emails, fts, queue, next, announce, purger, failures, gossips>>

-----------------------------------------------------------------------------
(* The indexer.  The entries are independent of each other; in what order  *)
(* the loop takes them is left open.                                       *)

Become(n, s, task) == indexer' = [indexer EXCEPT ![n][s] = task]

Snapshot ==
  {[msg |-> m, doc |-> queue[m].doc, lock_expiry |-> queue[m].lock_expiry] :
     m \in {k \in DOMAIN queue : queue[k].lock_expiry < now}}

\* An iteration that fails leaves the entries it has read.
Scan(n, s) ==
  /\ indexer[n][s].at = "scan"
  /\ \/ Become(n, s, Task("loop", Snapshot)) /\ UNCHANGED failures
     \/ Failure /\ \E read \in SUBSET Snapshot : Become(n, s, Task("loop", read))
  /\ UNCHANGED <<now, emails, fts, queue, next, announce, keeper, channel, purger, gossips>>

At(e, task) == [at |-> task.at, entries |-> task.entries, entry |-> e]

Doing(at, e, entries) == At(e, Task(at, entries))

AsRead(e) == e.msg \in DOMAIN queue /\ queue[e.msg].lock_expiry = e.lock_expiry

\* The entry is locked only if its value is the one the scan read; otherwise,
\* or if the write fails, the loop goes on with the next one.
TryLock(n, s, e) ==
  LET rest == indexer[n][s].entries \ {e}
  IN  /\ indexer[n][s].at = "loop" /\ e \in indexer[n][s].entries
      /\ \/ /\ AsRead(e)
            /\ queue' = Put(e.msg, Entry(e.doc, now + LockExpiry))
            /\ Become(n, s, Doing("locked", e, rest))
            /\ UNCHANGED failures
         \/ /\ (~AsRead(e) /\ UNCHANGED failures) \/ Failure
            /\ UNCHANGED queue
            /\ Become(n, s, Task("loop", rest))
      /\ UNCHANGED <<now, emails, fts, next, announce, keeper, channel, purger, gossips>>

\* The metadata is there and has the entry's hash, tombstone or not; another
\* message's or none means that the entry is obsolete.
ReadMetadata(n, s) ==
  LET task == indexer[n][s]
  IN  /\ task.at = "locked"
      /\ Become(n, s, Doing(IF emails[task.entry.doc].msg = task.entry.msg
                            THEN "index" ELSE "remove", task.entry, task.entries))
      /\ UNCHANGED <<now, emails, fts, queue, next, announce, keeper, channel, purger, failures, gossips>>

WriteIndex(n, s) ==
  LET task == indexer[n][s]
  IN  /\ task.at = "index"
      /\ fts' = [fts EXCEPT ![task.entry.doc] = @ \cup {task.entry.msg}]
      /\ Become(n, s, Doing("remove", task.entry, task.entries))
      /\ UNCHANGED <<now, emails, queue, next, announce, keeper, channel, purger, failures, gossips>>

\* As SkipEntry, but the entry goes too.
SkipEntryRemoves(n, s) ==
  LET task == indexer[n][s]
  IN  /\ task.at = "index" /\ Failure
      /\ Become(n, s, Doing("remove", task.entry, task.entries))
      /\ UNCHANGED <<now, emails, fts, queue, next, announce, keeper, channel, purger, gossips>>

\* The raw message or the index cannot be reached: the entry is left, and the
\* loop goes on with the next one.
SkipEntry(n, s) ==
  LET task == indexer[n][s]
  IN  /\ task.at = "index" /\ Failure
      /\ Become(n, s, Task("loop", task.entries))
      /\ UNCHANGED <<now, emails, fts, queue, next, announce, keeper, channel, purger, gossips>>

\* An error of the data store ends the loop.
BreakLoop(n, s) ==
  LET task == indexer[n][s]
  IN  /\ task.at \in {"locked", "remove"} /\ Failure
      /\ Become(n, s, Task("loop", {}))
      /\ UNCHANGED <<now, emails, fts, queue, next, announce, keeper, channel, purger, gossips>>

RemoveEntry(n, s) ==
  LET task == indexer[n][s]
  IN  /\ task.at = "remove"
      /\ queue' = [m \in DOMAIN queue \ {task.entry.msg} |-> queue[m]]
      /\ Become(n, s, Task("loop", task.entries))
      /\ UNCHANGED <<now, emails, fts, next, announce, keeper, channel, purger, failures, gossips>>

Finish(n, s) ==
  /\ indexer[n][s].at = "loop" /\ indexer[n][s].entries = {}
  /\ Tell(n, "IndexDone")
  /\ Become(n, s, Idle)
  /\ UNCHANGED <<now, emails, fts, queue, next, announce, keeper, purger, failures, gossips>>

Indexer(n, s) ==
  \/ Scan(n, s)
  \/ \E e \in indexer[n][s].entries : TryLock(n, s, e)
  \/ ReadMetadata(n, s) \/ WriteIndex(n, s) \/ SkipEntry(n, s) \/ BreakLoop(n, s)
  \/ RemoveEntry(n, s) \/ Finish(n, s)

-----------------------------------------------------------------------------

\* The server stops and starts again: the store stays as it is.
CrashAndRestart(n) ==
  /\ Failure
  /\ announce' = [announce EXCEPT ![n] = 0]
  /\ keeper' = [keeper EXCEPT ![n] = [busy |-> TRUE, pending |-> FALSE]]
  /\ channel' = [channel EXCEPT ![n] = <<>>]
  /\ indexer' = [indexer EXCEPT ![n] = Started]
  /\ UNCHANGED <<now, emails, fts, queue, next, purger, gossips>>

Tick ==
  /\ now < MaxTime
  /\ now' = now + 1
  /\ UNCHANGED <<emails, fts, queue, next, announce, keeper, channel, indexer, purger, failures, gossips>>

Purge == PurgeScan \/ PurgeIndex \/ PurgeFails \/ \E d \in Docs : PurgeDoc(d)

Next ==
  \/ \E n \in Nodes :
       \/ \E d \in Docs : Ingest(n, d)
       \/ RequestIndex(n) \/ GossipRequest(n) \/ Housekeep(n) \/ CrashAndRestart(n)
       \/ \E s \in Slots : Indexer(n, s)
  \/ \E d \in Docs : Tombstone(d)
  \/ Purge \/ Tick

Spec == Init /\ [][Next]_vars

\* Tasks that can run do run; nothing makes messages, crashes or gossip happen.
Fairness ==
  /\ \A n \in Nodes :
       /\ WF_vars(RequestIndex(n)) /\ WF_vars(Housekeep(n))
       /\ \A s \in Slots : WF_vars(Indexer(n, s))
  /\ WF_vars(Tick)

FairSpec == Spec /\ Fairness

-----------------------------------------------------------------------------
(* Properties. *)

Live == {emails[d].msg : d \in {e \in Docs : emails[e] # NoEmail /\ ~emails[e].tombstone}}

TypeOK ==
  /\ now \in 1..MaxTime /\ next \in 1..(MaxMessages + 1)
  /\ emails \in [Docs -> [msg : 0..MaxMessages, tombstone : BOOLEAN]]
  /\ fts \in [Docs -> SUBSET Messages]
  /\ DOMAIN queue \subseteq Messages
  /\ announce \in [Nodes -> 0..MaxMessages]
  /\ keeper \in [Nodes -> [busy : BOOLEAN, pending : BOOLEAN]]
  /\ \A n \in Nodes : Len(channel[n]) <= ChannelSize

Promise == INSTANCE IndexPromise
             WITH live <- Live, queued <- DOMAIN queue,
                  indexed <- UNION {fts[d] : d \in Docs}

\* Indexers, locks, purges and crashes together keep the promise of
\* IndexPromise: an entry leaves the queue only when its message is indexed or
\* gone, and only messages that are gone lose their index.
KeepsPromise == Promise!Spec

Running(n) == {s \in Slots : indexer[n][s].at # "idle"}

Dones(n) == {k \in DOMAIN channel[n] : channel[n][k] = "IndexDone"}

\* index_busy tells the truth: a node has one indexer, or one IndexDone on its
\* way, exactly while its housekeeper is busy; never two indexers.
OneIndexer ==
  \A n \in Nodes :
    Cardinality(Running(n)) + Cardinality(Dones(n)) = IF keeper[n].busy THEN 1 ELSE 0

\* Unless a call fails or the server stops, every entry leaves the queue: an
\* IndexStart that meets a running indexer leads to another run.
QueueDrained ==
  \A m \in Messages : m \in DOMAIN queue ~> (m \notin DOMAIN queue \/ failures > 0)

\* "Index any queued messages" (src/crates/jmap/src/services/housekeeper.rs:84):
\* every entry leaves the queue, also after a call failed or the server stopped
\* and started again.
AnyQueuedIndexed ==
  \A m \in Messages : m \in DOMAIN queue ~> m \notin DOMAIN queue

\* "Delete full-text index" (src/crates/jmap/src/email/delete.rs:455): when a
\* message has been purged and no indexer runs, its document id has no terms of
\* it in the index.
PurgedNotIndexed ==
  (\A n \in Nodes : Running(n) = {}) =>
    \A d \in Docs : \A m \in fts[d] : emails[d].msg = m
=============================================================================
