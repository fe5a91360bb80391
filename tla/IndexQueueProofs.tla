---------------------------- MODULE IndexQueueProofs ----------------------------
(***************************************************************************)
(* Indexing keeps its promise: every behaviour of IndexQueue is one of     *)
(* IndexPromise, for any number of nodes, documents and messages; and the  *)
(* housekeepers' busy marks tell the truth.                                *)
(***************************************************************************)
EXTENDS IndexQueue, FiniteSetTheorems, TLAPS

Indexed == UNION {fts[d] : d \in Docs}

\* Message m is the message of document d, or of none.
Belongs(m, d) == \A f \in Docs : emails[f].msg = m => f = d

Past == 1..(next - 1)

\* Nothing is left to do for message m: it is indexed or not live.
Settled(m) == m \in Indexed \/ m \notin Live

\* An indexer's entry names a message that was there and its document; one that
\* is about to be removed is indexed or not live.
TaskOK(task) ==
  /\ \A e \in task.entries : e.msg \in Past /\ e.doc \in Docs /\ Belongs(e.msg, e.doc)
  /\ task.at \in {"locked", "index", "remove"} =>
       /\ task.entry.msg \in Past /\ task.entry.doc \in Docs
       /\ Belongs(task.entry.msg, task.entry.doc)
  /\ task.at = "remove" => Settled(task.entry.msg)

EmailsOK ==
  /\ next \in Nat \ {0}
  /\ emails \in [Docs -> [msg : Nat, tombstone : BOOLEAN]]
  /\ \A d \in Docs : emails[d].msg < next
  /\ \A d \in Docs : emails[d].msg = 0 => emails[d] = NoEmail
  /\ \A d \in Docs : emails[d].msg # 0 => Belongs(emails[d].msg, d)

IndexOK ==
  /\ fts \in [Docs -> SUBSET Past]
  /\ \A d \in Docs : \A m \in fts[d] : Belongs(m, d)

QueueOK ==
  /\ DOMAIN queue \subseteq Past
  /\ \A m \in DOMAIN queue : queue[m].doc \in Docs /\ Belongs(m, queue[m].doc)

PurgerOK ==
  purger.at # "idle" => \A d \in purger.entries : d \in Docs /\ emails[d].tombstone

IndexersOK ==
  /\ DOMAIN indexer = Nodes
  /\ \A n \in Nodes : DOMAIN indexer[n] = Slots
  /\ \A n \in Nodes, s \in Slots : TaskOK(indexer[n][s])

\* The inductive invariant.
IndexInv == EmailsOK /\ IndexOK /\ QueueOK /\ PurgerOK /\ IndexersOK

\* What a step must keep for the indexers' pictures to stay right.
Preserved ==
  /\ \A m \in Past : m \in Past'
  /\ \A m \in Past, d \in Docs : Belongs(m, d) => Belongs(m, d)'
  /\ \A m \in Past : Settled(m) => Settled(m)'

-----------------------------------------------------------------------------
(* Indexers. *)

\* Steps that write neither messages nor index preserve everything.
LEMMA StoreSame ==
  ASSUME UNCHANGED <<emails, fts, next>>
  PROVE  Preserved
BY DEF Preserved, Past, Belongs, Settled, Indexed, Live

\* A task that was right stays right over a step that preserves the picture.
LEMMA TaskStays ==
  ASSUME NEW t, TaskOK(t), Preserved
  PROVE  TaskOK(t)'
BY DEF TaskOK, Preserved

\* One indexer moves on to a task that is right, the others stay.
LEMMA OneMoves ==
  ASSUME IndexersOK, Preserved, NEW n \in Nodes, NEW s \in Slots, NEW t, TaskOK(t)',
         indexer' = [indexer EXCEPT ![n][s] = t]
  PROVE  IndexersOK'
<1>1. DOMAIN indexer' = Nodes /\ \A k \in Nodes : DOMAIN indexer'[k] = Slots
  BY DEF IndexersOK
<1>2. ASSUME NEW k \in Nodes, NEW r \in Slots
      PROVE  indexer'[k][r] = t \/ indexer'[k][r] = indexer[k][r]
  BY Zenon DEF IndexersOK
<1>3. ASSUME NEW k \in Nodes, NEW r \in Slots
      PROVE  TaskOK(indexer[k][r])'
  <2>1. PICK u : u = indexer'[k][r]
    OBVIOUS
  <2>2. TaskOK(u)'
    <3>1. CASE u = t
      BY <3>1
    <3>2. CASE u = indexer[k][r]
      <4>1. TaskOK(u)
        BY <3>2 DEF IndexersOK
      <4> QED BY <4>1, TaskStays
    <3> QED BY <1>2, <2>1, <3>1, <3>2
  <2> QED BY <2>1, <2>2 DEF TaskOK
<1> QED BY <1>1, <1>3 DEF IndexersOK

\* No indexer moves.
LEMMA NoneMoves ==
  ASSUME IndexersOK, Preserved, indexer' = indexer
  PROVE  IndexersOK'
<1>1. ASSUME NEW k \in Nodes, NEW r \in Slots
      PROVE  TaskOK(indexer[k][r])'
  <2>1. PICK u : u = indexer[k][r]
    OBVIOUS
  <2>2. TaskOK(u)'
    BY <2>1, TaskStays DEF IndexersOK
  <2> QED BY <2>1, <2>2 DEF TaskOK
<1> QED BY Zenon, <1>1 DEF IndexersOK

-----------------------------------------------------------------------------
(* The invariant. *)

LEMMA InitInv == Init => IndexInv
<1> SUFFICES ASSUME Init PROVE IndexInv
  OBVIOUS
<1> USE DEF Init
<1>1. EmailsOK
  BY DEF EmailsOK, NoEmail, Belongs
<1>2. IndexOK /\ QueueOK
  BY DEF IndexOK, QueueOK
<1>3. PurgerOK
  BY DEF PurgerOK, Idle
<1>4. IndexersOK
  BY Zenon DEF IndexersOK, TaskOK, Started, Task, Idle
<1> QED BY Zenon, <1>1, <1>2, <1>3, <1>4 DEF IndexInv

\* The parts of the invariant that speak of the store are kept by steps that
\* leave the store alone.
LEMMA StoreAlone ==
  ASSUME IndexInv, UNCHANGED <<emails, fts, next, queue, purger>>, IndexersOK'
  PROVE  IndexInv'
BY DEF IndexInv, EmailsOK, IndexOK, QueueOK, PurgerOK, Belongs, Past

\* The messages are the same: so is everything said of them alone.
LEMMA EmailsAlone ==
  ASSUME IndexInv, UNCHANGED <<emails, next>>
  PROVE  EmailsOK' /\ Past' = Past /\ \A m, d : Belongs(m, d)' = Belongs(m, d)
BY DEF IndexInv, EmailsOK, Belongs, Past

\* A step of Ingest keeps the invariant: the new message is in nobody's picture.
LEMMA IngestInv ==
  ASSUME IndexInv, NEW n \in Nodes, NEW d \in Docs, Ingest(n, d)
  PROVE  IndexInv'
<1> USE DEF Ingest
<1>1. next \in Nat \ {0} /\ next' = next + 1
  BY DEF IndexInv, EmailsOK
<1>2. \A f \in Docs : emails'[f] = IF f = d THEN [msg |-> next, tombstone |-> FALSE] ELSE emails[f]
  BY DEF IndexInv, EmailsOK
<1>3. \A m \in Past : m \in Past' /\ m # next /\ m # 0
  BY <1>1 DEF Past
<1>4. \A m \in Past, e \in Docs : Belongs(m, e) => Belongs(m, e)'
  BY <1>2, <1>3 DEF Belongs
<1>5. Live' = Live \cup {next}
  BY Zenon, <1>1, <1>2 DEF Live, NoEmail, IndexInv, EmailsOK
<1>6. Preserved
  BY Zenon, <1>3, <1>4, <1>5 DEF Preserved, Settled, Indexed
<1>7. EmailsOK'
  <2>1. emails' \in [Docs -> [msg : Nat, tombstone : BOOLEAN]]
    BY Zenon, <1>1 DEF IndexInv, EmailsOK
  <2>2. \A f \in Docs : emails'[f].msg < next'
    BY SMTT(30), <1>1, <1>2 DEF IndexInv, EmailsOK
  <2>3. \A f \in Docs : emails'[f].msg = 0 => emails'[f] = NoEmail
    BY Zenon, <1>1, <1>2 DEF IndexInv, EmailsOK
  <2>4. ASSUME NEW f \in Docs, emails'[f].msg # 0
        PROVE  Belongs(emails[f].msg, f)'
    BY <1>1, <1>2, <2>4 DEF Belongs, IndexInv, EmailsOK
  <2> QED BY SMTT(30), <1>1, <2>1, <2>2, <2>3, <2>4 DEF EmailsOK
<1>8. IndexOK'
  BY Zenon, <1>3, <1>4 DEF IndexInv, IndexOK
<1>9. QueueOK'
  <2>0. PICK k : k = next
    OBVIOUS
  <2>1. DOMAIN queue' = DOMAIN queue \cup {k}
    BY Zenon, <2>0 DEF Put
  <2>2. \A m \in DOMAIN queue : queue'[m] = queue[m]
    BY Zenon, <1>3 DEF Put, IndexInv, QueueOK
  <2>3. queue'[k].doc = d
    BY Zenon, <2>0 DEF Put, Entry
  <2>4. k \in Past' /\ Belongs(k, d)'
    BY SMTT(30), <1>1, <1>2, <2>0 DEF Past, Belongs, IndexInv, EmailsOK
  <2> QED BY Zenon, <1>1, <1>3, <1>4, <2>1, <2>2, <2>3, <2>4 DEF QueueOK, IndexInv
<1>10. PurgerOK'
  BY SMTT(30), <1>2 DEF IndexInv, PurgerOK, NoEmail
<1>11. IndexersOK'
  BY <1>6, NoneMoves DEF IndexInv
<1> QED BY Zenon, <1>7, <1>8, <1>9, <1>10, <1>11 DEF IndexInv


\* A document turns into a tombstone, or goes: nothing new is live.
LEMMA DocInv ==
  ASSUME IndexInv, NEW d \in Docs, Tombstone(d) \/ PurgeDoc(d)
  PROVE  IndexInv'
<1>1. next' = next /\ fts' = fts /\ queue' = queue /\ indexer' = indexer
  BY DEF Tombstone, PurgeDoc
<1>2. \A f \in Docs : f # d => emails'[f] = emails[f]
  BY DEF Tombstone, PurgeDoc, IndexInv, EmailsOK
<1>3. emails'[d] = NoEmail \/ emails'[d] = [msg |-> emails[d].msg, tombstone |-> TRUE]
  BY Zenon DEF Tombstone, PurgeDoc, IndexInv, EmailsOK
<1>4. emails' \in [Docs -> [msg : Nat, tombstone : BOOLEAN]]
  <2>1. emails \in [Docs -> [msg : Nat, tombstone : BOOLEAN]]
    BY DEF IndexInv, EmailsOK
  <2>2. CASE Tombstone(d)
    BY Zenon, <2>1, <2>2 DEF Tombstone
  <2>3. CASE PurgeDoc(d)
    BY <2>1, <2>3 DEF PurgeDoc, NoEmail
  <2> QED BY <2>2, <2>3
<1>5. emails[d].msg # 0 \/ emails'[d] = NoEmail
  BY DEF Tombstone, PurgeDoc, IndexInv, EmailsOK
<1>6. \A m \in Past, e \in Docs : Belongs(m, e) => Belongs(m, e)'
  BY SMTT(30), <1>2, <1>3 DEF Belongs, NoEmail, Past, IndexInv, EmailsOK
<1>7. Live' \subseteq Live
  BY <1>2, <1>3 DEF Live, NoEmail
<1>8. Past' = Past /\ Preserved
  BY Zenon, <1>1, <1>6, <1>7 DEF Preserved, Past, Settled, Indexed
<1>9. EmailsOK'
  <2>0. next \in Nat \ {0} /\ emails[d].msg < next
    BY DEF IndexInv, EmailsOK
  <2>1. ASSUME NEW f \in Docs
        PROVE  emails'[f].msg < next' /\ (emails'[f].msg = 0 => emails'[f] = NoEmail)
    <3>1. CASE f # d
      BY Zenon, <1>1, <1>2, <3>1 DEF IndexInv, EmailsOK
    <3>2. CASE f = d
      BY SMTT(30), <1>1, <1>3, <1>5, <2>0, <3>2 DEF NoEmail
    <3> QED BY Zenon, <3>1, <3>2
  <2>2. ASSUME NEW f \in Docs, emails'[f].msg # 0
        PROVE  Belongs(emails[f].msg, f)'
    BY SMTT(30), <1>2, <1>3, <2>2 DEF Belongs, NoEmail, IndexInv, EmailsOK
  <2> QED BY Zenon, <1>1, <1>4, <2>0, <2>1, <2>2 DEF EmailsOK
<1>10. IndexOK' /\ QueueOK'
  BY Zenon, <1>1, <1>6, <1>8 DEF IndexInv, IndexOK, QueueOK
<1>11. PurgerOK'
  <2>1. CASE Tombstone(d)
    BY Zenon, <2>1, <1>2, <1>3 DEF Tombstone, PurgerOK, IndexInv, EmailsOK
  <2>2. CASE PurgeDoc(d)
    BY Zenon, <2>2, <1>2 DEF PurgeDoc, PurgerOK, IndexInv, Task, Idle
  <2> QED BY Zenon, <2>1, <2>2
<1>12. IndexersOK'
  BY Zenon, <1>1, <1>8, NoneMoves DEF IndexInv
<1> QED BY Zenon, <1>9, <1>10, <1>11, <1>12 DEF IndexInv

\* Only messages that are not live lose their index.
LEMMA PurgeIndexDead ==
  ASSUME IndexInv, PurgeIndex
  PROVE  Indexed' \subseteq Indexed /\ (Indexed \ Indexed') \cap Live = {}
<1> USE DEF IndexInv, PurgeIndex
<1>1. \A d \in Docs : fts'[d] = IF d \in purger.entries THEN {} ELSE fts[d]
  BY Zenon
<1>2. Indexed' \subseteq Indexed
  BY <1>1 DEF Indexed
<1>3. ASSUME NEW m \in Indexed, m \notin Indexed', m \in Live
      PROVE  FALSE
  <2>1. PICK d \in Docs : m \in fts[d]
    BY <1>3 DEF Indexed
  <2>2. d \in purger.entries
    BY Zenon, <1>1, <1>3, <2>1 DEF Indexed
  <2>3. emails[d].tombstone
    BY <2>2 DEF PurgerOK
  <2>4. PICK f \in Docs : emails[f].msg = m /\ ~emails[f].tombstone
    BY Zenon, <1>3 DEF Live
  <2>5. f = d
    BY Zenon, <2>1, <2>4 DEF IndexOK, Belongs
  <2> QED BY Zenon, <2>3, <2>4, <2>5
<1> QED BY Zenon, <1>2, <1>3

LEMMA PurgeInv ==
  ASSUME IndexInv, PurgeScan \/ PurgeIndex \/ PurgeFails
  PROVE  IndexInv'
<1>1. UNCHANGED <<emails, next, queue, indexer>>
  BY DEF PurgeScan, PurgeIndex, PurgeFails
<1>2. EmailsOK' /\ Past' = Past /\ \A m, d : Belongs(m, d)' = Belongs(m, d)
  BY Zenon, <1>1, EmailsAlone
<1>3. QueueOK'
  BY Zenon, <1>1, <1>2 DEF IndexInv, QueueOK
<1>4. PurgerOK'
  <2>1. CASE PurgeScan
    BY Zenon, <1>1, <2>1 DEF PurgeScan, PurgerOK, Task, Tombstoned
  <2>2. CASE PurgeIndex
    BY Zenon, <1>1, <2>2 DEF PurgeIndex, PurgerOK, Task, IndexInv
  <2>3. CASE PurgeFails
    BY Zenon, <1>1, <2>3 DEF PurgeFails, PurgerOK, Idle
  <2> QED BY Zenon, <2>1, <2>2, <2>3
<1>5. Live' = Live
  BY <1>1 DEF Live
<1>6. CASE PurgeIndex
  <2>1. IndexOK'
    BY Zenon, <1>2, <1>6 DEF PurgeIndex, IndexInv, IndexOK
  <2>2. Preserved
    BY Zenon, <1>2, <1>5, <1>6, PurgeIndexDead DEF Preserved, Settled
  <2> QED BY Zenon, <1>1, <1>2, <1>3, <1>4, <2>1, <2>2, NoneMoves DEF IndexInv
<1>7. CASE PurgeScan \/ PurgeFails
  <2>1. fts' = fts
    BY <1>7 DEF PurgeScan, PurgeFails
  <2> QED BY Zenon, <1>1, <1>2, <1>3, <1>4, <2>1, StoreSame, NoneMoves DEF IndexInv, IndexOK
<1> QED BY Zenon, <1>6, <1>7


\* The indexer's own steps.
LEMMA ScanInv ==
  ASSUME IndexInv, NEW n \in Nodes, NEW s \in Slots, Scan(n, s)
  PROVE  IndexInv'
<1>1. UNCHANGED <<emails, fts, next, queue, purger>>
  BY Zenon DEF Scan
<1>0. PICK read \in SUBSET Snapshot : indexer' = [indexer EXCEPT ![n][s] = Task("loop", read)]
  BY DEF Scan, Become
<1>2. PICK t : t = Task("loop", read) /\ indexer' = [indexer EXCEPT ![n][s] = t]
  BY Zenon, <1>0
<1>3. \A e \in t.entries : e.msg \in DOMAIN queue /\ e.doc = queue[e.msg].doc
  BY <1>2 DEF Task, Snapshot
<1>4. t.at = "loop"
  BY Zenon, <1>2 DEF Task
<1>5. TaskOK(t)
  BY Zenon, <1>3, <1>4 DEF TaskOK, IndexInv, QueueOK
<1>6. IndexersOK'
  BY Zenon, <1>1, <1>2, <1>5, StoreSame, TaskStays, OneMoves DEF IndexInv
<1> QED BY Zenon, <1>1, <1>6, StoreAlone

\* The tasks an indexer's other steps leave behind.
LEMMA LoopOK ==
  ASSUME IndexInv, NEW n \in Nodes, NEW s \in Slots, NEW E \in SUBSET indexer[n][s].entries
  PROVE  TaskOK(Task("loop", E))
BY Zenon DEF IndexInv, IndexersOK, TaskOK, Task

LEMMA DoingOK ==
  ASSUME IndexInv, NEW n \in Nodes, NEW s \in Slots,
         NEW at \in {"locked", "index", "remove"},
         NEW e, e \in indexer[n][s].entries
                \/ (indexer[n][s].at \in {"locked", "index"} /\ e = indexer[n][s].entry),
         at = "remove" => Settled(e.msg),
         NEW E \in SUBSET indexer[n][s].entries
  PROVE  TaskOK(Doing(at, e, E))
BY DEF IndexInv, IndexersOK, TaskOK, Task, Doing, At

LEMMA TryLockInv ==
  ASSUME IndexInv, NEW n \in Nodes, NEW s \in Slots, NEW e \in indexer[n][s].entries,
         TryLock(n, s, e)
  PROVE  IndexInv'
<1>1. UNCHANGED <<emails, fts, next, purger>>
  BY Zenon DEF TryLock
<1>2. EmailsOK' /\ Past' = Past /\ \A m, d : Belongs(m, d)' = Belongs(m, d)
  BY <1>1, EmailsAlone
<1>3. DOMAIN queue' = DOMAIN queue
  BY Zenon DEF TryLock, AsRead, Put
<1>4. ASSUME NEW m \in DOMAIN queue
      PROVE  queue'[m].doc = queue[m].doc \/ (m = e.msg /\ queue'[m].doc = e.doc)
  <2>1. CASE queue' = queue
    BY Zenon, <2>1
  <2>2. CASE queue' = Put(e.msg, Entry(e.doc, now + LockExpiry))
    <3>1. queue'[m] = IF m = e.msg THEN Entry(e.doc, now + LockExpiry) ELSE queue[m]
      BY Zenon, <2>2 DEF Put
    <3>2. Entry(e.doc, now + LockExpiry).doc = e.doc
      BY Zenon DEF Entry
    <3> QED BY <3>1, <3>2
  <2> QED BY Zenon, <2>1, <2>2 DEF TryLock
<1>5. e.doc \in Docs /\ Belongs(e.msg, e.doc)
  BY Zenon DEF IndexInv, IndexersOK, TaskOK
<1>6. QueueOK'
  BY Zenon, <1>2, <1>3, <1>4, <1>5 DEF QueueOK, IndexInv
<1>7. PICK t : /\ indexer' = [indexer EXCEPT ![n][s] = t]
               /\ \/ t = Doing("locked", e, indexer[n][s].entries \ {e})
                  \/ t = Task("loop", indexer[n][s].entries \ {e})
  BY DEF TryLock, Become
<1>8. TaskOK(t)
  <2>1. TaskOK(Task("loop", indexer[n][s].entries \ {e}))
    BY Zenon, LoopOK
  <2>2. TaskOK(Doing("locked", e, indexer[n][s].entries \ {e}))
    BY DoingOK
  <2> QED BY Zenon, <1>7, <2>1, <2>2
<1>9. IndexersOK'
  BY Zenon, <1>1, <1>7, <1>8, StoreSame, TaskStays, OneMoves DEF IndexInv
<1> QED BY Zenon, <1>1, <1>2, <1>6, <1>9 DEF IndexInv, IndexOK, PurgerOK

LEMMA WriteIndexInv ==
  ASSUME IndexInv, NEW n \in Nodes, NEW s \in Slots, WriteIndex(n, s)
  PROVE  IndexInv' /\ indexer[n][s].entry.msg \in Past
         /\ Indexed' = Indexed \cup {indexer[n][s].entry.msg}
<1>1. UNCHANGED <<emails, next, queue, purger>>
  BY DEF WriteIndex
<1>2. EmailsOK' /\ Past' = Past /\ \A m, d : Belongs(m, d)' = Belongs(m, d)
  BY Zenon, <1>1, EmailsAlone
<1>3. PICK e : e = indexer[n][s].entry
  BY Zenon
<1>4. e.msg \in Past /\ e.doc \in Docs /\ Belongs(e.msg, e.doc)
  BY <1>3 DEF IndexInv, IndexersOK, TaskOK, WriteIndex
<1>5. \A d \in Docs : fts'[d] = IF d = e.doc THEN fts[d] \cup {e.msg} ELSE fts[d]
  BY Zenon, <1>3 DEF WriteIndex, IndexInv, IndexOK
<1>6. fts' \in [Docs -> SUBSET Past]
  BY Zenon, <1>3, <1>4 DEF WriteIndex, IndexInv, IndexOK
<1>7. IndexOK'
  BY Zenon, <1>2, <1>4, <1>5, <1>6 DEF IndexInv, IndexOK
<1>8. Indexed' = Indexed \cup {e.msg}
  <2>1. \A m : m \in Indexed <=> \E d \in Docs : m \in fts[d]
    BY DEF Indexed
  <2>2. \A m : m \in Indexed' <=> \E d \in Docs : m \in fts'[d]
    BY Zenon DEF Indexed
  <2> QED BY Zenon, <1>4, <1>5, <2>1, <2>2
<1>9. Live' = Live
  BY Zenon, <1>1 DEF Live
<1>10. Preserved
  BY Zenon, <1>2, <1>8, <1>9 DEF Preserved, Settled
<1>11. PICK t : t = Doing("remove", e, indexer[n][s].entries) /\ indexer' = [indexer EXCEPT ![n][s] = t]
  BY Zenon, <1>3 DEF WriteIndex, Become
<1>12. TaskOK(t)'
  <2>1. t.at = "remove" /\ t.entry = e /\ t.entries = indexer[n][s].entries
    BY <1>11 DEF Doing, At, Task
  <2>2. Settled(e.msg)'
    BY Zenon, <1>8 DEF Settled
  <2>3. \A x \in t.entries : x.msg \in Past /\ x.doc \in Docs /\ Belongs(x.msg, x.doc)
    BY <2>1 DEF IndexInv, IndexersOK, TaskOK
  <2> QED BY Zenon, <1>2, <1>4, <2>1, <2>2, <2>3 DEF TaskOK
<1>13. IndexersOK'
  BY Zenon, <1>10, <1>11, <1>12, OneMoves DEF IndexInv
<1> QED BY Zenon, <1>1, <1>2, <1>3, <1>4, <1>7, <1>8, <1>13 DEF IndexInv, QueueOK, PurgerOK


\* Steps of an indexer that only change where it is.
LEMMA MovesInv ==
  ASSUME IndexInv, NEW n \in Nodes, NEW s \in Slots,
         ReadMetadata(n, s) \/ SkipEntry(n, s) \/ BreakLoop(n, s) \/ Finish(n, s)
  PROVE  IndexInv' /\ UNCHANGED <<emails, fts, next, queue>>
<1>1. UNCHANGED <<emails, fts, next, queue, purger>>
  BY DEF ReadMetadata, SkipEntry, BreakLoop, Finish
<1>2. ASSUME NEW t, TaskOK(t), indexer' = [indexer EXCEPT ![n][s] = t]
      PROVE  IndexInv'
  <2>1. IndexersOK'
    BY Zenon, <1>1, <1>2, StoreSame, TaskStays, OneMoves DEF IndexInv
  <2> QED BY Zenon, <1>1, <2>1, StoreAlone
<1>3. CASE ReadMetadata(n, s)
  <2>1. PICK e : e = indexer[n][s].entry
    BY Zenon
  <2>2. PICK at : at = IF emails[e.doc].msg = e.msg THEN "index" ELSE "remove"
    OBVIOUS
  <2>3. indexer' = [indexer EXCEPT ![n][s] = Doing(at, e, indexer[n][s].entries)]
    BY Zenon, <1>3, <2>1, <2>2 DEF ReadMetadata, Become
  <2>4. indexer[n][s].at = "locked" /\ at \in {"index", "remove"}
    BY <1>3, <2>2 DEF ReadMetadata
  <2>5. e.doc \in Docs /\ Belongs(e.msg, e.doc)
    BY Zenon, <2>1, <2>4 DEF IndexInv, IndexersOK, TaskOK
  <2>6. at = "remove" => Settled(e.msg)
    BY Zenon, <2>2, <2>5 DEF Settled, Live, Belongs
  <2>7. TaskOK(Doing(at, e, indexer[n][s].entries))
    BY Zenon, <2>1, <2>4, <2>6, DoingOK
  <2> QED BY Zenon, <1>1, <1>2, <2>3, <2>7
<1>4. CASE SkipEntry(n, s) \/ BreakLoop(n, s)
  <2>1. PICK E \in SUBSET indexer[n][s].entries :
          indexer' = [indexer EXCEPT ![n][s] = Task("loop", E)]
    BY <1>4 DEF SkipEntry, BreakLoop, Become
  <2> QED BY Zenon, <1>1, <1>2, <2>1, LoopOK
<1>5. CASE Finish(n, s)
  <2>1. TaskOK(Idle)
    BY DEF TaskOK, Idle
  <2> QED BY Zenon, <1>2, <1>5, <2>1 DEF Finish, Become
<1> QED BY Zenon, <1>1, <1>3, <1>4, <1>5

LEMMA RemoveEntryInv ==
  ASSUME IndexInv, NEW n \in Nodes, NEW s \in Slots, RemoveEntry(n, s)
  PROVE  IndexInv' /\ indexer[n][s].entry.msg \in Past
         /\ Settled(indexer[n][s].entry.msg)
         /\ DOMAIN queue' = DOMAIN queue \ {indexer[n][s].entry.msg}
<1>1. UNCHANGED <<emails, fts, next, purger>>
  BY Zenon DEF RemoveEntry
<1>2. EmailsOK' /\ Past' = Past /\ \A m, d : Belongs(m, d)' = Belongs(m, d)
  BY Zenon, <1>1, EmailsAlone
<1>3. PICK e : e = indexer[n][s].entry
  OBVIOUS
<1>4. e.msg \in Past /\ Settled(e.msg)
  BY Zenon, <1>3 DEF RemoveEntry, IndexInv, IndexersOK, TaskOK
<1>5. queue' = [m \in DOMAIN queue \ {e.msg} |-> queue[m]]
  BY Zenon, <1>3 DEF RemoveEntry
<1>6. QueueOK'
  BY Zenon, <1>2, <1>5 DEF QueueOK, IndexInv
<1>7. PICK t : t = Task("loop", indexer[n][s].entries) /\ indexer' = [indexer EXCEPT ![n][s] = t]
  BY Zenon DEF RemoveEntry, Become
<1>8. TaskOK(t)
  BY Zenon, <1>7, LoopOK
<1>9. IndexersOK'
  BY Zenon, <1>1, <1>7, <1>8, StoreSame, TaskStays, OneMoves DEF IndexInv
<1> QED BY Zenon, <1>1, <1>2, <1>3, <1>4, <1>5, <1>6, <1>9 DEF IndexInv, IndexOK, PurgerOK

\* The housekeeper's steps.
LEMMA KeeperInv ==
  ASSUME IndexInv, NEW n \in Nodes,
         RequestIndex(n) \/ GossipRequest(n) \/ Housekeep(n) \/ CrashAndRestart(n) \/ Tick
  PROVE  IndexInv' /\ UNCHANGED <<emails, fts, next, queue>>
<1>1. UNCHANGED <<emails, fts, next, queue, purger>>
  BY DEF RequestIndex, GossipRequest, Housekeep, CrashAndRestart, Tick
<1>2. CASE UNCHANGED indexer
  BY Zenon, <1>1, <1>2, StoreSame, NoneMoves, StoreAlone DEF IndexInv
<1>3. CASE Spawn(n)
  <2>1. PICK s \in Slots : indexer' = [indexer EXCEPT ![n][s] = Task("scan", {})]
    BY Zenon, <1>3 DEF Spawn
  <2>2. TaskOK(Task("scan", {}))
    BY DEF TaskOK, Task
  <2>3. IndexersOK'
    BY Zenon, <1>1, <2>1, <2>2, StoreSame, TaskStays, OneMoves DEF IndexInv
  <2> QED BY Zenon, <1>1, <2>3, StoreAlone
<1>4. CASE CrashAndRestart(n)
  <2>1. \A k \in Nodes : indexer'[k] = IF k = n THEN Started ELSE indexer[k]
    BY Zenon, <1>4 DEF CrashAndRestart, IndexInv, IndexersOK
  <2>2. ASSUME NEW k \in Nodes, NEW r \in Slots
        PROVE  TaskOK(indexer[k][r])'
    <3>1. PICK u : u = indexer'[k][r]
      OBVIOUS
    <3>2. TaskOK(u)
      <4>1. CASE k = n
        <5>1. u = Task("scan", {}) \/ u = Idle
          BY Zenon, <2>1, <3>1, <4>1 DEF Started
        <5> QED BY <5>1 DEF TaskOK, Task, Idle
      <4>2. CASE k # n
        BY Zenon, <2>1, <3>1, <4>2 DEF IndexInv, IndexersOK
      <4> QED BY Zenon, <4>1, <4>2
    <3>3. TaskOK(u)'
      BY Zenon, <1>1, <3>2, StoreSame, TaskStays
    <3> QED BY Zenon, <3>1, <3>3 DEF TaskOK
  <2>3. IndexersOK'
    BY Zenon, <1>4, <2>1, <2>2 DEF CrashAndRestart, Started, IndexInv, IndexersOK
  <2> QED BY Zenon, <1>1, <2>3, StoreAlone
<1> QED BY Zenon, <1>1, <1>2, <1>3, <1>4
        DEF RequestIndex, GossipRequest, Housekeep, IndexStart, IndexDone, Tick


\* Every step keeps the invariant.
LEMMA NextInv ==
  ASSUME IndexInv, [Next]_vars
  PROVE  IndexInv'
<1>1. CASE UNCHANGED vars
  BY Zenon, <1>1, StoreSame, NoneMoves, StoreAlone DEF vars, IndexInv
<1>2. ASSUME NEW n \in Nodes, NEW s \in Slots, Indexer(n, s)
      PROVE  IndexInv'
  BY Zenon, <1>2, ScanInv, TryLockInv, WriteIndexInv, MovesInv, RemoveEntryInv DEF Indexer
<1>3. ASSUME NEW n \in Nodes, NEW d \in Docs, Ingest(n, d)
      PROVE  IndexInv'
  BY Zenon, <1>3, IngestInv
<1>4. ASSUME NEW n \in Nodes,
             RequestIndex(n) \/ GossipRequest(n) \/ Housekeep(n) \/ CrashAndRestart(n)
      PROVE  IndexInv'
  BY <1>4, KeeperInv
<1>5. ASSUME NEW d \in Docs, Tombstone(d)
      PROVE  IndexInv'
  BY <1>5, DocInv
<1>6. CASE Purge
  BY Zenon, <1>6, PurgeInv, DocInv DEF Purge
<1>7. CASE Tick
  <2>1. UNCHANGED <<emails, fts, next, queue, purger, indexer>>
    BY Zenon, <1>7 DEF Tick
  <2> QED BY Zenon, <2>1, StoreSame, NoneMoves, StoreAlone DEF IndexInv
<1> QED BY Zenon, <1>1, <1>2, <1>3, <1>4, <1>5, <1>6, <1>7 DEF Next

-----------------------------------------------------------------------------
(* The refinement. *)

\* What has come is among Messages.
Bounded == next <= MaxMessages + 1

LEMMA PastMessages ==
  ASSUME IndexInv, Bounded
  PROVE  Past \subseteq Messages
BY SMTT(30), IndexAssumption DEF Bounded, Past, Messages, IndexInv, EmailsOK

LEMMA LivePast == IndexInv => Live \subseteq Past
BY DEF IndexInv, EmailsOK, Live, Past

LEMMA NextBounded ==
  ASSUME IndexInv, Bounded, [Next]_vars
  PROVE  Bounded'
<1>1. ASSUME NEW n \in Nodes, NEW d \in Docs, Ingest(n, d)
      PROVE  Bounded'
  BY SMTT(30), <1>1, IndexAssumption DEF Ingest, Bounded, IndexInv, EmailsOK
<1>2. ASSUME NEW n \in Nodes, NEW s \in Slots, Indexer(n, s)
      PROVE  next' = next
  BY <1>2, Zenon DEF Indexer, Scan, TryLock, ReadMetadata, WriteIndex, SkipEntry, BreakLoop,
                     RemoveEntry, Finish
<1>3. ASSUME NEW n \in Nodes,
             RequestIndex(n) \/ GossipRequest(n) \/ Housekeep(n) \/ CrashAndRestart(n)
      PROVE  next' = next
  BY <1>3 DEF RequestIndex, GossipRequest, Housekeep, CrashAndRestart
<1>4. ASSUME NEW d \in Docs, Tombstone(d) \/ PurgeDoc(d)
      PROVE  next' = next
  BY Zenon, <1>4 DEF Tombstone, PurgeDoc
<1>5. ASSUME PurgeScan \/ PurgeIndex \/ PurgeFails \/ Tick \/ UNCHANGED vars
      PROVE  next' = next
  BY <1>5 DEF PurgeScan, PurgeIndex, PurgeFails, Tick, vars
<1> QED BY Zenon, <1>1, <1>2, <1>3, <1>4, <1>5 DEF Next, Purge, Bounded

\* The steps that the abstract specification sees, each as the step it is there.
LEMMA IngestAdds ==
  ASSUME IndexInv, Bounded, NEW n \in Nodes, NEW d \in Docs, Ingest(n, d)
  PROVE  Promise!Next
<1>1. next \in Messages /\ next \notin Past
  BY IndexAssumption DEF Ingest, Messages, Past, IndexInv, EmailsOK
<1>2. \A f \in Docs : emails'[f] = IF f = d THEN [msg |-> next, tombstone |-> FALSE] ELSE emails[f]
  BY Zenon DEF Ingest, IndexInv, EmailsOK
<1>3. Live' = Live \cup {next}
  BY <1>1, <1>2 DEF Ingest, Live, NoEmail, Messages
<1>4. DOMAIN queue' = DOMAIN queue \cup {next}
  BY Zenon DEF Ingest, Put
<1>5. Indexed' = Indexed
  BY DEF Ingest, Indexed
<1>6. next \notin Live \cup DOMAIN queue \cup Indexed
  BY Zenon, <1>1, LivePast DEF IndexInv, QueueOK, IndexOK, Indexed
<1>7. Promise!Add(next)
  BY Zenon, <1>3, <1>4, <1>5, <1>6 DEF Promise!Add, Indexed
<1> QED BY Zenon, <1>1, <1>7 DEF Promise!Next

LEMMA TombstoneDeletes ==
  ASSUME IndexInv, Bounded, NEW d \in Docs, Tombstone(d)
  PROVE  Promise!Next
<1>1. PICK m : m = emails[d].msg
  OBVIOUS
<1>2. m \in Live
  BY <1>1 DEF Tombstone, Live
<1>3. emails'[d].tombstone /\ \A f \in Docs : f # d => emails'[f] = emails[f]
  BY DEF Tombstone, IndexInv, EmailsOK
<1>4. emails[d] # NoEmail /\ \A f \in Docs : emails[f].msg = m => f = d
  BY <1>1 DEF Tombstone, IndexInv, EmailsOK, Belongs
<1>5. Live' = Live \ {m}
  <2>1. \A x : x \in Live <=> \E f \in Docs : emails[f] # NoEmail /\ ~emails[f].tombstone /\ x = emails[f].msg
    BY Zenon DEF Live
  <2>2. \A x : x \in Live' <=> \E f \in Docs : emails'[f] # NoEmail /\ ~emails'[f].tombstone /\ x = emails'[f].msg
    BY Zenon DEF Live
  <2>3. ASSUME NEW x \in Live'
        PROVE  x \in Live /\ x # m
    BY SMTT(30), <1>3, <1>4, <2>1, <2>2
  <2>4. ASSUME NEW x \in Live, x # m
        PROVE  x \in Live'
    BY SMTT(30), <1>1, <1>3, <2>1, <2>2, <2>4
  <2> QED BY Zenon, <2>3, <2>4
<1>6. Promise!Delete(m)
  BY <1>2, <1>5 DEF Promise!Delete, Tombstone
<1>7. m \in Messages
  BY Zenon, <1>2, LivePast, PastMessages
<1> QED BY Zenon, <1>6, <1>7 DEF Promise!Next

LEMMA WriteIndexes ==
  ASSUME IndexInv, Bounded, NEW n \in Nodes, NEW s \in Slots, WriteIndex(n, s)
  PROVE  Promise!Next
<1>1. PICK m : m = indexer[n][s].entry.msg
  OBVIOUS
<1>2. m \in Messages /\ Indexed' = Indexed \cup {m}
  BY Zenon, <1>1, WriteIndexInv, PastMessages
<1>3. UNCHANGED <<Live, DOMAIN queue>>
  BY Zenon DEF WriteIndex, Live
<1>4. Promise!Index(m)
  BY Zenon, <1>2, <1>3 DEF Promise!Index, Indexed
<1> QED BY Zenon, <1>2, <1>4 DEF Promise!Next

LEMMA PurgeUnindexes ==
  ASSUME IndexInv, Bounded, PurgeIndex
  PROVE  Promise!Next
<1>1. PICK gone : gone = Indexed \ Indexed'
  BY Zenon
<1>2. gone \cap Live = {} /\ Indexed' = Indexed \ gone
  BY <1>1, PurgeIndexDead
<1>3. gone \in SUBSET Messages
  BY <1>1, PastMessages DEF Indexed, IndexInv, IndexOK
<1>4. UNCHANGED <<Live, DOMAIN queue>>
  BY DEF PurgeIndex, Live
<1>5. Promise!Unindex(gone)
  BY <1>2, <1>4 DEF Promise!Unindex, Indexed
<1> QED BY <1>3, <1>5 DEF Promise!Next

LEMMA RemoveDequeues ==
  ASSUME IndexInv, Bounded, NEW n \in Nodes, NEW s \in Slots, RemoveEntry(n, s)
  PROVE  Promise!Next
<1>1. PICK m : m = indexer[n][s].entry.msg
  OBVIOUS
<1>2. m \in Messages /\ Settled(m) /\ DOMAIN queue' = DOMAIN queue \ {m}
  BY Zenon, <1>1, RemoveEntryInv, PastMessages
<1>3. Live' = Live /\ Indexed' = Indexed
  BY DEF RemoveEntry, Live, Indexed
<1>4. Promise!Dequeue(m)
  BY Zenon, <1>2, <1>3 DEF Promise!Dequeue, Indexed, Settled
<1> QED BY <1>2, <1>4 DEF Promise!Next

\* Every other step is none there.
LEMMA PurgeDocStutters ==
  ASSUME IndexInv, NEW d \in Docs, PurgeDoc(d)
  PROVE  UNCHANGED Promise!vars
<1>1. emails[d].tombstone
  BY Zenon DEF PurgeDoc, IndexInv, PurgerOK
<1>2. emails'[d] = NoEmail /\ \A f \in Docs : f # d => emails'[f] = emails[f]
  BY DEF PurgeDoc, IndexInv, EmailsOK
<1>3. Live' = Live
  <2>1. \A x : x \in Live <=> \E f \in Docs : emails[f] # NoEmail /\ ~emails[f].tombstone /\ x = emails[f].msg
    BY DEF Live
  <2>2. \A x : x \in Live' <=> \E f \in Docs : emails'[f] # NoEmail /\ ~emails'[f].tombstone /\ x = emails'[f].msg
    BY Zenon DEF Live
  <2>3. \A x : x \in Live' <=> x \in Live
    BY SMTT(30), <1>1, <1>2, <2>1, <2>2
  <2> QED BY Zenon, <2>3
<1> QED BY Zenon, <1>3 DEF PurgeDoc, Promise!vars

LEMMA StoreStutters ==
  ASSUME UNCHANGED <<emails, fts>>, DOMAIN queue' = DOMAIN queue
  PROVE  UNCHANGED Promise!vars
BY Zenon DEF Promise!vars, Live

LEMMA IndexerSimulates ==
  ASSUME IndexInv, Bounded, NEW n \in Nodes, NEW s \in Slots, Indexer(n, s)
  PROVE  Promise!Next \/ UNCHANGED Promise!vars
<1>1. CASE Scan(n, s)
  BY Zenon, <1>1, StoreStutters DEF Scan
<1>2. ASSUME NEW e \in indexer[n][s].entries, TryLock(n, s, e)
      PROVE  UNCHANGED Promise!vars
  <2>1. DOMAIN queue' = DOMAIN queue
    BY Zenon, <1>2 DEF TryLock, AsRead, Put
  <2> QED BY Zenon, <1>2, <2>1, StoreStutters DEF TryLock
<1>3. CASE ReadMetadata(n, s) \/ SkipEntry(n, s) \/ BreakLoop(n, s) \/ Finish(n, s)
  BY Zenon, <1>3, MovesInv, StoreStutters
<1> QED BY Zenon, <1>1, <1>2, <1>3, WriteIndexes, RemoveDequeues DEF Indexer

LEMMA NextSimulates ==
  ASSUME IndexInv, Bounded, [Next]_vars
  PROVE  [Promise!Next]_(Promise!vars)
<1>1. CASE UNCHANGED vars \/ Tick \/ PurgeScan \/ PurgeFails
  BY Zenon, <1>1, StoreStutters DEF vars, Tick, PurgeScan, PurgeFails
<1>2. ASSUME NEW n \in Nodes,
             RequestIndex(n) \/ GossipRequest(n) \/ Housekeep(n) \/ CrashAndRestart(n)
      PROVE  UNCHANGED Promise!vars
  BY Zenon, <1>2, KeeperInv, StoreStutters
<1> QED BY Zenon, <1>1, <1>2, IngestAdds, TombstoneDeletes, PurgeUnindexes, PurgeDocStutters,
           IndexerSimulates DEF Next, Purge

\* Full-text indexing keeps its promise, for any number of nodes, documents,
\* messages and indexers, with any faults and crashes: what ingest.rs, index.rs,
\* housekeeper.rs and delete.rs do to messages, queue and index are steps of
\* IndexPromise.  No lock is needed for it: the locks only save work.
THEOREM Refinement == Spec => KeepsPromise
<1>1. Init => Promise!Init
  BY SMTT(30) DEF Init, Promise!Init, Live
<1>2. Init => IndexInv /\ Bounded
  BY SMTT(30), InitInv, IndexAssumption DEF Init, Bounded
<1>3. IndexInv /\ Bounded /\ [Next]_vars => (IndexInv /\ Bounded)'
  BY Zenon, NextInv, NextBounded
<1>4. IndexInv /\ Bounded /\ [Next]_vars => [Promise!Next]_(Promise!vars)
  BY NextSimulates
<1> QED BY <1>1, <1>2, <1>3, <1>4, PTL DEF Spec, KeepsPromise, Promise!Spec

\* A message that is there is in the index or in the queue: no ingest, lock that
\* runs out, failing call, purge or crash loses it.
THEOREM NeverLost == Spec => []Promise!FoundOrQueued
<1>1. Promise!Init => Promise!FoundOrQueued
  BY DEF Promise!Init, Promise!FoundOrQueued
<1>2. Promise!FoundOrQueued /\ [Promise!Next]_(Promise!vars) => Promise!FoundOrQueued'
  <2>1. ASSUME Promise!FoundOrQueued, UNCHANGED Promise!vars
        PROVE  Promise!FoundOrQueued'
    BY Zenon, <2>1 DEF Promise!vars, Promise!FoundOrQueued
  <2>2. ASSUME Promise!FoundOrQueued, Promise!Next
        PROVE  Promise!FoundOrQueued'
    BY Zenon, <2>2 DEF Promise!Next, Promise!Add, Promise!Delete, Promise!Index, Promise!Unindex,
                Promise!Dequeue, Promise!FoundOrQueued
  <2> QED BY Zenon, <2>1, <2>2
<1> QED BY <1>1, <1>2, Refinement, PTL DEF KeepsPromise, Promise!Spec

-----------------------------------------------------------------------------
(* The housekeeper's busy mark. *)

DonesIn(q) == {k \in DOMAIN q : q[k] = "IndexDone"}

\* index_busy tells the truth, and a node that is not busy has no run pending.
Truthful(n) ==
  IF keeper[n].busy
  THEN \/ Dones(n) = {} /\ \E s \in Slots : Running(n) = {s}
       \/ Running(n) = {} /\ \E k : Dones(n) = {k}
  ELSE Dones(n) = {} /\ Running(n) = {} /\ ~keeper[n].pending

TasksOK == DOMAIN indexer = Nodes /\ \A n \in Nodes : DOMAIN indexer[n] = Slots

KeepersOK == keeper \in [Nodes -> [busy : BOOLEAN, pending : BOOLEAN]]

ChannelsOK ==
  /\ channel \in [Nodes -> Seq({"IndexStart", "IndexDone"})]
  /\ \A n \in Nodes : Len(channel[n]) <= ChannelSize

\* The inductive invariant of OneIndexer.
BusyInv == TasksOK /\ KeepersOK /\ ChannelsOK /\ \A n \in Nodes : Truthful(n)

LEMMA DonesAre == \A n : Dones(n) = DonesIn(channel[n]) /\ Dones(n)' = DonesIn(channel'[n])
BY Zenon DEF Dones, DonesIn

LEMMA DonesAppend ==
  ASSUME NEW q \in Seq({"IndexStart", "IndexDone"})
  PROVE  /\ DonesIn(Append(q, "IndexStart")) = DonesIn(q)
         /\ DonesIn(Append(q, "IndexDone")) = DonesIn(q) \cup {Len(q) + 1}
BY DEF DonesIn

LEMMA DonesTail ==
  ASSUME NEW q \in Seq({"IndexStart", "IndexDone"}), q # <<>>
  PROVE  /\ DonesIn(q) = {} => DonesIn(Tail(q)) = {}
         /\ Head(q) = "IndexStart" => \A k : DonesIn(q) = {k} => DonesIn(Tail(q)) = {k - 1}
         /\ Head(q) = "IndexDone" =>
              DonesIn(q) # {} /\ \A k : DonesIn(q) = {k} => DonesIn(Tail(q)) = {}
<1>1. /\ DOMAIN q = 1..Len(q) /\ Len(q) \in Nat \ {0}
      /\ DOMAIN Tail(q) = 1..(Len(q) - 1)
      /\ \A k \in 1..(Len(q) - 1) : Tail(q)[k] = q[k + 1]
      /\ Head(q) = q[1]
  BY SMTT(30)
<1>2. \A k : k \in DonesIn(Tail(q)) <=> k \in Nat \ {0} /\ k + 1 \in DonesIn(q)
  BY SMTT(30), <1>1 DEF DonesIn
<1>3. \A k \in DonesIn(q) : k \in Nat \ {0}
  BY SMTT(30), <1>1 DEF DonesIn
<1>4. 1 \in DonesIn(q) <=> Head(q) = "IndexDone"
  BY SMTT(30), <1>1 DEF DonesIn
<1>5. ASSUME Head(q) = "IndexStart", NEW k, DonesIn(q) = {k}
      PROVE  DonesIn(Tail(q)) = {k - 1}
  <2>1. k \in Nat /\ k > 1
    BY SMTT(30), <1>3, <1>4, <1>5
  <2> QED BY SMTT(30), <1>2, <1>5, <2>1
<1>6. ASSUME Head(q) = "IndexDone", NEW k, DonesIn(q) = {k}
      PROVE  DonesIn(Tail(q)) = {}
  <2>1. k = 1
    BY Zenon, <1>4, <1>6
  <2> QED BY SMTT(30), <1>2, <1>6, <2>1
<1>7. DonesIn(q) = {} => DonesIn(Tail(q)) = {}
  BY <1>2
<1> QED BY Zenon, <1>4, <1>5, <1>6, <1>7

\* A step on node n that leaves the other nodes alone keeps the invariant if it
\* leaves the truth about n.
LEMMA BusyOne ==
  ASSUME BusyInv, TasksOK', KeepersOK', ChannelsOK', NEW n \in Nodes, Truthful(n)',
         \A o \in Nodes \ {n} : /\ keeper'[o] = keeper[o] /\ channel'[o] = channel[o]
                                /\ indexer'[o] = indexer[o]
  PROVE  BusyInv'
<1>1. ASSUME NEW o \in Nodes, o # n
      PROVE  Truthful(o)'
  <2>1. keeper'[o] = keeper[o] /\ channel'[o] = channel[o] /\ indexer'[o] = indexer[o]
    BY Zenon, <1>1
  <2>2. Dones(o)' = Dones(o) /\ Running(o)' = Running(o)
    BY Zenon, <2>1 DEF Dones, Running
  <2>3. Truthful(o)
    BY Zenon DEF BusyInv
  <2> QED BY Zenon, <2>1, <2>2, <2>3 DEF Truthful
<1> QED BY Zenon, <1>1 DEF BusyInv

LEMMA BusySame ==
  ASSUME BusyInv, UNCHANGED <<keeper, channel, indexer>>
  PROVE  BusyInv'
BY Zenon DEF BusyInv, TasksOK, KeepersOK, ChannelsOK, Truthful, Dones, Running

\* An event is put into the channel of a node, or taken from it.
LEMMA ChannelGrows ==
  ASSUME ChannelsOK, NEW n \in Nodes, NEW e \in {"IndexStart", "IndexDone"}, Tell(n, e)
  PROVE  /\ ChannelsOK' /\ channel'[n] = Append(channel[n], e)
         /\ \A o \in Nodes \ {n} : channel'[o] = channel[o]
BY IndexAssumption DEF ChannelsOK, Tell

LEMMA ChannelShrinks ==
  ASSUME ChannelsOK, NEW n \in Nodes, channel[n] # <<>>,
         channel' = [channel EXCEPT ![n] = Tail(@)]
  PROVE  /\ ChannelsOK' /\ channel'[n] = Tail(channel[n])
         /\ \A o \in Nodes \ {n} : channel'[o] = channel[o]
BY IndexAssumption DEF ChannelsOK

\* RequestIndex and the gossip task announce a start.
LEMMA BusyRequest ==
  ASSUME BusyInv, NEW n \in Nodes, RequestIndex(n) \/ GossipRequest(n)
  PROVE  BusyInv'
<1>1. Tell(n, "IndexStart") /\ UNCHANGED <<keeper, indexer>>
  BY Zenon DEF RequestIndex, GossipRequest
<1>2. /\ ChannelsOK' /\ channel'[n] = Append(channel[n], "IndexStart")
      /\ \A o \in Nodes \ {n} : channel'[o] = channel[o]
  BY Zenon, <1>1, ChannelGrows DEF BusyInv
<1>3. channel[n] \in Seq({"IndexStart", "IndexDone"})
  BY Zenon DEF BusyInv, ChannelsOK
<1>4. Dones(n)' = Dones(n)
  BY Zenon, <1>2, <1>3, DonesAppend, DonesAre
<1>5. Truthful(n)'
  BY Zenon, <1>1, <1>4 DEF BusyInv, Truthful, Running
<1>6. TasksOK' /\ KeepersOK'
  BY Zenon, <1>1 DEF BusyInv, TasksOK, KeepersOK
<1> QED BY Zenon, <1>1, <1>2, <1>5, <1>6, BusyOne

\* A slot of node n gets a new task.
LEMMA SlotMoves ==
  ASSUME TasksOK, NEW n \in Nodes, NEW s \in Slots, NEW t, Become(n, s, t)
  PROVE  /\ TasksOK' /\ indexer'[n][s] = t
         /\ \A r \in Slots \ {s} : indexer'[n][r] = indexer[n][r]
         /\ \A o \in Nodes \ {n} : indexer'[o] = indexer[o]
BY Zenon DEF TasksOK, Become

\* The steps of an indexer that neither start nor end it.
LEMMA BusyWorks ==
  ASSUME BusyInv, NEW n \in Nodes, NEW s \in Slots, NEW t, Become(n, s, t),
         indexer[n][s].at # "idle", t.at # "idle", UNCHANGED <<keeper, channel>>
  PROVE  BusyInv'
<1>1. /\ TasksOK' /\ indexer'[n][s] = t
      /\ \A r \in Slots \ {s} : indexer'[n][r] = indexer[n][r]
      /\ \A o \in Nodes \ {n} : indexer'[o] = indexer[o]
  BY Zenon, SlotMoves DEF BusyInv
<1>2. Running(n)' = Running(n)
  BY Zenon, <1>1 DEF Running
<1>3. Truthful(n)'
  BY Zenon, <1>2 DEF BusyInv, Truthful, Dones
<1>4. KeepersOK' /\ ChannelsOK'
  BY Zenon DEF BusyInv, KeepersOK, ChannelsOK
<1> QED BY Zenon, <1>1, <1>3, <1>4, BusyOne

\* An indexer that ends leaves its IndexDone behind.
LEMMA BusyFinish ==
  ASSUME BusyInv, NEW n \in Nodes, NEW s \in Slots, Finish(n, s)
  PROVE  BusyInv'
<1>1. /\ indexer[n][s].at = "loop" /\ Tell(n, "IndexDone") /\ Become(n, s, Idle)
      /\ keeper' = keeper
  BY Zenon DEF Finish
<1>2. /\ ChannelsOK' /\ channel'[n] = Append(channel[n], "IndexDone")
      /\ \A o \in Nodes \ {n} : channel'[o] = channel[o]
  BY Zenon, <1>1, ChannelGrows DEF BusyInv
<1>3. /\ TasksOK' /\ indexer'[n][s] = Idle
      /\ \A r \in Slots \ {s} : indexer'[n][r] = indexer[n][r]
      /\ \A o \in Nodes \ {n} : indexer'[o] = indexer[o]
  BY Zenon, <1>1, SlotMoves DEF BusyInv
<1>4. s \in Running(n)
  BY Zenon, <1>1 DEF Running
<1>5. keeper[n].busy /\ Dones(n) = {} /\ Running(n) = {s}
  <2>1. Truthful(n)
    BY Zenon DEF BusyInv
  <2> QED BY Zenon, <1>4, <2>1 DEF Truthful
<1>6. Running(n)' = {}
  BY SMTT(30), <1>3, <1>5 DEF Running, Idle
<1>7. channel[n] \in Seq({"IndexStart", "IndexDone"})
  BY Zenon DEF BusyInv, ChannelsOK
<1>8. Dones(n)' = {Len(channel[n]) + 1}
  <2>1. Dones(n)' = {} \cup {Len(channel[n]) + 1}
    BY Zenon, <1>2, <1>5, <1>7, DonesAppend, DonesAre
  <2> QED BY <2>1
<1>9. Truthful(n)'
  BY Zenon, <1>1, <1>5, <1>6, <1>8 DEF Truthful
<1>10. KeepersOK'
  BY Zenon, <1>1 DEF BusyInv, KeepersOK
<1> QED BY Zenon, <1>1, <1>2, <1>3, <1>9, <1>10, BusyOne

\* A node without an indexer starts one.
LEMMA SpawnOne ==
  ASSUME TasksOK, NEW n \in Nodes, Running(n) = {}, Spawn(n)
  PROVE  /\ TasksOK' /\ \E s \in Slots : Running(n)' = {s}
         /\ \A o \in Nodes \ {n} : indexer'[o] = indexer[o]
<1>1. PICK s \in Slots : Become(n, s, Task("scan", {}))
  BY Zenon DEF Spawn, Become
<1>2. /\ TasksOK' /\ indexer'[n][s] = Task("scan", {})
      /\ \A r \in Slots \ {s} : indexer'[n][r] = indexer[n][r]
      /\ \A o \in Nodes \ {n} : indexer'[o] = indexer[o]
  BY Zenon, <1>1, SlotMoves
<1>3. Running(n)' = {s}
  BY <1>2 DEF Running, Task
<1> QED BY Zenon, <1>2, <1>3

\* An IndexStart starts an indexer or is remembered.
LEMMA BusyStart ==
  ASSUME BusyInv, NEW n \in Nodes, channel[n] # <<>>,
         channel' = [channel EXCEPT ![n] = Tail(@)],
         Head(channel[n]) = "IndexStart", IndexStart(n)
  PROVE  BusyInv'
<1>1. /\ ChannelsOK' /\ channel'[n] = Tail(channel[n])
      /\ \A o \in Nodes \ {n} : channel'[o] = channel[o]
  BY Zenon, ChannelShrinks DEF BusyInv
<1>2. channel[n] \in Seq({"IndexStart", "IndexDone"}) /\ Truthful(n)
  BY Zenon DEF BusyInv, ChannelsOK
<1>3. /\ Dones(n) = {} => Dones(n)' = {}
      /\ \A k : Dones(n) = {k} => Dones(n)' = {k - 1}
  BY Zenon, <1>1, <1>2, DonesTail, DonesAre
<1>4. KeepersOK' /\ \A o \in Nodes \ {n} : keeper'[o] = keeper[o]
  BY Zenon DEF IndexStart, BusyInv, KeepersOK
<1>5. keeper'[n].busy
  BY DEF IndexStart, BusyInv, KeepersOK
<1>6. CASE keeper[n].busy
  <2>1. indexer' = indexer
    BY Zenon, <1>6 DEF IndexStart
  <2>2. Running(n)' = Running(n) /\ TasksOK'
    BY Zenon, <2>1 DEF Running, TasksOK, BusyInv
  <2>3. Truthful(n)'
    BY Zenon, <1>2, <1>3, <1>5, <1>6, <2>2 DEF Truthful
  <2> QED BY Zenon, <1>1, <1>4, <2>1, <2>2, <2>3, BusyOne
<1>7. CASE ~keeper[n].busy
  <2>1. Dones(n) = {} /\ Running(n) = {}
    BY Zenon, <1>2, <1>7 DEF Truthful
  <2>2. /\ TasksOK' /\ \E s \in Slots : Running(n)' = {s}
        /\ \A o \in Nodes \ {n} : indexer'[o] = indexer[o]
    BY Zenon, <1>7, <2>1, SpawnOne DEF IndexStart, BusyInv
  <2>3. Truthful(n)'
    BY Zenon, <1>3, <1>5, <2>1, <2>2 DEF Truthful
  <2> QED BY Zenon, <1>1, <1>4, <2>2, <2>3, BusyOne
<1> QED BY Zenon, <1>6, <1>7

\* An IndexDone ends the busy time or starts the run that is pending.
LEMMA BusyDone ==
  ASSUME BusyInv, NEW n \in Nodes, channel[n] # <<>>,
         channel' = [channel EXCEPT ![n] = Tail(@)],
         Head(channel[n]) = "IndexDone", IndexDone(n)
  PROVE  BusyInv'
<1>1. /\ ChannelsOK' /\ channel'[n] = Tail(channel[n])
      /\ \A o \in Nodes \ {n} : channel'[o] = channel[o]
  BY Zenon, ChannelShrinks DEF BusyInv
<1>2. channel[n] \in Seq({"IndexStart", "IndexDone"}) /\ Truthful(n)
  BY Zenon DEF BusyInv, ChannelsOK
<1>3. Dones(n) # {} /\ \A k : Dones(n) = {k} => Dones(n)' = {}
  BY Zenon, <1>1, <1>2, DonesTail, DonesAre
<1>4. keeper[n].busy /\ Running(n) = {} /\ Dones(n)' = {}
  BY Zenon, <1>2, <1>3 DEF Truthful
<1>5. KeepersOK' /\ \A o \in Nodes \ {n} : keeper'[o] = keeper[o]
  BY Zenon DEF IndexDone, BusyInv, KeepersOK
<1>6. CASE keeper[n].pending
  <2>1. keeper'[n].busy
    BY Zenon, <1>4, <1>6 DEF IndexDone, BusyInv, KeepersOK
  <2>2. /\ TasksOK' /\ \E s \in Slots : Running(n)' = {s}
        /\ \A o \in Nodes \ {n} : indexer'[o] = indexer[o]
    BY Zenon, <1>4, <1>6, SpawnOne DEF IndexDone, BusyInv
  <2>3. Truthful(n)'
    BY Zenon, <1>4, <2>1, <2>2 DEF Truthful
  <2> QED BY Zenon, <1>1, <1>5, <2>2, <2>3, BusyOne
<1>7. CASE ~keeper[n].pending
  <2>1. ~keeper'[n].busy /\ ~keeper'[n].pending
    BY Zenon, <1>7 DEF IndexDone, BusyInv, KeepersOK
  <2>2. indexer' = indexer
    BY Zenon, <1>7 DEF IndexDone
  <2>3. Running(n)' = Running(n) /\ TasksOK'
    BY Zenon, <2>2 DEF Running, TasksOK, BusyInv
  <2>4. Truthful(n)'
    BY Zenon, <1>4, <2>1, <2>3 DEF Truthful
  <2> QED BY Zenon, <1>1, <1>5, <2>2, <2>3, <2>4, BusyOne
<1> QED BY Zenon, <1>6, <1>7

\* A node that starts runs one indexer and is busy.
LEMMA StartedRuns ==
  ASSUME NEW n, indexer[n] = Started
  PROVE  Running(n) = {1}
BY SMTT(30), IndexAssumption DEF Running, Started, Task, Idle

LEMMA BusyCrash ==
  ASSUME BusyInv, NEW n \in Nodes, CrashAndRestart(n)
  PROVE  BusyInv'
<1>1. /\ keeper' = [keeper EXCEPT ![n] = [busy |-> TRUE, pending |-> FALSE]]
      /\ channel' = [channel EXCEPT ![n] = <<>>]
      /\ indexer' = [indexer EXCEPT ![n] = Started]
  BY Zenon DEF CrashAndRestart
<1>2. KeepersOK' /\ keeper'[n].busy /\ \A o \in Nodes \ {n} : keeper'[o] = keeper[o]
  BY Zenon, <1>1 DEF BusyInv, KeepersOK
<1>3. ChannelsOK' /\ channel'[n] = <<>> /\ \A o \in Nodes \ {n} : channel'[o] = channel[o]
  BY SMTT(30), <1>1, IndexAssumption DEF BusyInv, ChannelsOK
<1>4. TasksOK' /\ indexer'[n] = Started /\ \A o \in Nodes \ {n} : indexer'[o] = indexer[o]
  BY Zenon, <1>1 DEF BusyInv, TasksOK, Started
<1>5. Dones(n)' = {}
  BY SMTT(30), <1>3 DEF Dones
<1>6. Running(n)' = {1}
  BY SMTT(30), <1>4, IndexAssumption DEF Running, Started, Task, Idle
<1>7. Truthful(n)'
  BY Zenon, <1>2, <1>5, <1>6, IndexAssumption DEF Truthful
<1> QED BY Zenon, <1>2, <1>3, <1>4, <1>7, BusyOne

LEMMA BusyIndexer ==
  ASSUME BusyInv, NEW n \in Nodes, NEW s \in Slots, Indexer(n, s)
  PROVE  BusyInv'
<1>1. CASE Scan(n, s)
  <2>1. PICK entries : Become(n, s, Task("loop", entries))
    BY Zenon, <1>1 DEF Scan
  <2>2. indexer[n][s].at # "idle" /\ Task("loop", entries).at # "idle"
    BY Zenon, <1>1 DEF Scan, Task
  <2> QED BY Zenon, <1>1, <2>1, <2>2, BusyWorks DEF Scan
<1>2. ASSUME NEW e \in indexer[n][s].entries, TryLock(n, s, e)
      PROVE  BusyInv'
  <2>1. PICK t : Become(n, s, t) /\ t.at \in {"locked", "loop"}
    <3>1. \A rest : Doing("locked", e, rest).at = "locked" /\ Task("loop", rest).at = "loop"
      BY Zenon DEF Doing, At, Task
    <3> QED BY Zenon, <1>2, <3>1 DEF TryLock
  <2>2. indexer[n][s].at # "idle" /\ t.at # "idle"
    BY Zenon, <1>2, <2>1 DEF TryLock
  <2> QED BY Zenon, <1>2, <2>1, <2>2, BusyWorks DEF TryLock
<1>3. CASE ReadMetadata(n, s) \/ WriteIndex(n, s)
  <2>1. PICK t : Become(n, s, t) /\ t.at \in {"index", "remove"}
    <3>1. \A e, rest : /\ Doing("index", e, rest).at = "index"
                       /\ Doing("remove", e, rest).at = "remove"
      BY DEF Doing, At, Task
    <3>2. CASE ReadMetadata(n, s)
      <4>1. PICK at \in {"index", "remove"} :
              Become(n, s, Doing(at, indexer[n][s].entry, indexer[n][s].entries))
        BY <3>2 DEF ReadMetadata
      <4> QED BY Zenon, <3>1, <4>1
    <3>3. CASE WriteIndex(n, s)
      BY Zenon, <3>1, <3>3 DEF WriteIndex
    <3> QED BY Zenon, <1>3, <3>2, <3>3
  <2>2. indexer[n][s].at # "idle" /\ t.at # "idle"
    BY <1>3, <2>1 DEF ReadMetadata, WriteIndex
  <2>3. UNCHANGED <<keeper, channel>>
    BY Zenon, <1>3 DEF ReadMetadata, WriteIndex
  <2> QED BY Zenon, <2>1, <2>2, <2>3, BusyWorks
<1>4. CASE SkipEntry(n, s) \/ BreakLoop(n, s) \/ RemoveEntry(n, s)
  <2>1. PICK entries : Become(n, s, Task("loop", entries))
    BY Zenon, <1>4 DEF SkipEntry, BreakLoop, RemoveEntry
  <2>2. indexer[n][s].at # "idle" /\ Task("loop", entries).at # "idle"
    BY <1>4 DEF SkipEntry, BreakLoop, RemoveEntry, Task
  <2>3. UNCHANGED <<keeper, channel>>
    BY Zenon, <1>4 DEF SkipEntry, BreakLoop, RemoveEntry
  <2> QED BY Zenon, <2>1, <2>2, <2>3, BusyWorks
<1> QED BY Zenon, <1>1, <1>2, <1>3, <1>4, BusyFinish DEF Indexer

LEMMA BusyStep ==
  ASSUME BusyInv, [Next]_vars
  PROVE  BusyInv'
<1>1. ASSUME NEW n \in Nodes, NEW d \in Docs, Ingest(n, d)
      PROVE  BusyInv'
  BY Zenon, <1>1, BusySame DEF Ingest
<1>2. ASSUME NEW n \in Nodes, Housekeep(n)
      PROVE  BusyInv'
  BY Zenon, <1>2, BusyStart, BusyDone DEF Housekeep
<1>3. ASSUME NEW d \in Docs, Tombstone(d) \/ PurgeDoc(d)
      PROVE  BusyInv'
  BY Zenon, <1>3, BusySame DEF Tombstone, PurgeDoc
<1>4. CASE PurgeScan \/ PurgeIndex \/ PurgeFails \/ Tick \/ UNCHANGED vars
  BY Zenon, <1>4, BusySame DEF PurgeScan, PurgeIndex, PurgeFails, Tick, vars
<1> QED BY Zenon, <1>1, <1>2, <1>3, <1>4, BusyRequest, BusyCrash, BusyIndexer DEF Next, Purge

LEMMA BusyInit == Init => BusyInv
<1> SUFFICES ASSUME Init PROVE BusyInv
  OBVIOUS
<1>1. TasksOK
  BY Zenon DEF Init, TasksOK, Started
<1>2. KeepersOK /\ ChannelsOK
  BY SMTT(30), IndexAssumption DEF Init, KeepersOK, ChannelsOK
<1>3. ASSUME NEW n \in Nodes
      PROVE  Truthful(n)
  <2>1. Running(n) = {1}
    BY Zenon, StartedRuns DEF Init
  <2>2. Dones(n) = {} /\ keeper[n].busy
    BY DEF Init, Dones
  <2> QED BY Zenon, <2>1, <2>2, IndexAssumption DEF Truthful
<1> QED BY Zenon, <1>1, <1>2, <1>3 DEF BusyInv

\* The housekeeper's index_busy tells the truth on every node, for any number of
\* nodes, messages, requests, failures and crashes: one indexer runs, or one
\* IndexDone is on its way, exactly while it is set.
THEOREM OneIndexerEach == Spec => []OneIndexer
<1>1. BusyInv => OneIndexer
  <2> SUFFICES ASSUME BusyInv, NEW n \in Nodes
               PROVE  Cardinality(Running(n)) + Cardinality(Dones(n)) = IF keeper[n].busy THEN 1 ELSE 0
    BY Zenon DEF OneIndexer
  <2>1. Truthful(n)
    BY Zenon DEF BusyInv
  <2>2. Cardinality({}) = 0 /\ \A x : Cardinality({x}) = 1
    BY Zenon, FS_EmptySet, FS_Singleton
  <2>3. CASE Dones(n) = {} /\ Running(n) = {} /\ ~keeper[n].busy
    BY SMTT(30), <2>2, <2>3
  <2>4. CASE keeper[n].busy /\ Dones(n) = {} /\ \E s \in Slots : Running(n) = {s}
    <3>1. Cardinality(Running(n)) = 1 /\ Cardinality(Dones(n)) = 0
      BY Zenon, <2>2, <2>4
    <3> QED BY SMTT(30), <2>4, <3>1
  <2>5. CASE keeper[n].busy /\ Running(n) = {} /\ \E k : Dones(n) = {k}
    <3>1. Cardinality(Running(n)) = 0 /\ Cardinality(Dones(n)) = 1
      BY Zenon, <2>2, <2>5
    <3> QED BY SMTT(30), <2>5, <3>1
  <2> QED BY Zenon, <2>1, <2>3, <2>4, <2>5 DEF Truthful
<1> QED BY <1>1, BusyInit, BusyStep, PTL DEF Spec

-----------------------------------------------------------------------------
(* Types. *)

\* An announcement is of a message that was written.
TypeInv ==
  /\ IndexInv /\ Bounded /\ BusyInv
  /\ now \in 1..MaxTime
  /\ announce \in [Nodes -> Nat] /\ \A n \in Nodes : announce[n] < next

\* The steps that neither write a message, nor announce one, nor restart a node.
LEMMA OthersCount ==
  ASSUME [Next]_vars
  PROVE  \/ Tick \/ UNCHANGED <<announce, next, now>>
         \/ \E n \in Nodes : RequestIndex(n) \/ CrashAndRestart(n) \/ \E d \in Docs : Ingest(n, d)
<1>1. ASSUME NEW n \in Nodes, NEW s \in Slots, Indexer(n, s)
      PROVE  UNCHANGED <<announce, next, now>>
  BY Zenon, <1>1 DEF Indexer, Scan, TryLock, ReadMetadata, WriteIndex, SkipEntry, BreakLoop,
                     RemoveEntry, Finish
<1>2. ASSUME NEW n \in Nodes, GossipRequest(n) \/ Housekeep(n)
      PROVE  UNCHANGED <<announce, next, now>>
  BY Zenon, <1>2 DEF GossipRequest, Housekeep
<1>3. ASSUME NEW d \in Docs, Tombstone(d) \/ PurgeDoc(d)
      PROVE  UNCHANGED <<announce, next, now>>
  BY Zenon, <1>3 DEF Tombstone, PurgeDoc
<1>4. CASE PurgeScan \/ PurgeIndex \/ PurgeFails \/ UNCHANGED vars
  BY Zenon, <1>4 DEF PurgeScan, PurgeIndex, PurgeFails, vars
<1> QED BY Zenon, <1>1, <1>2, <1>3, <1>4 DEF Next, Purge

LEMMA TypeStep ==
  ASSUME TypeInv, [Next]_vars
  PROVE  TypeInv'
<1>1. IndexInv' /\ Bounded' /\ BusyInv'
  BY Zenon, NextInv, NextBounded, BusyStep DEF TypeInv
<1> DEFINE Clock == now \in 1..MaxTime
           Counts == announce \in [Nodes -> Nat] /\ \A n \in Nodes : announce[n] < next
<1>2. Clock /\ Counts /\ next \in Nat \ {0}
  BY Zenon DEF TypeInv, IndexInv, EmailsOK
<1>3. CASE Tick
  <2>1. now' \in 1..MaxTime
    BY SMTT(30), <1>2, <1>3, IndexAssumption DEF Tick
  <2> QED BY Zenon, <1>1, <1>2, <1>3, <2>1 DEF Tick, TypeInv
<1>4. CASE now' = now /\ ~Tick
  <2>1. ASSUME NEW n \in Nodes, NEW d \in Docs, Ingest(n, d)
        PROVE  Counts'
    BY SMTT(30), <1>2, <2>1 DEF Ingest
  <2>2. ASSUME NEW n \in Nodes, RequestIndex(n) \/ CrashAndRestart(n)
        PROVE  Counts'
    BY SMTT(30), <1>2, <2>2 DEF RequestIndex, CrashAndRestart
  <2>3. \/ UNCHANGED <<announce, next>>
        \/ \E n \in Nodes : RequestIndex(n) \/ CrashAndRestart(n) \/ \E d \in Docs : Ingest(n, d)
    BY Zenon, OthersCount, <1>4
  <2> QED BY Zenon, <1>1, <1>2, <1>4, <2>1, <2>2, <2>3 DEF TypeInv
<1>5. now' = now \/ Tick
  <2>1. ASSUME NEW n \in Nodes, RequestIndex(n) \/ CrashAndRestart(n) \/ \E d \in Docs : Ingest(n, d)
        PROVE  now' = now
    BY Zenon, <2>1 DEF RequestIndex, CrashAndRestart, Ingest
  <2> QED BY Zenon, <2>1, OthersCount
<1> QED BY Zenon, <1>3, <1>4, <1>5

\* Clock, documents, index, queue, announcements and the housekeepers' marks and
\* channels keep their types and their limits.
THEOREM TypeCorrect == Spec => []TypeOK
<1>1. Init => TypeInv
  BY SMTT(30), InitInv, BusyInit, IndexAssumption DEF Init, TypeInv, Bounded
<1>2. TypeInv => TypeOK
  <2> SUFFICES ASSUME TypeInv PROVE TypeOK
    BY Zenon
  <2>1. next \in 1..(MaxMessages + 1) /\ Past \subseteq Messages
    BY SMTT(30), PastMessages, IndexAssumption DEF TypeInv, IndexInv, EmailsOK, Bounded
  <2>2. emails \in [Docs -> [msg : 0..MaxMessages, tombstone : BOOLEAN]]
    BY SMTT(30), <2>1, IndexAssumption DEF TypeInv, IndexInv, EmailsOK
  <2>3. fts \in [Docs -> SUBSET Messages] /\ DOMAIN queue \subseteq Messages
    BY Zenon, <2>1 DEF TypeInv, IndexInv, IndexOK, QueueOK
  <2>4. announce \in [Nodes -> 0..MaxMessages]
    BY <2>1, IndexAssumption DEF TypeInv
  <2> QED BY Zenon, <2>1, <2>2, <2>3, <2>4 DEF TypeOK, TypeInv, BusyInv, KeepersOK, ChannelsOK
<1> QED BY <1>1, <1>2, TypeStep, PTL DEF Spec
=============================================================================
