----------------------------- MODULE BlobStore ------------------------------
(***************************************************************************)
(* The life of blobs.  Contents are in a blob store under their hash.  The *)
(* data store has three kinds of rows about a hash: reservations with an   *)
(* expiry, links from documents and queued messages, and a commit row that *)
(* says the content is there.  Uploads, ingestion, the SMTP queue and      *)
(* copies write these rows, each in several steps.  purge_blobs reads the  *)
(* rows, deletes the contents nobody reserves or links, then their rows.   *)
(* Every step of a request and of a purge is one access to a store.        *)
(***************************************************************************)
EXTENDS Naturals, FiniteSets

CONSTANTS
    Hashes,         \* contents
    Accounts,       \* accounts of users
    MaxAccount,     \* u32::MAX, the account of a batch that sets none
    Docs,           \* document ids of messages and scripts
    AccountOf,      \* the account of each document
    QueueIds,       \* ids of queued messages
    AllOnes,        \* the queue ids whose lower half is u32::MAX
    Writers,        \* tasks that store or copy blobs
    Purgers,        \* tasks that run purge_blobs
    Ttl,            \* upload_tmp_ttl, and the queue's 120 seconds, in ticks
    UploadQuota,    \* upload_tmp_quota_amount
    MaxTime,        \* bound on the clock
    MaxFailures     \* bound on failed requests and purges

ASSUME BlobAssumption ==
    /\ MaxAccount \notin Accounts
    /\ AccountOf \in [Docs -> Accounts]
    /\ QueueIds \subseteq Nat /\ AllOnes \subseteq QueueIds
    /\ Docs \cap QueueIds = {}
    /\ IsFiniteSet(Writers)
    /\ Ttl \in Nat \ {0} /\ UploadQuota \in Nat \ {0}
    /\ MaxTime \in Nat /\ MaxFailures \in Nat

VARIABLES
    now,            \* the clock
    reserved,       \* BlobOp::Reserve rows
    links,          \* BlobOp::Link and BlobOp::LinkId rows
    committed,      \* BlobOp::Commit rows
    blobs,          \* hashes whose content the blob store has
    writer,         \* the request each writer works on
    purger,         \* the step each purge is at
    granted,        \* reserved BlobIds handed to clients
    overlapped,     \* history: hashes a purge and a request worked on together
    failures        \* failed requests and purges so far

rows == <<reserved, links, committed>>
vars == <<now, reserved, links, committed, blobs, writer, purger, granted, overlapped, failures>>

Reservation == [account : Accounts \cup {MaxAccount}, hash : Hashes, until : Nat, counted : BOOLEAN]
Link == [hash : Hashes, owner : Docs \cup QueueIds]
BlobId == [account : Accounts, hash : Hashes, until : Nat]

NoRequest == [pc |-> "idle"]
Requests ==
    [pc : {"reserve", "exists", "put", "commit", "link"},
     kind : {"upload", "ingest", "replace", "queue", "blob_copy", "email_copy"},
     hash : Hashes, owner : Accounts \cup Docs \cup QueueIds, until : Nat, asserts : SUBSET Link]

NoPurge == [pc |-> "idle"]
Purges ==
    [pc : {"links"}, expired : SUBSET Reservation, active : SUBSET Hashes]
      \cup [pc : {"delete"}, expired : SUBSET Reservation, doomed : SUBSET Hashes, left : SUBSET Hashes]

Init ==
    /\ now = 0
    /\ reserved = {} /\ links = {} /\ committed = {} /\ blobs = {}
    /\ writer = [w \in Writers |-> NoRequest]
    /\ purger = [p \in Purgers |-> NoPurge]
    /\ granted = {} /\ overlapped = {} /\ failures = 0

Tick ==
    /\ now < MaxTime
    /\ now' = now + 1
    /\ UNCHANGED <<rows, blobs, writer, purger, granted, overlapped, failures>>

-----------------------------------------------------------------------------
(* Requests.  A writer takes a request of one of five kinds.               *)

Busy(w) == writer[w].pc # "idle"

Asserting(w, pc, kind, h, owner, asserts) ==
    /\ ~Busy(w)
    /\ writer' = [writer EXCEPT ![w] =
                    [pc |-> pc, kind |-> kind, hash |-> h, owner |-> owner, until |-> 0,
                     asserts |-> asserts]]
    /\ UNCHANGED <<now, rows, blobs, purger, granted, overlapped, failures>>

Begin(w, pc, kind, h, owner) == Asserting(w, pc, kind, h, owner, {})

\* blob_quota: the unexpired reservations of account a that count.
Counted(a) == {r \in reserved : r.account = a /\ r.until > now /\ r.counted}

\* Mutant: the blob being uploaded is left out of the comparison.
UploadOneMore(w, a, h) ==
    /\ Cardinality(Counted(a)) <= UploadQuota
    /\ Begin(w, "reserve", "upload", h, a)

\* blob_upload: the quota of temporary blobs is checked, then put_blob is called.
Upload(w, a, h) ==
    /\ Cardinality(Counted(a)) + 1 <= UploadQuota
    /\ Begin(w, "reserve", "upload", h, a)

\* Document ids are assigned by the store and queue ids by the generator: a new one is
\* neither in use nor about to be.
Fresh(id) ==
    /\ \A l \in links : l.owner # id
    /\ \A v \in Writers : Busy(v) => writer[v].owner # id

\* email_ingest, or a new script: put_blob, then a batch with the link.
Ingest(w, d, h) == Fresh(d) /\ Begin(w, "reserve", "ingest", h, d)

\* A script gets a new content: put_blob, then a batch that moves the link and asserts
\* that the script is as it was read.
Replace(w, d, h) ==
    \E l \in links : l.owner = d /\ Asserting(w, "reserve", "replace", h, d, {l})

\* Message::queue.
QueueMessage(w, q, h) == Fresh(q) /\ Begin(w, "reserve", "queue", h, q)

LinkedByDoc(h) == \E l \in links : l.hash = h /\ l.owner \in Docs

\* A BlobId of a client that has not expired: its reservation row is looked up.
GrantHolds(g) ==
    /\ g.until > now
    /\ \E r \in reserved : r.account = g.account /\ r.hash = g.hash /\ r.until = g.until

HasAccess(h) == LinkedByDoc(h) \/ \E g \in granted : g.hash = h /\ GrantHolds(g)

\* Blob/copy: access is checked, then the target account gets a reservation.
BlobCopy(w, a, h) ==
    /\ HasAccess(h)
    /\ Begin(w, "reserve", "blob_copy", h, a)

\* Email/copy: the metadata of the source is read, then the copy is written.
EmailCopy(w, d, h) ==
    /\ LinkedByDoc(h)
    /\ Fresh(d)
    /\ Begin(w, "link", "email_copy", h, d)

-----------------------------------------------------------------------------
(* The steps of a request.                                                 *)

\* A purge has passed the reservations without seeing h there, or is about to delete h,
\* or an earlier one failed after it deleted h and before it cleared h's commit row.
BeingPurged(h) ==
    \/ \E p \in Purgers : purger[p].pc = "links" /\ h \notin purger[p].active
    \/ \E p \in Purgers : purger[p].pc = "delete" /\ h \in purger[p].doomed
    \/ h \in committed \ blobs

\* The account a reservation is written under: the queue's batch names none.
ReserveAccount(r) ==
    CASE r.kind \in {"upload", "blob_copy"} -> r.owner
      [] r.kind \in {"ingest", "replace"} -> AccountOf[r.owner]
      [] r.kind = "queue" -> MaxAccount

\* The row of a hash, an account and an expiry has one value: a later write replaces it.
SameRow(r, a, h, until) == r.account = a /\ r.hash = h /\ r.until = until
SetReservation(a, h, until, counted) ==
    {r \in reserved : ~SameRow(r, a, h, until)}
      \cup {[account |-> a, hash |-> h, until |-> until, counted |-> counted]}

Grant(r, until) ==
    granted' = granted \cup {[account |-> r.owner, hash |-> r.hash, until |-> until]}

\* The reservation is written; Blob/copy is done then, the others go on.
Reserve(w) ==
    LET r     == writer[w]
        until == now + Ttl
    IN  /\ r.pc = "reserve"
        /\ reserved' = SetReservation(ReserveAccount(r), r.hash, until, r.kind = "upload")
        /\ overlapped' = overlapped \cup {h \in {r.hash} : BeingPurged(h)}
        /\ \/ /\ r.kind = "blob_copy"
              /\ Grant(r, until)
              /\ writer' = [writer EXCEPT ![w] = NoRequest]
           \/ /\ r.kind # "blob_copy"
              /\ writer' = [writer EXCEPT ![w] =
                              [r EXCEPT !.until = until,
                                        !.pc = IF r.kind = "queue" THEN "put" ELSE "exists"]]
              /\ UNCHANGED granted
        /\ UNCHANGED <<now, links, committed, blobs, purger, failures>>

\* Mutant: a BlobId is handed out for every blob that was stored.
AnswerAlways(w) ==
    /\ Grant(writer[w], writer[w].until)
    /\ writer' = [writer EXCEPT ![w] = [writer[w] EXCEPT !.pc = "link"]]

\* The end of put_blob: an upload answers with the BlobId, ingestion goes on.
Answer(w) ==
    LET r == writer[w]
    IN  \/ /\ r.kind = "upload"
           /\ Grant(r, r.until)
           /\ writer' = [writer EXCEPT ![w] = NoRequest]
        \/ /\ r.kind # "upload"
           /\ writer' = [writer EXCEPT ![w] = [r EXCEPT !.pc = "link"]]
           /\ UNCHANGED granted

\* blob_exists: content with a commit row is not stored again.
Exists(w) ==
    /\ writer[w].pc = "exists"
    /\ \/ writer[w].hash \in committed /\ Answer(w)
       \/ /\ writer[w].hash \notin committed
          /\ writer' = [writer EXCEPT ![w] = [writer[w] EXCEPT !.pc = "put"]]
          /\ UNCHANGED granted
    /\ UNCHANGED <<now, rows, blobs, purger, overlapped, failures>>

Put(w) ==
    /\ writer[w].pc = "put"
    /\ blobs' = blobs \cup {writer[w].hash}
    /\ writer' = [writer EXCEPT ![w] =
                    [writer[w] EXCEPT !.pc = IF writer[w].kind = "queue" THEN "link" ELSE "commit"]]
    /\ UNCHANGED <<now, rows, purger, granted, overlapped, failures>>

Commit(w) ==
    /\ writer[w].pc = "commit"
    /\ committed' = committed \cup {writer[w].hash}
    /\ Answer(w)
    /\ UNCHANGED <<now, reserved, links, blobs, purger, overlapped, failures>>

\* The batch that writes the document or the queued message.  The queue's batch also
\* writes the commit row and clears the reservation.
WriteLink(w) ==
    LET r == writer[w]
    IN  /\ r.pc = "link"
        /\ r.asserts \subseteq links
        /\ links' = (links \ r.asserts) \cup {[hash |-> r.hash, owner |-> r.owner]}
        /\ \/ /\ r.kind = "queue"
              /\ committed' = committed \cup {r.hash}
              /\ reserved' = {x \in reserved : ~SameRow(x, MaxAccount, r.hash, r.until)}
           \/ r.kind # "queue" /\ UNCHANGED <<committed, reserved>>
        /\ writer' = [writer EXCEPT ![w] = NoRequest]
        /\ UNCHANGED <<now, blobs, purger, granted, overlapped, failures>>

\* The assertion fails: the script was deleted or replaced meanwhile.
ReplaceRefused(w) ==
    /\ writer[w].pc = "link"
    /\ ~(writer[w].asserts \subseteq links)
    /\ writer' = [writer EXCEPT ![w] = NoRequest]
    /\ UNCHANGED <<now, rows, blobs, purger, granted, overlapped, failures>>

\* A store access of the request fails, or its node stops: what it wrote stays.
Abort(w) ==
    /\ Busy(w)
    /\ failures < MaxFailures
    /\ failures' = failures + 1
    /\ writer' = [writer EXCEPT ![w] = NoRequest]
    /\ UNCHANGED <<now, rows, blobs, purger, granted, overlapped>>

\* The document or queued message of link l is deleted.
Unlink(l) ==
    /\ links' = links \ {l}
    /\ UNCHANGED <<now, reserved, committed, blobs, writer, purger, granted, overlapped, failures>>

\* blob_hash_unlink_account deletes the links its scan of the rows has found.
UnlinkAccount(a) ==
    /\ \E found \in SUBSET {l \in links : l.owner \in Docs /\ AccountOf[l.owner] = a} :
         found # {} /\ links' = links \ found
    /\ UNCHANGED <<now, reserved, committed, blobs, writer, purger, granted, overlapped, failures>>

-----------------------------------------------------------------------------
(* purge_blobs.                                                            *)

\* Mutant: unexpired reservations are skipped and not remembered.
ScanReservedBlind(p) ==
    LET expired == {r \in reserved : r.account # MaxAccount /\ r.until <= now}
    IN  /\ purger[p].pc = "idle"
        /\ purger' = [purger EXCEPT ![p] = [pc |-> "links", expired |-> expired, active |-> {}]]
        /\ UNCHANGED <<now, rows, blobs, writer, granted, overlapped, failures>>

\* The range of the scan ends before the rows of account u32::MAX.
ScanReserved(p) ==
    LET scanned == {r \in reserved : r.account # MaxAccount}
        expired == {r \in scanned : r.until <= now}
    IN  /\ purger[p].pc = "idle"
        /\ purger' = [purger EXCEPT ![p] =
                        [pc |-> "links", expired |-> expired,
                         active |-> {r.hash : r \in scanned \ expired}]]
        /\ UNCHANGED <<now, rows, blobs, writer, granted, overlapped, failures>>

\* The rows of a hash come in the order documents, queue ids, commit row.  A row that
\* ends in u32::MAX counts as the commit row; it dooms the hash when no other row came
\* before it and no reservation is active.
Unreferenced(h, active) ==
    /\ h \notin active
    /\ ~LinkedByDoc(h)
    /\ LET ids == {l.owner : l \in {x \in links : x.hash = h /\ x.owner \in QueueIds}}
       IN  \/ h \in committed /\ ids \subseteq AllOnes
           \/ \E q \in ids \cap AllOnes : \A i \in ids \ AllOnes : q < i

\* A request relies on h from its first access to h's rows until its last.
AtWork(h) ==
    \E w \in Writers : /\ Busy(w) /\ writer[w].hash = h
                       /\ writer[w].pc = "reserve" => writer[w].kind = "blob_copy"

ScanLinks(p) ==
    LET doomed == {h \in Hashes : Unreferenced(h, purger[p].active)}
    IN  /\ purger[p].pc = "links"
        /\ purger' = [purger EXCEPT ![p] = [pc |-> "delete", expired |-> purger[p].expired,
                                            doomed |-> doomed, left |-> doomed]]
        /\ overlapped' = overlapped \cup {h \in doomed : AtWork(h)}
        /\ UNCHANGED <<now, rows, blobs, writer, granted, failures>>

DeleteBlob(p, h) ==
    /\ purger[p].pc = "delete"
    /\ h \in purger[p].left
    /\ blobs' = blobs \ {h}
    /\ purger' = [purger EXCEPT ![p] = [purger[p] EXCEPT !.left = purger[p].left \ {h}]]
    /\ UNCHANGED <<now, rows, writer, granted, overlapped, failures>>

\* Mutant: only the reservations are cleared.
ClearReservations(p) ==
    /\ purger[p].pc = "delete"
    /\ purger[p].left = {}
    /\ reserved' = {r \in reserved : \A x \in purger[p].expired : ~SameRow(r, x.account, x.hash, x.until)}
    /\ purger' = [purger EXCEPT ![p] = NoPurge]
    /\ UNCHANGED <<now, links, committed, blobs, writer, granted, overlapped, failures>>

ClearRows(p) ==
    /\ purger[p].pc = "delete"
    /\ purger[p].left = {}
    /\ reserved' = {r \in reserved : \A x \in purger[p].expired : ~SameRow(r, x.account, x.hash, x.until)}
    /\ committed' = committed \ purger[p].doomed
    /\ purger' = [purger EXCEPT ![p] = NoPurge]
    /\ UNCHANGED <<now, links, blobs, writer, granted, overlapped, failures>>

\* A store access of the purge fails, or its node stops: the rows stay.
PurgeFails(p) ==
    /\ purger[p].pc # "idle"
    /\ failures < MaxFailures
    /\ failures' = failures + 1
    /\ purger' = [purger EXCEPT ![p] = NoPurge]
    /\ UNCHANGED <<now, rows, blobs, writer, granted, overlapped>>

-----------------------------------------------------------------------------
Request(w) ==
    \E h \in Hashes :
        \/ \E a \in Accounts : Upload(w, a, h) \/ BlobCopy(w, a, h)
        \/ \E d \in Docs : Ingest(w, d, h) \/ Replace(w, d, h) \/ EmailCopy(w, d, h)
        \/ \E q \in QueueIds : QueueMessage(w, q, h)

Work(w) == Reserve(w) \/ Exists(w) \/ Put(w) \/ Commit(w) \/ WriteLink(w) \/ ReplaceRefused(w)

Purge(p) == ScanReserved(p) \/ ScanLinks(p) \/ (\E h \in Hashes : DeleteBlob(p, h)) \/ ClearRows(p)

Next ==
    \/ Tick
    \/ \E w \in Writers : Request(w) \/ Work(w) \/ Abort(w)
    \/ \E l \in links : Unlink(l)
    \/ \E a \in Accounts : UnlinkAccount(a)
    \/ \E p \in Purgers : Purge(p) \/ PurgeFails(p)

Spec == Init /\ [][Next]_vars

\* The housekeeper starts a purge again and again, and a started one goes on.
FairSpec == Spec /\ \A p \in Purgers : WF_vars(Purge(p))

-----------------------------------------------------------------------------
TypeOK ==
    /\ now \in Nat /\ failures \in Nat
    /\ reserved \subseteq Reservation
    /\ links \subseteq Link
    /\ committed \subseteq Hashes /\ blobs \subseteq Hashes /\ overlapped \subseteq Hashes
    /\ writer \in [Writers -> {NoRequest} \cup Requests]
    /\ purger \in [Purgers -> {NoPurge} \cup Purges]
    /\ granted \subseteq BlobId

HasLink(h) == \E l \in links : l.hash = h

\* The content of a linked hash is in the blob store, and a client's unexpired BlobId has
\* its reservation row and its content, unless a purge and a request for the hash
\* overlapped: put_blob and purge_blobs never lose content when they run one after the
\* other, whatever deletions, copies, failures and other purges happen between them.
PromisesKept ==
    \A h \in Hashes \ overlapped :
        /\ HasLink(h) => h \in blobs
        /\ \A g \in granted : g.hash = h /\ g.until > now => GrantHolds(g) /\ h \in blobs

\* Uploads that the quota check of blob_upload let through and that have not written
\* their reservation.
Pending(a) ==
    {w \in Writers : writer[w].pc = "reserve" /\ writer[w].kind = "upload" /\ writer[w].owner = a}

\* The unexpired uploads of an account, those under way included, exceed
\* upload_tmp_quota_amount by less than the number of concurrent requests: the check and
\* the reservation of blob_upload are not atomic, but no check is ever used twice.
UploadsBounded ==
    \A a \in Accounts :
        Cardinality(Counted(a)) + Cardinality(Pending(a)) < UploadQuota + Cardinality(Writers)

\* Nothing refers to h and nobody works on it.
Unused(h) ==
    /\ ~HasLink(h) /\ ~AtWork(h)
    /\ \A r \in reserved : r.hash = h /\ r.account # MaxAccount => r.until <= now

\* Content with a commit row that nothing refers to any more is deleted, with its row, by
\* some later purge_blobs, also when purges fail half-way, unless a purge and a request
\* for the same content overlapped.
UnusedCollected ==
    \A h \in Hashes :
        (Unused(h) /\ h \in committed) ~> (~Unused(h) \/ h \in overlapped \/ h \notin committed \cup blobs)

\* Unlike UnusedCollected, of every content: one that was stored for a reservation that has
\* expired is removed.
ExpiredRemoved == \A h \in Hashes : (Unused(h) /\ h \in blobs) ~> (~Unused(h) \/ h \notin blobs)

\* Of every linked hash, whatever overlapped: purge_blobs never deletes its content.
NothingElseDeleted == \A h \in Hashes : HasLink(h) => h \in blobs

\* What purge_blobs is about to delete was linked by nobody when it looked: of hashes that
\* no request works on, none is linked and doomed.
OnlyUnlinkedDoomed ==
    \A p \in Purgers : purger[p].pc = "delete" =>
        \A h \in purger[p].doomed \ overlapped : ~HasLink(h)

=============================================================================
