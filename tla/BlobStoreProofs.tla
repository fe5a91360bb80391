--------------------------- MODULE BlobStoreProofs ---------------------------
(***************************************************************************)
(* Blobs are kept for as long as they were promised, for any number of     *)
(* contents, documents, requests and purges at once.                       *)
(***************************************************************************)
EXTENDS BlobStore, FiniteSetTheorems, TLAPS

\* A request is of its kind: the kind fixes the owner and the steps.
RequestOK(r) ==
  /\ r \in Requests
  /\ r.kind \in {"upload", "blob_copy"} => r.owner \in Accounts
  /\ r.kind \in {"ingest", "replace", "email_copy"} => r.owner \in Docs
  /\ r.kind = "queue" => r.owner \in QueueIds /\ r.pc \notin {"exists", "commit"}
  /\ r.kind = "blob_copy" => r.pc = "reserve"
  /\ r.kind = "email_copy" => r.pc = "link"
  /\ r.kind = "upload" => r.pc # "link"

WritersOK ==
  /\ writer \in [Writers -> {NoRequest} \cup Requests]
  /\ \A w \in Writers : Busy(w) => RequestOK(writer[w])

\* What a purge still has to delete it has doomed; what it found expired is expired.
PurgersOK ==
  /\ purger \in [Purgers -> {NoPurge} \cup Purges]
  /\ \A p \in Purgers :
       /\ purger[p].pc = "delete" => purger[p].left \subseteq purger[p].doomed
       /\ purger[p].pc # "idle" => \A r \in purger[p].expired : r.until <= now

RowsOK ==
  /\ now \in Nat /\ failures \in Nat
  /\ reserved \subseteq Reservation /\ links \subseteq Link
  /\ committed \subseteq Hashes /\ blobs \subseteq Hashes /\ overlapped \subseteq Hashes
  /\ granted \subseteq BlobId

\* The strengthening of TypeOK that steps preserve.
TypeInv == RowsOK /\ WritersOK /\ PurgersOK

-----------------------------------------------------------------------------
(* What is kept for a hash that no purge and request worked on together.   *)

\* A client holds an unexpired BlobId of h.
Held(h) == \E g \in granted : g.hash = h /\ g.until > now

LinkKept(h) == HasLink(h) => h \in blobs

GrantKept(h) == \A g \in granted : g.hash = h /\ g.until > now => GrantHolds(g) /\ h \in blobs

\* The content a request is about to commit, to link or to copy is there.
WorkKept(h) ==
  \A w \in Writers :
    /\ Busy(w) /\ writer[w].hash = h
    /\ writer[w].pc \in {"commit", "link"} \/ writer[w].kind = "blob_copy"
    => h \in blobs

\* blob_exists tells the truth.
ExistsKept(h) ==
  \A w \in Writers : writer[w].pc = "exists" /\ writer[w].hash = h /\ h \in committed => h \in blobs

\* w has reserved h for a BlobId that has not expired.
Uploading(w, h) ==
  /\ writer[w].pc \in {"exists", "put", "commit"}
  /\ writer[w].kind = "upload" /\ writer[w].hash = h /\ writer[w].until > now

UploadKept(h) ==
  \A w \in Writers : Uploading(w, h) =>
    \E r \in reserved : r.account = writer[w].owner /\ r.hash = h /\ r.until = writer[w].until

\* A hash that a purge did not find reserved is not held and will not be.
ScanKept(h) ==
  \A p \in Purgers : purger[p].pc = "links" /\ h \notin purger[p].active =>
    ~Held(h) /\ \A w \in Writers : ~Uploading(w, h)

\* A hash that a purge is about to delete is of no use to anyone.
DoomKept(h) ==
  \A p \in Purgers : purger[p].pc = "delete" /\ h \in purger[p].doomed =>
    ~HasLink(h) /\ ~AtWork(h) /\ ~Held(h)

Kept(h) ==
  /\ LinkKept(h) /\ GrantKept(h) /\ WorkKept(h) /\ ExistsKept(h) /\ UploadKept(h)
  /\ ScanKept(h) /\ DoomKept(h)

\* The inductive invariant of PromisesKept.
KeptInv == TypeInv /\ \A h \in Hashes \ overlapped : Kept(h)

-----------------------------------------------------------------------------
(* Types. *)

\* A writer that becomes idle, or gets a request of its kind, is as it should be.
LEMMA SetWriter ==
  ASSUME WritersOK, NEW w \in Writers, NEW r, r = NoRequest \/ RequestOK(r),
         writer' = [writer EXCEPT ![w] = r]
  PROVE  WritersOK'
<1>1. r \in {NoRequest} \cup Requests  BY DEF RequestOK
<1>2. writer' \in [Writers -> {NoRequest} \cup Requests]  BY <1>1 DEF WritersOK
<1>3. ASSUME NEW v \in Writers, Busy(v)'
      PROVE  RequestOK(writer'[v])
  <2>1. CASE v = w  BY <1>3, <2>1 DEF WritersOK, Busy, NoRequest
  <2>2. CASE v # w  BY <1>3, <2>2 DEF WritersOK, Busy
  <2> QED BY Zenon, <2>1, <2>2
<1> QED BY Zenon, <1>2, <1>3 DEF WritersOK, RequestOK

\* A purge that gets a new picture of the rows keeps the purges as they should be.
LEMMA SetPurger ==
  ASSUME PurgersOK, now' = now, NEW p \in Purgers, NEW q, q \in {NoPurge} \cup Purges,
         q.pc = "delete" => q.left \subseteq q.doomed,
         q.pc # "idle" => \A r \in q.expired : r.until <= now,
         purger' = [purger EXCEPT ![p] = q]
  PROVE  PurgersOK'
<1>1. purger' \in [Purgers -> {NoPurge} \cup Purges]  BY DEF PurgersOK
<1>2. ASSUME NEW o \in Purgers
      PROVE  /\ purger'[o].pc = "delete" => purger'[o].left \subseteq purger'[o].doomed
             /\ purger'[o].pc # "idle" => \A r \in purger'[o].expired : r.until <= now
  <2>1. CASE o = p  BY <2>1 DEF PurgersOK
  <2>2. CASE o # p  BY <2>2 DEF PurgersOK
  <2> QED BY Zenon, <2>1, <2>2
<1> QED BY Zenon, <1>1, <1>2 DEF PurgersOK

LEMMA WriterType ==
  ASSUME TypeInv, NEW w \in Writers, writer[w].pc # "idle"
  PROVE  RequestOK(writer[w]) /\ writer[w] \in Requests
BY Zenon DEF TypeInv, WritersOK, Busy, RequestOK

\* A new request is of its kind.
LEMMA AssertingType ==
  ASSUME TypeInv, NEW w \in Writers, NEW pc, NEW kind, NEW h \in Hashes, NEW owner,
         NEW asserts \in SUBSET Link, Asserting(w, pc, kind, h, owner, asserts),
         RequestOK([pc |-> pc, kind |-> kind, hash |-> h, owner |-> owner, until |-> 0,
                    asserts |-> asserts])
  PROVE  TypeInv'
<1>1. WritersOK'  BY Zenon, SetWriter DEF TypeInv, Asserting
<1> QED BY Zenon, <1>1 DEF TypeInv, Asserting, RowsOK, PurgersOK, rows

LEMMA RequestType == 
  ASSUME BlobAssumption, TypeInv, NEW w \in Writers, Request(w)
  PROVE  TypeInv'
<1>1. PICK h \in Hashes :
        \/ \E a \in Accounts : Upload(w, a, h) \/ BlobCopy(w, a, h)
        \/ \E d \in Docs : Ingest(w, d, h) \/ Replace(w, d, h) \/ EmailCopy(w, d, h)
        \/ \E q \in QueueIds : QueueMessage(w, q, h)
  BY DEF Request
<1> DEFINE R(pc, kind, owner, asserts) ==
      [pc |-> pc, kind |-> kind, hash |-> h, owner |-> owner, until |-> 0, asserts |-> asserts]
<1>2. ASSUME NEW a \in Accounts, Upload(w, a, h) \/ BlobCopy(w, a, h)
      PROVE  TypeInv'
  <2>1. RequestOK(R("reserve", "upload", a, {})) /\ RequestOK(R("reserve", "blob_copy", a, {}))
    BY Zenon DEF RequestOK, Requests
  <2> QED BY Zenon, <1>2, <2>1, AssertingType DEF Upload, BlobCopy, Begin
<1>3. ASSUME NEW d \in Docs, Ingest(w, d, h) \/ Replace(w, d, h) \/ EmailCopy(w, d, h)
      PROVE  TypeInv'
  <2>1. RequestOK(R("reserve", "ingest", d, {})) /\ RequestOK(R("link", "email_copy", d, {}))
    BY Zenon DEF RequestOK, Requests
  <2>2. ASSUME NEW l \in links PROVE RequestOK(R("reserve", "replace", d, {l})) /\ {l} \in SUBSET Link
    BY DEF RequestOK, Requests, TypeInv, RowsOK
  <2>3. CASE Ingest(w, d, h) \/ EmailCopy(w, d, h)
    BY Zenon, <2>3, <2>1, AssertingType DEF Ingest, EmailCopy, Begin
  <2>4. CASE Replace(w, d, h)
    BY Zenon, <2>4, <2>2, AssertingType DEF Replace
  <2> QED BY Zenon, <1>3, <2>3, <2>4
<1>4. ASSUME NEW q \in QueueIds, QueueMessage(w, q, h)
      PROVE  TypeInv'
  <2>1. RequestOK(R("reserve", "queue", q, {}))
    BY Zenon DEF RequestOK, Requests
  <2> QED BY Zenon, <1>4, <2>1, AssertingType DEF QueueMessage, Begin
<1> QED BY Zenon, <1>1, <1>2, <1>3, <1>4

\* The end of put_blob leaves a request of its kind and a BlobId of its account.
LEMMA AnswerType ==
  ASSUME TypeInv, NEW w \in Writers, writer[w].pc \in {"exists", "commit"}, Answer(w)
  PROVE  WritersOK' /\ granted' \subseteq BlobId
<1> DEFINE r == writer[w]
<1>1. RequestOK(r) /\ r \in Requests  BY WriterType
<1>2. CASE r.kind = "upload" /\ Grant(r, r.until) /\ writer' = [writer EXCEPT ![w] = NoRequest]
  <2>1. WritersOK'  BY Zenon, <1>2, SetWriter DEF TypeInv
  <2>2. r.owner \in Accounts /\ r.hash \in Hashes /\ r.until \in Nat
    BY Zenon, <1>1, <1>2 DEF RequestOK, Requests
  <2> QED BY SMTT(30), <1>2, <2>1, <2>2 DEF Grant, BlobId, TypeInv, RowsOK
<1>3. CASE r.kind # "upload" /\ writer' = [writer EXCEPT ![w] = [r EXCEPT !.pc = "link"]] /\ UNCHANGED granted
  <2>1. RequestOK([r EXCEPT !.pc = "link"])  BY <1>1, <1>3 DEF RequestOK, Requests
  <2>2. WritersOK'  BY Zenon, <1>3, <2>1, SetWriter DEF TypeInv
  <2> QED BY Zenon, <1>3, <2>2 DEF TypeInv, RowsOK
<1> QED BY Zenon, <1>2, <1>3 DEF Answer

\* The row a request reserves.
LEMMA ReserveType ==
  ASSUME BlobAssumption, NEW r, RequestOK(r), r.pc = "reserve"
  PROVE  /\ ReserveAccount(r) \in Accounts \cup {MaxAccount}
         /\ r.kind \in {"upload", "blob_copy"} => ReserveAccount(r) = r.owner /\ r.owner \in Accounts
<1>1. CASE r.kind \in {"upload", "blob_copy"}  BY <1>1 DEF ReserveAccount, RequestOK
<1>2. CASE r.kind \in {"ingest", "replace"}  BY <1>2 DEF ReserveAccount, RequestOK, BlobAssumption
<1>3. CASE r.kind = "queue"  BY <1>3 DEF ReserveAccount, RequestOK
<1> QED BY Zenon, <1>1, <1>2, <1>3 DEF RequestOK, Requests

LEMMA WorkType ==
  ASSUME BlobAssumption, TypeInv, NEW w \in Writers, Work(w)
  PROVE  TypeInv'
<1> DEFINE r == writer[w]
<1>1. CASE Reserve(w)
  <2> DEFINE until == now + Ttl
  <2>1. RequestOK(r) /\ r \in Requests  BY <1>1, WriterType DEF Reserve
  <2>2. until \in Nat  BY DEF TypeInv, RowsOK, BlobAssumption
  <2>3. reserved' \subseteq Reservation
    <3>1. PICK row : row = [account |-> ReserveAccount(r), hash |-> r.hash, until |-> until,
                            counted |-> r.kind = "upload"]
      BY Zenon
    <3>2. row \in Reservation
      BY Zenon, <1>1, <2>1, <2>2, <3>1, ReserveType DEF Reserve, Reservation, Requests
    <3>3. reserved' \subseteq reserved \cup {row}
      BY Zenon, <1>1, <3>1 DEF Reserve, SetReservation
    <3> QED BY Zenon, <3>2, <3>3 DEF TypeInv, RowsOK
  <2>4. overlapped' \subseteq Hashes  BY <1>1, <2>1 DEF Reserve, TypeInv, RowsOK, Requests
  <2>5. WritersOK' /\ granted' \subseteq BlobId
    <3>1. CASE r.kind = "blob_copy" /\ Grant(r, until) /\ writer' = [writer EXCEPT ![w] = NoRequest]
      <4>1. WritersOK'  BY Zenon, <3>1, SetWriter DEF TypeInv
      <4> QED BY SMTT(30), <3>1, <4>1, <2>1, <2>2 DEF Grant, BlobId, TypeInv, RowsOK, RequestOK, Requests
    <3>2. CASE /\ r.kind # "blob_copy"
               /\ writer' = [writer EXCEPT ![w] =
                              [r EXCEPT !.until = until,
                                        !.pc = IF r.kind = "queue" THEN "put" ELSE "exists"]]
               /\ UNCHANGED granted
      <4>1. RequestOK([r EXCEPT !.until = until, !.pc = IF r.kind = "queue" THEN "put" ELSE "exists"])
        <5>1. r.kind # "email_copy"  BY <1>1, <2>1 DEF Reserve, RequestOK
        <5> QED BY Zenon, <2>1, <2>2, <3>2, <5>1 DEF RequestOK, Requests
      <4>2. WritersOK'  BY Zenon, <3>2, <4>1, SetWriter DEF TypeInv
      <4> QED BY <3>2, <4>2 DEF TypeInv, RowsOK
    <3> QED BY Zenon, <1>1, <3>1, <3>2 DEF Reserve
  <2> QED BY Zenon, <1>1, <2>3, <2>4, <2>5 DEF Reserve, TypeInv, RowsOK, PurgersOK
<1>2. CASE Exists(w)
  <2>1. RequestOK(r) /\ r \in Requests  BY <1>2, WriterType DEF Exists
  <2>2. CASE Answer(w)
    BY Zenon, <1>2, <2>2, AnswerType DEF Exists, TypeInv, RowsOK, PurgersOK, rows
  <2>3. CASE writer' = [writer EXCEPT ![w] = [r EXCEPT !.pc = "put"]] /\ UNCHANGED granted
    <3>1. RequestOK([r EXCEPT !.pc = "put"])  BY <1>2, <2>1 DEF Exists, RequestOK, Requests
    <3>2. WritersOK'  BY Zenon, <2>3, <3>1, SetWriter DEF TypeInv
    <3> QED BY Zenon, <1>2, <2>3, <3>2 DEF Exists, TypeInv, RowsOK, PurgersOK, rows
  <2> QED BY Zenon, <1>2, <2>2, <2>3 DEF Exists
<1>3. CASE Put(w)
  <2>1. RequestOK(r) /\ r \in Requests  BY <1>3, WriterType DEF Put
  <2>2. RequestOK([r EXCEPT !.pc = IF r.kind = "queue" THEN "link" ELSE "commit"])
    BY Zenon, <1>3, <2>1 DEF Put, RequestOK, Requests
  <2>3. WritersOK'  BY Zenon, <1>3, <2>2, SetWriter DEF TypeInv, Put
  <2> QED BY Zenon, <1>3, <2>1, <2>3 DEF Put, TypeInv, RowsOK, PurgersOK, rows, Requests
<1>4. CASE Commit(w)
  <2>1. RequestOK(r) /\ r \in Requests  BY <1>4, WriterType DEF Commit
  <2> QED BY Zenon, <1>4, <2>1, AnswerType DEF Commit, TypeInv, RowsOK, PurgersOK, Requests
<1>5. CASE WriteLink(w)
  <2>1. RequestOK(r) /\ r \in Requests  BY Zenon, <1>5, WriterType DEF WriteLink
  <2>2. r.owner \in Docs \cup QueueIds  BY Zenon, <1>5, <2>1 DEF WriteLink, RequestOK, Requests
  <2>3. links' \subseteq Link  BY <1>5, <2>1, <2>2 DEF WriteLink, Link, TypeInv, RowsOK, Requests
  <2>4. WritersOK'  BY Zenon, <1>5, SetWriter DEF WriteLink, TypeInv
  <2>5. committed' \subseteq Hashes /\ reserved' \subseteq Reservation
    BY Zenon, <1>5, <2>1 DEF WriteLink, TypeInv, RowsOK, Requests
  <2> QED BY Zenon, <1>5, <2>3, <2>4, <2>5 DEF WriteLink, TypeInv, RowsOK, PurgersOK
<1>6. CASE ReplaceRefused(w)
  BY Zenon, <1>6, SetWriter DEF ReplaceRefused, TypeInv, RowsOK, PurgersOK, rows
<1> QED BY Zenon, <1>1, <1>2, <1>3, <1>4, <1>5, <1>6 DEF Work

LEMMA PurgerType ==
  ASSUME TypeInv, NEW p \in Purgers
  PROVE  /\ purger[p].pc = "links" => purger[p] \in [pc : {"links"}, expired : SUBSET Reservation, active : SUBSET Hashes]
         /\ purger[p].pc = "delete" => purger[p] \in [pc : {"delete"}, expired : SUBSET Reservation, doomed : SUBSET Hashes, left : SUBSET Hashes]
BY SMTT(30) DEF TypeInv, PurgersOK, NoPurge, Purges

LEMMA PurgeType ==
  ASSUME BlobAssumption, TypeInv, NEW p \in Purgers, Purge(p) \/ PurgeFails(p)
  PROVE  TypeInv'
<1>1. CASE ScanReserved(p)
  <2> DEFINE scanned == {r \in reserved : r.account # MaxAccount}
             expired == {r \in scanned : r.until <= now}
             q == [pc |-> "links", expired |-> expired, active |-> {r.hash : r \in scanned \ expired}]
  <2>1. {r.hash : r \in scanned \ expired} \subseteq Hashes
    BY DEF TypeInv, RowsOK, Reservation
  <2>2. q \in Purges  BY Zenon, <2>1 DEF Purges, TypeInv, RowsOK
  <2>3. purger' = [purger EXCEPT ![p] = q] /\ now' = now  BY <1>1 DEF ScanReserved
  <2>4. q.pc = "links" /\ \A r \in q.expired : r.until <= now  OBVIOUS
  <2> HIDE DEF q
  <2>5. PurgersOK'  BY Zenon, <2>2, <2>3, <2>4, SetPurger DEF TypeInv
  <2> QED BY Zenon, <1>1, <2>5 DEF ScanReserved, TypeInv, RowsOK, WritersOK, rows, Busy
<1>2. CASE ScanLinks(p)
  <2> DEFINE doomed == {h \in Hashes : Unreferenced(h, purger[p].active)}
             q == [pc |-> "delete", expired |-> purger[p].expired, doomed |-> doomed, left |-> doomed]
  <2>1. purger[p].pc = "links" /\ purger[p].expired \subseteq Reservation
        /\ \A r \in purger[p].expired : r.until <= now
    BY Zenon, <1>2, PurgerType DEF ScanLinks, TypeInv, PurgersOK
  <2> HIDE DEF doomed
  <2>2. doomed \subseteq Hashes  BY DEF doomed
  <2>3. q \in Purges  BY <2>1, <2>2 DEF Purges
  <2>4. purger' = [purger EXCEPT ![p] = q] /\ now' = now
    BY Zenon, <1>2 DEF ScanLinks, doomed
  <2>5. /\ q.pc = "delete" /\ q.left \subseteq q.doomed
        /\ \A r \in q.expired : r.until <= now  BY <2>1
  <2>6. PurgersOK'
    <3> HIDE DEF q
    <3> QED BY Zenon, <2>3, <2>4, <2>5, SetPurger DEF TypeInv
  <2>7. overlapped' \subseteq Hashes  BY <1>2, <2>2 DEF ScanLinks, TypeInv, RowsOK, doomed
  <2> QED BY Zenon, <1>2, <2>6, <2>7 DEF ScanLinks, TypeInv, RowsOK, WritersOK, rows, Busy
<1>3. ASSUME NEW h \in Hashes, DeleteBlob(p, h)
      PROVE  TypeInv'
  <2> DEFINE q == [purger[p] EXCEPT !.left = purger[p].left \ {h}]
  <2>1. purger[p].pc = "delete"  BY <1>3 DEF DeleteBlob
  <2>2. q \in Purges /\ q.pc = "delete" /\ q.left \subseteq q.doomed /\ q.expired = purger[p].expired
    BY Zenon, <2>1, PurgerType DEF Purges, TypeInv, PurgersOK
  <2>3. \A r \in q.expired : r.until <= now  BY <2>1, <2>2 DEF TypeInv, PurgersOK
  <2>4. purger' = [purger EXCEPT ![p] = q] /\ now' = now  BY <1>3 DEF DeleteBlob
  <2> HIDE DEF q
  <2>5. PurgersOK'  BY Zenon, <2>2, <2>3, <2>4, SetPurger DEF TypeInv
  <2> QED BY Zenon, <1>3, <2>5 DEF DeleteBlob, TypeInv, RowsOK, WritersOK, rows, Busy
<1>4. ASSUME purger' = [purger EXCEPT ![p] = NoPurge], now' = now
      PROVE  PurgersOK'
  <2>1. NoPurge.pc = "idle"  BY DEF NoPurge
  <2> QED BY Zenon, <1>4, <2>1, SetPurger DEF TypeInv
<1>5. CASE ClearRows(p)
  BY Zenon, <1>5, <1>4 DEF ClearRows, TypeInv, RowsOK, WritersOK, Busy
<1>6. CASE PurgeFails(p)
  BY SMTT(30), <1>6, <1>4 DEF PurgeFails, TypeInv, RowsOK, WritersOK, Busy, rows
<1> QED BY Zenon, <1>1, <1>2, <1>3, <1>5, <1>6 DEF Purge

LEMMA TypeStep ==
  ASSUME BlobAssumption, TypeInv, [Next]_vars
  PROVE  TypeInv'
<1>1. CASE Tick
  <2>1. PurgersOK'
    <3>1. \A p \in Purgers : purger[p].pc # "idle" => purger[p].expired \subseteq Reservation
      BY SMTT(30), PurgerType DEF TypeInv, PurgersOK, NoPurge, Purges
    <3> QED BY SMTT(30), <1>1, <3>1 DEF Tick, TypeInv, PurgersOK, RowsOK, Reservation
  <2> QED BY SMTT(30), <1>1, <2>1 DEF Tick, TypeInv, RowsOK, WritersOK, Busy, rows
<1>2. ASSUME NEW w \in Writers, Request(w) \/ Work(w) \/ Abort(w)
      PROVE  TypeInv'
  <2>1. CASE Abort(w)
    <3>1. WritersOK'  BY Zenon, <2>1, SetWriter DEF Abort, TypeInv
    <3>2. RowsOK'  BY <2>1 DEF Abort, TypeInv, RowsOK, rows
    <3> QED BY Zenon, <2>1, <3>1, <3>2 DEF Abort, TypeInv, PurgersOK
  <2> QED BY Zenon, <1>2, <2>1, RequestType, WorkType
<1>3. ASSUME NEW l \in links, Unlink(l)
      PROVE  TypeInv'
  BY Zenon, <1>3 DEF Unlink, TypeInv, RowsOK, WritersOK, PurgersOK, Busy
<1>4. ASSUME NEW a \in Accounts, UnlinkAccount(a)
      PROVE  TypeInv'
  BY Zenon, <1>4 DEF UnlinkAccount, TypeInv, RowsOK, WritersOK, PurgersOK, Busy
<1>5. CASE UNCHANGED vars
  BY Zenon, <1>5 DEF vars, rows, TypeInv, RowsOK, WritersOK, PurgersOK, Busy
<1> QED BY Zenon, <1>1, <1>2, <1>3, <1>4, <1>5, PurgeType DEF Next

LEMMA TypeInit ==
  ASSUME BlobAssumption, Init
  PROVE  TypeInv
BY DEF Init, TypeInv, RowsOK, WritersOK, PurgersOK, Busy, NoRequest, NoPurge

\* Every row, request and purge is of its shape at all times.
THEOREM TypeCorrect == Spec => []TypeOK
<1>1. Init => TypeInv  BY BlobAssumption, TypeInit
<1>2. TypeInv /\ [Next]_vars => TypeInv'  BY BlobAssumption, TypeStep
<1>3. TypeInv => TypeOK  BY DEF TypeInv, RowsOK, WritersOK, PurgersOK, TypeOK
<1> QED BY <1>1, <1>2, <1>3, PTL DEF Spec

-----------------------------------------------------------------------------
(* Promises are kept. *)

SameKey(r, s) == s.account = r.account /\ s.hash = r.hash /\ s.until = r.until

\* Nothing that needs h comes into being, nothing that keeps h goes away.
Calm(h) ==
  /\ now' \in Nat /\ now' >= now
  /\ \A g \in granted' : g.hash = h => g \in granted
  /\ HasLink(h)' => HasLink(h)
  /\ h \in blobs => h \in blobs'
  /\ h \in committed' => h \in committed
  /\ \A r \in reserved : r.until > now' /\ r.account \in Accounts => \E s \in reserved' : SameKey(r, s)
  /\ \A w \in Writers : writer'[w] = writer[w] \/ ~(Busy(w)' /\ writer'[w].hash = h)

\* No purge sees less than before.
NoNewPurge ==
  \A p \in Purgers :
    /\ purger'[p].pc = "links" => purger'[p] = purger[p]
    /\ purger'[p].pc = "delete" => purger[p].pc = "delete" /\ purger'[p].doomed = purger[p].doomed

LEMMA GrantType ==
  ASSUME TypeInv
  PROVE  /\ \A g \in granted : g.account \in Accounts /\ g.until \in Nat /\ g.hash \in Hashes
         /\ \A r \in reserved : r.until \in Nat /\ r.hash \in Hashes
         /\ now \in Nat
         /\ \A w \in Writers : Busy(w) => writer[w].until \in Nat /\ writer[w].hash \in Hashes
BY DEF TypeInv, RowsOK, WritersOK, BlobId, Reservation, RequestOK, Requests

LEMMA CalmNeeds ==
  ASSUME TypeInv, NEW h, Calm(h)
  PROVE  /\ Held(h)' => Held(h)
         /\ AtWork(h)' => AtWork(h)
         /\ \A w \in Writers : Uploading(w, h)' => Uploading(w, h)
<1>1. Held(h)' => Held(h)  BY GrantType DEF Held, Calm
<1>2. AtWork(h)' => AtWork(h)  BY Zenon DEF AtWork, Calm, Busy
<1>3. ASSUME NEW w \in Writers, Uploading(w, h)'  PROVE Uploading(w, h)
  <2>1. writer'[w] = writer[w] /\ Busy(w)  BY <1>3 DEF Uploading, Calm, Busy
  <2> QED BY SMTT(30), <1>3, <2>1, GrantType DEF Uploading, Calm
<1> QED BY Zenon, <1>1, <1>2, <1>3

LEMMA CalmKept ==
  ASSUME TypeInv, NEW h, Kept(h), Calm(h)
  PROVE  LinkKept(h)' /\ GrantKept(h)' /\ WorkKept(h)' /\ ExistsKept(h)' /\ UploadKept(h)'
<1>1. LinkKept(h)'  BY Zenon DEF LinkKept, Calm, Kept
<1>2. GrantKept(h)'
  <2> SUFFICES ASSUME NEW g \in granted', g.hash = h, g.until > now'
               PROVE  GrantHolds(g)' /\ h \in blobs'
    BY Zenon DEF GrantKept
  <2>1. g \in granted /\ g.until > now /\ g.account \in Accounts  BY GrantType DEF Calm
  <2>2. GrantHolds(g) /\ h \in blobs  BY Zenon, <2>1 DEF Kept, GrantKept
  <2>3. PICK r \in reserved : r.account = g.account /\ r.hash = g.hash /\ r.until = g.until
    BY Zenon, <2>2 DEF GrantHolds
  <2>4. PICK s \in reserved' : SameKey(r, s)  BY Zenon, <2>1, <2>3 DEF Calm
  <2> QED BY Zenon, <2>2, <2>3, <2>4 DEF Calm, GrantHolds, SameKey
<1>3. WorkKept(h)'  BY Zenon DEF WorkKept, Kept, Calm, Busy
<1>4. ExistsKept(h)'  BY Zenon DEF ExistsKept, Kept, Calm, Busy
<1>5. UploadKept(h)'
  <2> SUFFICES ASSUME NEW w \in Writers, Uploading(w, h)'
               PROVE  \E s \in reserved' : s.account = writer'[w].owner /\ s.hash = h /\ s.until = writer'[w].until
    BY Zenon DEF UploadKept
  <2>1. Uploading(w, h) /\ writer'[w] = writer[w] /\ Busy(w)
    BY Zenon, CalmNeeds DEF Uploading, Calm, Busy
  <2>2. writer[w].owner \in Accounts  BY Zenon, <2>1 DEF TypeInv, WritersOK, RequestOK, Uploading
  <2>3. PICK r \in reserved : r.account = writer[w].owner /\ r.hash = h /\ r.until = writer[w].until
    BY Zenon, <2>1 DEF Kept, UploadKept
  <2>4. r.until > now'  BY Zenon, <2>1, <2>3 DEF Uploading
  <2>5. PICK s \in reserved' : SameKey(r, s)  BY <2>2, <2>3, <2>4 DEF Calm
  <2> QED BY Zenon, <2>1, <2>3, <2>5 DEF SameKey
<1> QED BY Zenon, <1>1, <1>2, <1>3, <1>4, <1>5

LEMMA CalmStep ==
  ASSUME TypeInv, NEW h, Kept(h), Calm(h), NoNewPurge
  PROVE  Kept(h)'
<1>1. ScanKept(h)'  BY Zenon, CalmNeeds DEF ScanKept, Kept, NoNewPurge
<1>2. DoomKept(h)'
  <2>1. HasLink(h)' => HasLink(h)  BY DEF Calm
  <2> QED BY Zenon, <2>1, CalmNeeds DEF DoomKept, Kept, NoNewPurge
<1> QED BY Zenon, <1>1, <1>2, CalmKept DEF Kept

\* Only the clock goes on, links are deleted, or requests and purges end.
Quiet ==
  /\ now' \in Nat /\ now' >= now
  /\ UNCHANGED <<reserved, committed, blobs, granted>>
  /\ links' \subseteq links
  /\ \A w \in Writers : writer'[w] = writer[w] \/ writer'[w] = NoRequest
  /\ NoNewPurge

LEMMA QuietKept ==
  ASSUME TypeInv, NEW h \in Hashes, Kept(h), Quiet
  PROVE  Kept(h)'
<1>1. Calm(h)  BY DEF Calm, SameKey, HasLink, Busy, NoRequest, Quiet
<1>2. NoNewPurge  BY DEF Quiet
<1> QED BY Zenon, <1>1, <1>2, CalmStep

LEMMA SamePurge ==
  ASSUME UNCHANGED purger
  PROVE  NoNewPurge
BY Zenon DEF NoNewPurge

LEMMA PurgeEnds ==
  ASSUME TypeInv, NEW p \in Purgers, purger' = [purger EXCEPT ![p] = NoPurge]
  PROVE  NoNewPurge
BY Zenon DEF NoNewPurge, TypeInv, PurgersOK, NoPurge

LEMMA QuietTick ==
  ASSUME TypeInv, Tick \/ UNCHANGED vars
  PROVE  Quiet
<1>1. now \in Nat  BY DEF TypeInv, RowsOK
<1>2. CASE Tick  BY <1>1, <1>2, SamePurge DEF Tick, rows, Quiet
<1>3. CASE UNCHANGED vars  BY <1>1, <1>3, SamePurge DEF vars, rows, Quiet
<1> QED BY Zenon, <1>2, <1>3

LEMMA QuietUnlink ==
  ASSUME TypeInv, (\E l \in links : Unlink(l)) \/ (\E a \in Accounts : UnlinkAccount(a))
  PROVE  Quiet
<1>1. now \in Nat  BY Zenon DEF TypeInv, RowsOK
<1> QED BY SMTT(30), <1>1, SamePurge DEF Unlink, UnlinkAccount, Quiet

LEMMA QuietEnd ==
  ASSUME TypeInv, NEW w \in Writers, ReplaceRefused(w) \/ Abort(w)
  PROVE  Quiet
<1>1. now \in Nat  BY Zenon DEF TypeInv, RowsOK
<1>2. \A v \in Writers : writer'[v] = writer[v] \/ writer'[v] = NoRequest
  BY Zenon DEF ReplaceRefused, Abort, TypeInv, WritersOK
<1> QED BY SMTT(30), <1>1, <1>2, SamePurge DEF ReplaceRefused, Abort, rows, Quiet

LEMMA QuietFail ==
  ASSUME TypeInv, NEW p \in Purgers, PurgeFails(p)
  PROVE  Quiet
<1>1. now \in Nat  BY DEF TypeInv, RowsOK
<1>2. NoNewPurge  BY Zenon, PurgeEnds DEF PurgeFails
<1> QED BY SMTT(30), <1>1, <1>2 DEF PurgeFails, rows, Quiet

\* The rows a purge clears had expired when it read them.
LEMMA ClearRowsStep ==
  ASSUME TypeInv, NEW h \in Hashes, Kept(h), NEW p \in Purgers, ClearRows(p)
  PROVE  Kept(h)'
<1>1. now \in Nat /\ now' = now  BY DEF TypeInv, RowsOK, ClearRows
<1>2. \A x \in purger[p].expired : x.until <= now /\ x.until \in Nat
  BY Zenon, PurgerType DEF ClearRows, TypeInv, PurgersOK, Reservation
<1>3. reserved' = {r \in reserved : \A x \in purger[p].expired : ~SameRow(r, x.account, x.hash, x.until)}
  BY Zenon DEF ClearRows
<1>4. \A r \in reserved : r.until \in Nat  BY GrantType
<1>5. \A r \in reserved : r.until > now => r \in reserved'  BY <1>1, <1>2, <1>3, <1>4 DEF SameRow
<1>6. UNCHANGED <<granted, links, blobs, writer>> /\ committed' \subseteq committed  BY DEF ClearRows
<1>7. Calm(h)  BY <1>1, <1>5, <1>6 DEF Calm, HasLink, SameKey
<1>8. NoNewPurge  BY Zenon, PurgeEnds DEF ClearRows
<1> QED BY Zenon, <1>7, <1>8, CalmStep

\* A new request relies on nothing, or on content that is linked or held.
LEMMA AssertingKept ==
  ASSUME TypeInv, NEW h \in Hashes, Kept(h), NEW w \in Writers, NEW pc, NEW kind, NEW k, NEW owner, NEW asserts,
         Asserting(w, pc, kind, k, owner, asserts),
         \/ pc = "reserve" /\ kind # "blob_copy"
         \/ pc \in {"reserve", "link"} /\ (k = h => HasLink(h) \/ Held(h))
  PROVE  Kept(h)'
<1> DEFINE x == [pc |-> pc, kind |-> kind, hash |-> k, owner |-> owner, until |-> 0, asserts |-> asserts]
<1>1. UNCHANGED <<now, reserved, links, committed, blobs, purger, granted>>
  BY Zenon DEF Asserting, rows
<1>2. writer' = [writer EXCEPT ![w] = x]  BY DEF Asserting
<1>3. /\ \A v \in Writers : v # w => writer'[v] = writer[v]
      /\ writer'[w] = x
  BY Zenon, <1>2 DEF TypeInv, WritersOK
<1>4. x.pc = pc /\ x.kind = kind /\ x.hash = k  OBVIOUS
<1> HIDE DEF x
<1>5. pc \in {"reserve", "link"}  OBVIOUS
<1>6. (k = h /\ (pc = "link" \/ kind = "blob_copy")) => (HasLink(h) \/ Held(h)) /\ h \in blobs
  BY Zenon DEF Kept, LinkKept, GrantKept, Held
<1>7. \A v \in Writers : Uploading(v, h)' => v # w /\ Uploading(v, h)
  BY Zenon, <1>1, <1>3, <1>4, <1>5 DEF Uploading
<1>8. LinkKept(h)' /\ GrantKept(h)'
  BY Zenon, <1>1 DEF Kept, LinkKept, GrantKept, HasLink, GrantHolds
<1>9. WorkKept(h)'
  BY Zenon, <1>1, <1>3, <1>4, <1>5, <1>6 DEF Kept, WorkKept, Busy
<1>10. ExistsKept(h)'
  BY Zenon, <1>1, <1>3, <1>4, <1>5 DEF Kept, ExistsKept
<1>11. UploadKept(h)'
  BY Zenon, <1>1, <1>3, <1>7 DEF Kept, UploadKept
<1>12. ScanKept(h)'
  BY Zenon, <1>1, <1>7 DEF Kept, ScanKept, Held
<1>13. DoomKept(h)'
  <2>1. AtWork(h)' => AtWork(h) \/ HasLink(h) \/ Held(h)
    BY Zenon, <1>3, <1>4, <1>5, <1>6 DEF AtWork, Busy
  <2> QED BY Zenon, <1>1, <2>1 DEF Kept, DoomKept, HasLink, Held
<1> QED BY Zenon, <1>8, <1>9, <1>10, <1>11, <1>12, <1>13 DEF Kept

LEMMA RequestKept ==
  ASSUME TypeInv, NEW h \in Hashes, Kept(h), NEW w \in Writers, Request(w)
  PROVE  Kept(h)'
<1>1. PICK k \in Hashes :
        \/ \E a \in Accounts : Upload(w, a, k) \/ BlobCopy(w, a, k)
        \/ \E d \in Docs : Ingest(w, d, k) \/ Replace(w, d, k) \/ EmailCopy(w, d, k)
        \/ \E q \in QueueIds : QueueMessage(w, q, k)
  BY Zenon DEF Request
<1>2. ASSUME NEW a \in Accounts, Upload(w, a, k)  PROVE Kept(h)'
  BY Zenon, <1>2, AssertingKept DEF Upload, Begin
<1>3. ASSUME NEW a \in Accounts, BlobCopy(w, a, k)  PROVE Kept(h)'
  <2>1. k = h => HasLink(h) \/ Held(h)
    BY Zenon, <1>3 DEF BlobCopy, HasAccess, LinkedByDoc, HasLink, Held, GrantHolds
  <2> QED BY Zenon, <1>3, <2>1, AssertingKept DEF BlobCopy, Begin
<1>4. ASSUME NEW d \in Docs, Ingest(w, d, k)  PROVE Kept(h)'
  BY Zenon, <1>4, AssertingKept DEF Ingest, Begin
<1>5. ASSUME NEW d \in Docs, Replace(w, d, k)  PROVE Kept(h)'
  BY Zenon, <1>5, AssertingKept DEF Replace
<1>6. ASSUME NEW d \in Docs, EmailCopy(w, d, k)  PROVE Kept(h)'
  <2>1. k = h => HasLink(h) \/ Held(h)  BY Zenon, <1>6 DEF EmailCopy, LinkedByDoc, HasLink
  <2> QED BY Zenon, <1>6, <2>1, AssertingKept DEF EmailCopy, Begin
<1>7. ASSUME NEW q \in QueueIds, QueueMessage(w, q, k)  PROVE Kept(h)'
  BY Zenon, <1>7, AssertingKept DEF QueueMessage, Begin
<1> QED BY Zenon, <1>1, <1>2, <1>3, <1>4, <1>5, <1>6, <1>7

\* A step of a request on h after its reservation: what it adds for h, it adds while the
\* content is there.
OwnStep(w, h) ==
  /\ AtWork(h) /\ Busy(w) /\ writer[w].hash = h
  /\ UNCHANGED <<now, purger>>
  /\ h \in blobs => h \in blobs'
  /\ \A r \in reserved : r.account \in Accounts => r \in reserved'
  /\ \A v \in Writers : v # w => writer'[v] = writer[v]
  /\ HasLink(h)' => HasLink(h) \/ h \in blobs'
  /\ \A g \in granted' : g.hash = h =>
       \/ g \in granted
       \/ /\ h \in blobs'
          /\ g.until > now => Uploading(w, h) /\ g.account = writer[w].owner /\ g.until = writer[w].until
  /\ h \in committed' => h \in committed \/ h \in blobs'
  /\ writer'[w].pc \in {"idle", "put"} \/ (writer'[w].pc \in {"commit", "link"} /\ h \in blobs')
  /\ Busy(w)' => /\ writer'[w].kind = writer[w].kind /\ writer[w].kind # "blob_copy"
                 /\ writer'[w].until = writer[w].until /\ writer'[w].owner = writer[w].owner
                 /\ writer'[w].hash = h /\ writer[w].pc \in {"exists", "put", "commit"}

LEMMA OwnKept ==
  ASSUME TypeInv, NEW h \in Hashes, Kept(h), NEW w \in Writers, OwnStep(w, h)
  PROVE  Kept(h)'
<1>1. \A v \in Writers : Uploading(v, h)' => /\ Uploading(v, h) /\ writer'[v].owner = writer[v].owner
                                             /\ writer'[v].until = writer[v].until
  BY Zenon DEF Uploading, Busy, OwnStep
<1>2. \A v \in Writers : Uploading(v, h) => writer[v].owner \in Accounts
  BY Zenon DEF Uploading, TypeInv, WritersOK, RequestOK, Busy
<1>3. LinkKept(h)'  BY Zenon DEF Kept, LinkKept, OwnStep
<1>4. UploadKept(h)'
  <2> SUFFICES ASSUME NEW v \in Writers, Uploading(v, h)'
               PROVE  \E r \in reserved' : r.account = writer'[v].owner /\ r.hash = h /\ r.until = writer'[v].until
    BY Zenon DEF UploadKept
  <2>1. PICK r \in reserved : r.account = writer[v].owner /\ r.hash = h /\ r.until = writer[v].until
    BY Zenon, <1>1 DEF Kept, UploadKept
  <2>2. r \in reserved'  BY Zenon, <1>1, <1>2, <2>1 DEF OwnStep
  <2> QED BY Zenon, <1>1, <2>1, <2>2
<1>5. GrantKept(h)'
  <2> SUFFICES ASSUME NEW g \in granted', g.hash = h, g.until > now
               PROVE  GrantHolds(g)' /\ h \in blobs'
    BY Zenon DEF GrantKept, OwnStep
  <2>1. CASE g \in granted
    <3>1. GrantHolds(g) /\ h \in blobs  BY Zenon, <2>1 DEF Kept, GrantKept
    <3>2. g.account \in Accounts  BY Zenon, <2>1, GrantType
    <3> QED BY Zenon, <3>1, <3>2 DEF GrantHolds, OwnStep
  <2>2. CASE g \notin granted
    <3>1. Uploading(w, h) /\ g.account = writer[w].owner /\ g.until = writer[w].until /\ h \in blobs'
      BY Zenon, <2>2 DEF OwnStep
    <3>2. PICK r \in reserved : r.account = writer[w].owner /\ r.hash = h /\ r.until = writer[w].until
      BY Zenon, <3>1 DEF Kept, UploadKept
    <3>3. r \in reserved'  BY Zenon, <1>2, <3>1, <3>2 DEF OwnStep
    <3> QED BY Zenon, <3>1, <3>2, <3>3 DEF GrantHolds, OwnStep
  <2> QED BY Zenon, <2>1, <2>2
<1>6. WorkKept(h)'
  <2> SUFFICES ASSUME NEW v \in Writers, Busy(v)', writer'[v].hash = h,
                      writer'[v].pc \in {"commit", "link"} \/ writer'[v].kind = "blob_copy"
               PROVE  h \in blobs'
    BY Zenon DEF WorkKept
  <2>1. CASE v = w  BY Zenon, <2>1 DEF OwnStep
  <2>2. CASE v # w  BY Zenon, <2>2 DEF Kept, WorkKept, Busy, OwnStep
  <2> QED BY Zenon, <2>1, <2>2
<1>7. ExistsKept(h)'
  <2> SUFFICES ASSUME NEW v \in Writers, writer'[v].pc = "exists", writer'[v].hash = h, h \in committed'
               PROVE  h \in blobs'
    BY Zenon DEF ExistsKept
  <2>1. v # w  BY Zenon DEF OwnStep
  <2> QED BY Zenon, <2>1 DEF Kept, ExistsKept, OwnStep
<1>8. ScanKept(h)'
  <2> SUFFICES ASSUME NEW p \in Purgers, purger[p].pc = "links", h \notin purger[p].active
               PROVE  ~Held(h)' /\ \A v \in Writers : ~Uploading(v, h)'
    BY Zenon DEF ScanKept, OwnStep
  <2>1. ~Held(h) /\ \A v \in Writers : ~Uploading(v, h)  BY Zenon DEF Kept, ScanKept
  <2> QED BY Zenon, <1>1, <2>1 DEF Held, OwnStep
<1>9. DoomKept(h)'  BY Zenon DEF Kept, DoomKept, OwnStep
<1> QED BY Zenon, <1>3, <1>4, <1>5, <1>6, <1>7, <1>8, <1>9 DEF Kept

\* A step of a request on another hash.
OtherStep(w, h) ==
  /\ UNCHANGED <<now, purger>>
  /\ blobs \subseteq blobs'
  /\ h \in committed' => h \in committed
  /\ HasLink(h)' => HasLink(h)
  /\ \A g \in granted' \ granted : g.hash # h
  /\ \A r \in reserved : r.account \in Accounts => \E s \in reserved' : SameKey(r, s)
  /\ \A v \in Writers : v # w => writer'[v] = writer[v]
  /\ Busy(w)' => writer'[w].hash # h

LEMMA OtherKept ==
  ASSUME TypeInv, NEW h \in Hashes, Kept(h), NEW w \in Writers, OtherStep(w, h)
  PROVE  Kept(h)'
<1>1. now \in Nat  BY Zenon, GrantType
<1>2. Calm(h)  BY <1>1 DEF Calm, OtherStep
<1>3. NoNewPurge  BY Zenon, SamePurge DEF OtherStep
<1> QED BY Zenon, <1>2, <1>3, CalmStep

LEMMA AnswerKept ==
  ASSUME TypeInv, NEW h \in Hashes, Kept(h), NEW w \in Writers, writer[w].pc \in {"exists", "commit"}, Answer(w),
         UNCHANGED <<now, reserved, links, blobs, purger>>,
         committed' \subseteq committed \cup {writer[w].hash},
         writer[w].hash = h => h \in blobs
  PROVE  Kept(h)'
<1> DEFINE r == writer[w]
<1>1. RequestOK(r) /\ r \in Requests /\ Busy(w)  BY Zenon, WriterType DEF Busy
<1>2. HasLink(h)' = HasLink(h)  BY DEF HasLink
<1>3. \A v \in Writers : v # w => writer'[v] = writer[v]
  BY Zenon DEF Answer, TypeInv, WritersOK
<1>4. /\ writer'[w].pc \in {"idle", "link"}
      /\ Busy(w)' => /\ writer'[w].kind = r.kind /\ writer'[w].until = r.until
                     /\ writer'[w].owner = r.owner /\ writer'[w].hash = r.hash
  BY SMTT(30), <1>1 DEF Answer, TypeInv, WritersOK, NoRequest, Requests, Busy
<1>5. \A g \in granted' \ granted : r.kind = "upload" /\ g.hash = r.hash /\ g.account = r.owner /\ g.until = r.until
  BY SMTT(30) DEF Answer, Grant
<1>6. CASE r.hash = h
  <2>1. AtWork(h)  BY Zenon, <1>1, <1>6 DEF AtWork
  <2>2. r.kind # "blob_copy"  BY Zenon, <1>1 DEF RequestOK
  <2>3. \A g \in granted' \ granted : g.until > now => Uploading(w, h)  BY Zenon, <1>5, <1>6 DEF Uploading
  <2> QED BY Zenon, <1>1, <1>2, <1>3, <1>4, <1>5, <1>6, <2>1, <2>2, <2>3, OwnKept DEF OwnStep
<1>7. CASE r.hash # h
  BY Zenon, <1>1, <1>2, <1>3, <1>4, <1>5, <1>7, OtherKept DEF OtherStep, SameKey
<1> QED BY Zenon, <1>6, <1>7

LEMMA ExistsStep ==
  ASSUME TypeInv, NEW h \in Hashes, Kept(h), NEW w \in Writers, Exists(w)
  PROVE  Kept(h)'
<1> DEFINE r == writer[w]
<1>1. RequestOK(r) /\ r \in Requests /\ Busy(w) /\ r.pc = "exists"  BY WriterType DEF Busy, Exists
<1>2. UNCHANGED <<now, reserved, links, committed, blobs, purger>>  BY Zenon DEF Exists, rows
<1>3. CASE r.hash \in committed /\ Answer(w)
  <2>1. r.hash = h => h \in blobs  BY Zenon, <1>1, <1>3 DEF Kept, ExistsKept
  <2> QED BY Zenon, <1>1, <1>2, <1>3, <2>1, AnswerKept
<1>4. CASE writer' = [writer EXCEPT ![w] = [r EXCEPT !.pc = "put"]] /\ UNCHANGED granted
  <2>1. HasLink(h)' = HasLink(h)  BY <1>2 DEF HasLink
  <2>2. \A v \in Writers : v # w => writer'[v] = writer[v]  BY <1>4 DEF TypeInv, WritersOK
  <2>3. /\ writer'[w].pc = "put" /\ writer'[w].kind = r.kind /\ writer'[w].until = r.until
        /\ writer'[w].owner = r.owner /\ writer'[w].hash = r.hash
    BY Zenon, <1>1, <1>4 DEF TypeInv, WritersOK, Requests
  <2>4. CASE r.hash = h
    <3>1. AtWork(h)  BY Zenon, <1>1, <2>4 DEF AtWork
    <3>2. r.kind # "blob_copy"  BY <1>1 DEF RequestOK
    <3> QED BY Zenon, <1>1, <1>2, <1>4, <2>1, <2>2, <2>3, <2>4, <3>1, <3>2, OwnKept DEF OwnStep
  <2>5. CASE r.hash # h
    BY Zenon, <1>1, <1>2, <1>4, <2>1, <2>2, <2>3, <2>5, OtherKept DEF OtherStep, SameKey
  <2> QED BY Zenon, <2>4, <2>5
<1> QED BY Zenon, <1>3, <1>4 DEF Exists

LEMMA PutStep ==
  ASSUME TypeInv, NEW h \in Hashes, Kept(h), NEW w \in Writers, Put(w)
  PROVE  Kept(h)'
<1> DEFINE r == writer[w]
<1>1. RequestOK(r) /\ r \in Requests /\ Busy(w) /\ r.pc = "put"  BY WriterType DEF Busy, Put
<1>2. UNCHANGED <<now, reserved, links, committed, purger, granted>> /\ blobs' = blobs \cup {r.hash}
  BY Zenon DEF Put, rows
<1>3. HasLink(h)' = HasLink(h)  BY <1>2 DEF HasLink
<1>4. \A v \in Writers : v # w => writer'[v] = writer[v]  BY DEF Put, TypeInv, WritersOK
<1>5. /\ writer'[w].pc \in {"commit", "link"} /\ writer'[w].kind = r.kind /\ writer'[w].until = r.until
      /\ writer'[w].owner = r.owner /\ writer'[w].hash = r.hash
  BY Zenon, <1>1 DEF Put, TypeInv, WritersOK, Requests
<1>6. CASE r.hash = h
  <2>1. AtWork(h)  BY Zenon, <1>1, <1>6 DEF AtWork
  <2>2. r.kind # "blob_copy"  BY Zenon, <1>1 DEF RequestOK
  <2> QED BY Zenon, <1>1, <1>2, <1>3, <1>4, <1>5, <1>6, <2>1, <2>2, OwnKept DEF OwnStep
<1>7. CASE r.hash # h
  BY Zenon, <1>1, <1>2, <1>3, <1>4, <1>5, <1>7, OtherKept DEF OtherStep, SameKey
<1> QED BY Zenon, <1>6, <1>7

LEMMA CommitStep ==
  ASSUME TypeInv, NEW h \in Hashes, Kept(h), NEW w \in Writers, Commit(w)
  PROVE  Kept(h)'
<1>1. writer[w].hash = h => h \in blobs  BY Zenon DEF Commit, Kept, WorkKept, Busy
<1> QED BY Zenon, <1>1, AnswerKept DEF Commit

LEMMA WriteLinkStep ==
  ASSUME BlobAssumption, TypeInv, NEW h \in Hashes, Kept(h), NEW w \in Writers, WriteLink(w)
  PROVE  Kept(h)'
<1> DEFINE r == writer[w]
<1>1. RequestOK(r) /\ r \in Requests /\ Busy(w) /\ r.pc = "link"  BY Zenon, WriterType DEF Busy, WriteLink
<1>2. UNCHANGED <<now, blobs, purger, granted>>  BY Zenon DEF WriteLink
<1>3. HasLink(h)' => HasLink(h) \/ r.hash = h  BY DEF WriteLink, HasLink
<1>4. h \in committed' => h \in committed \/ r.hash = h  BY Zenon DEF WriteLink
<1>5. \A x \in reserved : x.account \in Accounts => x \in reserved'
  BY Zenon DEF WriteLink, SameRow, BlobAssumption
<1>6. \A v \in Writers : v # w => writer'[v] = writer[v]  BY Zenon DEF WriteLink, TypeInv, WritersOK
<1>7. writer'[w].pc = "idle" /\ ~Busy(w)'  BY Zenon DEF WriteLink, TypeInv, WritersOK, NoRequest, Busy
<1>8. CASE r.hash = h
  <2>1. AtWork(h)  BY Zenon, <1>1, <1>8 DEF AtWork
  <2>2. h \in blobs  BY Zenon, <1>1, <1>8 DEF Kept, WorkKept
  <2> QED BY Zenon, <1>1, <1>2, <1>5, <1>6, <1>7, <1>8, <2>1, <2>2, OwnKept DEF OwnStep
<1>9. CASE r.hash # h
  BY Zenon, <1>1, <1>2, <1>3, <1>4, <1>5, <1>6, <1>7, <1>9, OtherKept DEF OtherStep, SameKey
<1> QED BY Zenon, <1>8, <1>9

\* A reservation is written when no purge can have missed it, or the hash counts as
\* overlapped.
LEMMA ReserveStep ==
  ASSUME BlobAssumption, TypeInv, NEW h \in Hashes, Kept(h), NEW w \in Writers, Reserve(w), h \notin overlapped'
  PROVE  Kept(h)'
<1> DEFINE r == writer[w]
           until == now + Ttl
<1>1. RequestOK(r) /\ r \in Requests /\ Busy(w) /\ r.pc = "reserve"  BY WriterType DEF Busy, Reserve
<1>2. UNCHANGED <<now, links, committed, blobs, purger>>  BY Zenon DEF Reserve
<1>3. HasLink(h)' = HasLink(h)  BY <1>2 DEF HasLink
<1>4. \A v \in Writers : v # w => writer'[v] = writer[v]  BY DEF Reserve, TypeInv, WritersOK
<1>5. /\ writer'[w].pc \in {"idle", "put", "exists"}
      /\ Busy(w)' => /\ writer'[w].kind = r.kind /\ r.kind # "blob_copy" /\ writer'[w].until = until
                     /\ writer'[w].owner = r.owner /\ writer'[w].hash = r.hash
  <2> DEFINE x == [r EXCEPT !.until = until, !.pc = IF r.kind = "queue" THEN "put" ELSE "exists"]
  <2>1. CASE writer' = [writer EXCEPT ![w] = NoRequest]
    BY Zenon, <2>1 DEF TypeInv, WritersOK, NoRequest, Busy
  <2>2. CASE r.kind # "blob_copy" /\ writer' = [writer EXCEPT ![w] = x]
    <3>1. x.pc \in {"put", "exists"} /\ x.kind = r.kind /\ x.until = until /\ x.owner = r.owner /\ x.hash = r.hash
      BY Zenon, <1>1 DEF Requests
    <3>2. writer'[w] = x  BY Zenon, <2>2 DEF TypeInv, WritersOK
    <3> HIDE DEF x
    <3> QED BY Zenon, <2>2, <3>1, <3>2
  <2> QED BY Zenon, <2>1, <2>2 DEF Reserve
<1>6. /\ \A x \in reserved : \E y \in reserved' : SameKey(x, y)
      /\ \E y \in reserved' : y.account = ReserveAccount(r) /\ y.hash = r.hash /\ y.until = until
  <2>1. PICK row : row = [account |-> ReserveAccount(r), hash |-> r.hash, until |-> until,
                          counted |-> r.kind = "upload"]
    BY Zenon
  <2>2. reserved' = {x \in reserved : ~SameRow(x, ReserveAccount(r), r.hash, until)} \cup {row}
    BY Zenon, <2>1 DEF Reserve, SetReservation
  <2>3. row.account = ReserveAccount(r) /\ row.hash = r.hash /\ row.until = until  BY <2>1
  <2> QED BY Zenon, <2>2, <2>3 DEF SameRow, SameKey
<1>7. \A g \in granted' \ granted : r.kind = "blob_copy" /\ g.hash = r.hash /\ g.account = r.owner /\ g.until = until
  BY DEF Reserve, Grant
<1>8. CASE r.hash # h
  BY Zenon, <1>1, <1>2, <1>3, <1>4, <1>5, <1>6, <1>7, <1>8, OtherKept DEF OtherStep
<1>9. CASE r.hash = h
  <2>1. ~BeingPurged(h)  BY Zenon, <1>9 DEF Reserve
  <2>2. ScanKept(h)' /\ DoomKept(h)'  BY Zenon, <1>2, <2>1 DEF BeingPurged, ScanKept, DoomKept
  <2>3. LinkKept(h)'  BY Zenon, <1>2, <1>3 DEF Kept, LinkKept
  <2>4. WorkKept(h)'  BY Zenon, <1>2, <1>4, <1>5 DEF Kept, WorkKept, Busy
  <2>5. ExistsKept(h)'  BY Zenon, <1>2, <2>1 DEF BeingPurged, ExistsKept
  <2>6. PICK row \in reserved' : row.account = ReserveAccount(r) /\ row.hash = h /\ row.until = until
    BY Zenon, <1>6, <1>9
  <2>7. until > now  BY DEF TypeInv, RowsOK, BlobAssumption
  <2>8. GrantKept(h)'
    <3> SUFFICES ASSUME NEW g \in granted', g.hash = h, g.until > now
                 PROVE  GrantHolds(g)' /\ h \in blobs
      BY Zenon, <1>2 DEF GrantKept
    <3>1. CASE g \in granted
      <4>1. GrantHolds(g) /\ h \in blobs  BY Zenon, <3>1 DEF Kept, GrantKept
      <4>2. PICK x \in reserved : x.account = g.account /\ x.hash = g.hash /\ x.until = g.until
        BY Zenon, <4>1 DEF GrantHolds
      <4>3. PICK y \in reserved' : SameKey(x, y)  BY Zenon, <1>6
      <4> QED BY Zenon, <1>2, <4>1, <4>2, <4>3 DEF GrantHolds, SameKey
    <3>2. CASE g \notin granted
      <4>1. r.kind = "blob_copy" /\ g.account = r.owner /\ g.until = until  BY Zenon, <1>7, <3>2
      <4>2. h \in blobs  BY Zenon, <1>1, <1>9, <4>1 DEF Kept, WorkKept
      <4>3. ReserveAccount(r) = r.owner  BY Zenon, <1>1, <4>1, ReserveType
      <4> QED BY Zenon, <1>2, <2>6, <4>1, <4>2, <4>3 DEF GrantHolds
    <3> QED BY Zenon, <3>1, <3>2
  <2>9. UploadKept(h)'
    <3> SUFFICES ASSUME NEW v \in Writers, Uploading(v, h)'
                 PROVE  \E x \in reserved' : x.account = writer'[v].owner /\ x.hash = h /\ x.until = writer'[v].until
      BY Zenon DEF UploadKept
    <3>1. CASE v = w
      <4>1. r.kind = "upload" /\ writer'[w].until = until /\ writer'[w].owner = r.owner
        BY Zenon, <1>5, <3>1 DEF Uploading, Busy
      <4>2. ReserveAccount(r) = r.owner  BY Zenon, <1>1, <4>1, ReserveType
      <4> QED BY Zenon, <2>6, <3>1, <4>1, <4>2
    <3>2. CASE v # w
      <4>1. Uploading(v, h) /\ writer'[v] = writer[v]  BY Zenon, <1>2, <1>4, <3>2 DEF Uploading
      <4>2. PICK x \in reserved : x.account = writer[v].owner /\ x.hash = h /\ x.until = writer[v].until
        BY Zenon, <4>1 DEF Kept, UploadKept
      <4>3. PICK y \in reserved' : SameKey(x, y)  BY Zenon, <1>6
      <4> QED BY Zenon, <4>1, <4>2, <4>3 DEF SameKey
    <3> QED BY Zenon, <3>1, <3>2
  <2> QED BY Zenon, <2>2, <2>3, <2>4, <2>5, <2>8, <2>9 DEF Kept
<1> QED BY Zenon, <1>8, <1>9

\* The scan of the reservations sees every BlobId that is or will be handed out.
LEMMA ScanReservedStep ==
  ASSUME BlobAssumption, TypeInv, NEW h \in Hashes, Kept(h), NEW p \in Purgers, ScanReserved(p)
  PROVE  Kept(h)'
<1>1. UNCHANGED <<now, reserved, links, committed, blobs, writer, granted>>  BY Zenon DEF ScanReserved, rows
<1>2. LinkKept(h)' /\ GrantKept(h)' /\ WorkKept(h)' /\ ExistsKept(h)' /\ UploadKept(h)'
  <2>1. Calm(h)  BY <1>1, GrantType DEF Calm, HasLink, SameKey
  <2> QED BY Zenon, <2>1, CalmKept
<1>3. /\ Held(h)' = Held(h) /\ AtWork(h)' = AtWork(h) /\ HasLink(h)' = HasLink(h)
      /\ \A w \in Writers : Uploading(w, h)' = Uploading(w, h)
  BY Zenon, <1>1 DEF Held, AtWork, HasLink, Uploading, Busy
<1>4. \A o \in Purgers : o # p => purger'[o] = purger[o]  BY Zenon DEF ScanReserved, TypeInv, PurgersOK
<1>5. purger'[p].pc = "links"  BY Zenon DEF ScanReserved, TypeInv, PurgersOK
<1>6. ASSUME NEW r \in reserved, r.account \in Accounts, r.hash = h, r.until > now
      PROVE  h \in purger'[p].active
  <2>1. r.account # MaxAccount /\ ~(r.until <= now)  BY <1>6, GrantType DEF BlobAssumption
  <2> QED BY Zenon, <1>6, <2>1 DEF ScanReserved, TypeInv, PurgersOK
<1>7. ScanKept(h)'
  <2> SUFFICES ASSUME NEW o \in Purgers, purger'[o].pc = "links", h \notin purger'[o].active
               PROVE  ~Held(h) /\ \A w \in Writers : ~Uploading(w, h)
    BY Zenon, <1>3 DEF ScanKept
  <2>1. CASE o # p  BY Zenon, <1>4, <2>1 DEF Kept, ScanKept
  <2>2. CASE o = p
    <3>1. ~Held(h)  BY Zenon, <1>6, <2>2, GrantType DEF Held, Kept, GrantKept, GrantHolds
    <3>2. \A w \in Writers : Uploading(w, h) => writer[w].owner \in Accounts
      BY Zenon DEF Uploading, TypeInv, WritersOK, RequestOK, Busy
    <3>3. \A w \in Writers : ~Uploading(w, h)
      BY Zenon, <1>6, <2>2, <3>2 DEF Uploading, Kept, UploadKept
    <3> QED BY Zenon, <3>1, <3>3
  <2> QED BY Zenon, <2>1, <2>2
<1>8. DoomKept(h)'  BY Zenon, <1>3, <1>4, <1>5 DEF Kept, DoomKept
<1> QED BY Zenon, <1>2, <1>7, <1>8 DEF Kept

\* When no queue id ends in u32::MAX, the scan of the links dooms what nothing refers to.
LEMMA ScanLinksStep ==
  ASSUME BlobAssumption, AllOnes = {}, TypeInv, NEW h \in Hashes, Kept(h), NEW p \in Purgers, ScanLinks(p),
         h \notin overlapped'
  PROVE  Kept(h)'
<1>1. UNCHANGED <<now, reserved, links, committed, blobs, writer, granted>>  BY Zenon DEF ScanLinks, rows
<1>2. LinkKept(h)' /\ GrantKept(h)' /\ WorkKept(h)' /\ ExistsKept(h)' /\ UploadKept(h)'
  <2>1. Calm(h)  BY <1>1, GrantType DEF Calm, HasLink, SameKey
  <2> QED BY Zenon, <2>1, CalmKept
<1>3. /\ Held(h)' = Held(h) /\ AtWork(h)' = AtWork(h) /\ HasLink(h)' = HasLink(h)
      /\ \A w \in Writers : Uploading(w, h)' = Uploading(w, h)
  BY Zenon, <1>1 DEF Held, AtWork, HasLink, Uploading, Busy
<1>4. \A o \in Purgers : o # p => purger'[o] = purger[o]  BY Zenon DEF ScanLinks, TypeInv, PurgersOK
<1>5. purger'[p].pc = "delete" /\ purger[p].pc = "links"  BY Zenon DEF ScanLinks, TypeInv, PurgersOK
<1>6. ASSUME h \in purger'[p].doomed
      PROVE  ~HasLink(h) /\ ~AtWork(h) /\ ~Held(h)
  <2>1. Unreferenced(h, purger[p].active)  BY Zenon, <1>6 DEF ScanLinks, TypeInv, PurgersOK
  <2>2. ~AtWork(h)  BY Zenon, <2>1 DEF ScanLinks
  <2>3. ~Held(h)  BY Zenon, <1>5, <2>1 DEF Unreferenced, Kept, ScanKept
  <2>4. ASSUME NEW l \in links, l.hash = h  PROVE FALSE
    <3>1. l.owner \in Docs \cup QueueIds  BY Zenon DEF TypeInv, RowsOK, Link
    <3>2. l.owner \notin Docs  BY Zenon, <2>1, <2>4 DEF Unreferenced, LinkedByDoc
    <3>3. l.owner \in {x.owner : x \in {y \in links : y.hash = h /\ y.owner \in QueueIds}}
      BY Zenon, <2>4, <3>1, <3>2
    <3> QED BY Zenon, <2>1, <3>3 DEF Unreferenced
  <2> QED BY Zenon, <2>2, <2>3, <2>4 DEF HasLink
<1>7. ScanKept(h)'  BY Zenon, <1>3, <1>4, <1>5 DEF Kept, ScanKept
<1>8. DoomKept(h)'  BY Zenon, <1>3, <1>4, <1>6 DEF Kept, DoomKept
<1> QED BY Zenon, <1>2, <1>7, <1>8 DEF Kept

LEMMA DeleteBlobStep ==
  ASSUME TypeInv, NEW h \in Hashes, Kept(h), NEW p \in Purgers, NEW k \in Hashes, DeleteBlob(p, k)
  PROVE  Kept(h)'
<1>1. UNCHANGED <<now, reserved, links, committed, writer, granted>> /\ blobs' = blobs \ {k}
  BY Zenon DEF DeleteBlob, rows
<1>2. NoNewPurge
  <2>1. purger[p] \in [pc : {"delete"}, expired : SUBSET Reservation, doomed : SUBSET Hashes, left : SUBSET Hashes]
    BY Zenon, PurgerType DEF DeleteBlob
  <2> QED BY Zenon, <2>1 DEF DeleteBlob, NoNewPurge, TypeInv, PurgersOK
<1>3. CASE k # h
  <2>1. Calm(h)  BY <1>1, <1>3, GrantType DEF Calm, HasLink, SameKey
  <2> QED BY Zenon, <1>2, <2>1, CalmStep
<1>4. CASE k = h
  <2>1. h \in purger[p].doomed /\ purger[p].pc = "delete"  BY Zenon, <1>4 DEF DeleteBlob, TypeInv, PurgersOK
  <2>2. ~HasLink(h) /\ ~AtWork(h) /\ ~Held(h)  BY Zenon, <2>1 DEF Kept, DoomKept
  <2>3. ~HasLink(h)' /\ ~AtWork(h)' /\ ~Held(h)'  BY Zenon, <1>1, <2>2 DEF HasLink, AtWork, Held, Busy
  <2>4. LinkKept(h)' /\ GrantKept(h)'  BY Zenon, <2>3 DEF LinkKept, GrantKept, Held
  <2>5. WorkKept(h)' /\ ExistsKept(h)'  BY Zenon, <2>3 DEF WorkKept, ExistsKept, AtWork, Busy
  <2>6. \A w \in Writers : ~Uploading(w, h)'  BY Zenon, <2>3 DEF Uploading, AtWork, Busy
  <2> QED BY Zenon, <2>3, <2>4, <2>5, <2>6 DEF Kept, UploadKept, ScanKept, DoomKept
<1> QED BY Zenon, <1>3, <1>4

LEMMA KeptStep ==
  ASSUME BlobAssumption, AllOnes = {}, KeptInv, [Next]_vars
  PROVE  KeptInv'
<1>1. TypeInv'  BY Zenon, TypeStep DEF KeptInv
<1>2. overlapped \subseteq overlapped'
  <2>1. ASSUME NEW w \in Writers, Request(w)  PROVE overlapped' = overlapped
    BY <2>1, Zenon DEF Request, Upload, BlobCopy, Ingest, Replace, EmailCopy, QueueMessage, Begin, Asserting
  <2>2. ASSUME NEW w \in Writers, Work(w) \/ Abort(w)  PROVE overlapped \subseteq overlapped'
    BY Zenon, <2>2 DEF Work, Reserve, Exists, Put, Commit, WriteLink, ReplaceRefused, Abort
  <2>3. ASSUME NEW p \in Purgers, Purge(p) \/ PurgeFails(p)  PROVE overlapped \subseteq overlapped'
    BY Zenon, <2>3 DEF Purge, ScanReserved, ScanLinks, DeleteBlob, ClearRows, PurgeFails
  <2>4. CASE Tick \/ UNCHANGED vars  BY Zenon, <2>4 DEF Tick, vars
  <2>5. CASE (\E l \in links : Unlink(l)) \/ (\E a \in Accounts : UnlinkAccount(a))
    BY Zenon, <2>5 DEF Unlink, UnlinkAccount
  <2> QED BY Zenon, <2>1, <2>2, <2>3, <2>4, <2>5 DEF Next
<1>3. ASSUME NEW h \in Hashes, h \notin overlapped'
      PROVE  Kept(h)'
  <2>1. Kept(h) /\ TypeInv  BY Zenon, <1>2, <1>3 DEF KeptInv
  <2>2. ASSUME NEW w \in Writers, Request(w) \/ Work(w) \/ Abort(w)  PROVE Kept(h)'
    BY Zenon, <1>3, <2>1, <2>2, RequestKept, ReserveStep, ExistsStep, PutStep, CommitStep, WriteLinkStep, QuietEnd, QuietKept
       DEF Work
  <2>3. ASSUME NEW p \in Purgers, Purge(p) \/ PurgeFails(p)  PROVE Kept(h)'
    BY Zenon, <1>3, <2>1, <2>3, ScanReservedStep, ScanLinksStep, DeleteBlobStep, ClearRowsStep, QuietFail, QuietKept DEF Purge
  <2>4. CASE Tick \/ UNCHANGED vars  BY Zenon, <2>1, <2>4, QuietTick, QuietKept
  <2>5. CASE (\E l \in links : Unlink(l)) \/ (\E a \in Accounts : UnlinkAccount(a))
    BY Zenon, <2>1, <2>5, QuietUnlink, QuietKept
  <2> QED BY Zenon, <2>2, <2>3, <2>4, <2>5 DEF Next
<1> QED BY Zenon, <1>1, <1>3 DEF KeptInv

LEMMA KeptInit ==
  ASSUME BlobAssumption, Init
  PROVE  KeptInv
<1>1. TypeInv  BY Zenon, TypeInit
<1>2. ASSUME NEW h \in Hashes  PROVE Kept(h)
  BY Zenon DEF Init, Kept, LinkKept, GrantKept, WorkKept, ExistsKept, UploadKept, ScanKept, DoomKept, HasLink, Held,
         Uploading, Busy, NoRequest, NoPurge
<1> QED BY Zenon, <1>1, <1>2 DEF KeptInv

\* A linked content and an unexpired BlobId's content are never lost, however many
\* requests and purges run, unless a purge and a request for the content overlapped; this
\* assumes that no queue id ends in u32::MAX.
THEOREM PromisesAreKept ==
  ASSUME AllOnes = {}
  PROVE  Spec => []PromisesKept
<1>1. Init => KeptInv  BY Zenon, BlobAssumption, KeptInit
<1>2. KeptInv /\ [Next]_vars => KeptInv'  BY Zenon, BlobAssumption, KeptStep
<1>3. KeptInv => PromisesKept
  BY Zenon DEF KeptInv, Kept, LinkKept, GrantKept, PromisesKept
<1> QED BY <1>1, <1>2, <1>3, PTL DEF Spec

-----------------------------------------------------------------------------
(* Temporary blobs stay near their quota, for any number of accounts,      *)
(* quotas and requests at once.                                            *)


\* The inductive invariant of UploadsBounded.
BoundInv == TypeInv /\ IsFiniteSet(reserved) /\ UploadsBounded

UploadsOf(a) == Cardinality(Counted(a)) + Cardinality(Pending(a))

LEMMA Countable ==
  ASSUME BlobAssumption, IsFiniteSet(reserved), NEW a
  PROVE  /\ IsFiniteSet(Counted(a)) /\ Cardinality(Counted(a)) \in Nat
         /\ IsFiniteSet(Pending(a)) /\ Cardinality(Pending(a)) \in Nat
         /\ Cardinality(Pending(a)) <= Cardinality(Writers) /\ Cardinality(Writers) \in Nat
<1>1. Counted(a) \subseteq reserved  BY DEF Counted
<1>2. Pending(a) \subseteq Writers  BY DEF Pending
<1> QED BY Zenon, <1>1, <1>2, FS_Subset, FS_CardinalityType DEF BlobAssumption

\* A step that counts and checks nothing more keeps an account within its bound.
LEMMA FewerUploads ==
  ASSUME BlobAssumption, IsFiniteSet(reserved), NEW a,
         UploadsOf(a) < UploadQuota + Cardinality(Writers),
         Counted(a)' \subseteq Counted(a), Pending(a)' \subseteq Pending(a)
  PROVE  UploadsOf(a)' < UploadQuota + Cardinality(Writers)
<1>1. PICK c, d, c1, d1, n : /\ c = Cardinality(Counted(a)) /\ d = Cardinality(Pending(a))
                             /\ c1 = Cardinality(Counted(a)') /\ d1 = Cardinality(Pending(a)')
                             /\ n = Cardinality(Writers)
  BY Zenon
<1>2. c \in Nat /\ d \in Nat /\ n \in Nat  BY Zenon, <1>1, Countable
<1>3. c1 \in Nat /\ c1 <= c  BY Zenon, <1>1, Countable, FS_Subset, FS_CardinalityType
<1>4. d1 \in Nat /\ d1 <= d  BY Zenon, <1>1, Countable, FS_Subset, FS_CardinalityType
<1>5. UploadsOf(a) = c + d /\ UploadsOf(a)' = c1 + d1  BY <1>1 DEF UploadsOf
<1>6. UploadQuota \in Nat  BY DEF BlobAssumption
<1> QED BY SMTT(30), <1>1, <1>2, <1>3, <1>4, <1>5, <1>6

\* The rows and the checked uploads of no account grow.
NoMoreUploads ==
  /\ reserved' \subseteq reserved
  /\ now' \in Nat /\ now' >= now
  /\ \A w \in Writers : writer'[w].pc = "reserve" /\ writer'[w].kind = "upload" => writer'[w] = writer[w]

LEMMA BoundKept ==
  ASSUME BlobAssumption, BoundInv, NoMoreUploads
  PROVE  IsFiniteSet(reserved') /\ UploadsBounded'
<1>1. IsFiniteSet(reserved')  BY FS_Subset DEF BoundInv, NoMoreUploads
<1>2. ASSUME NEW a \in Accounts
      PROVE  UploadsOf(a)' < UploadQuota + Cardinality(Writers)
  <2>1. Counted(a)' \subseteq Counted(a)
    <3>1. \A r \in reserved : r.until \in Nat  BY DEF BoundInv, TypeInv, RowsOK, Reservation
    <3> QED BY SMTT(30), <3>1 DEF Counted, NoMoreUploads, BoundInv, TypeInv, RowsOK
  <2>2. Pending(a)' \subseteq Pending(a)  BY DEF Pending, NoMoreUploads
  <2>3. UploadsOf(a) < UploadQuota + Cardinality(Writers)
    BY Zenon DEF BoundInv, UploadsBounded, UploadsOf
  <2> QED BY Zenon, <2>1, <2>2, <2>3, FewerUploads DEF BoundInv
<1> QED BY Zenon, <1>1, <1>2 DEF UploadsBounded, UploadsOf

LEMMA UploadBound ==
  ASSUME BlobAssumption, BoundInv, NEW w \in Writers, NEW a \in Accounts, NEW h \in Hashes, Upload(w, a, h)
  PROVE  IsFiniteSet(reserved') /\ UploadsBounded'
<1>1. reserved' = reserved /\ now' = now  BY DEF Upload, Begin, Asserting, rows
<1>2. ASSUME NEW b \in Accounts
      PROVE  UploadsOf(b)' < UploadQuota + Cardinality(Writers)
  <2>1. Counted(b)' = Counted(b)  BY Zenon, <1>1 DEF Counted
  <2>2. CASE b = a
    <3>1. PICK c, d1, n : c = Cardinality(Counted(a)) /\ d1 = Cardinality(Pending(a)') /\ n = Cardinality(Writers)
      BY Zenon
    <3>2. c \in Nat /\ n \in Nat  BY Zenon, <3>1, Countable DEF BoundInv
    <3>3. Pending(a)' \subseteq Writers  BY DEF Pending
    <3>4. d1 \in Nat /\ d1 <= n  BY Zenon, <3>1, <3>3, FS_Subset, FS_CardinalityType DEF BlobAssumption
    <3>5. c + 1 <= UploadQuota  BY Zenon, <3>1 DEF Upload
    <3>6. UploadQuota \in Nat  BY DEF BlobAssumption
    <3>7. UploadsOf(b)' = c + d1  BY Zenon, <2>1, <2>2, <3>1 DEF UploadsOf
    <3> QED BY SMTT(30), <3>1, <3>2, <3>4, <3>5, <3>6, <3>7
  <2>3. CASE b # a
    <3>1. Pending(b)' \subseteq Pending(b)
      <4>1. \A v \in Writers : v # w => writer'[v] = writer[v]
        BY Zenon DEF Upload, Begin, Asserting, BoundInv, TypeInv, WritersOK
      <4>2. writer'[w].owner = a  BY DEF Upload, Begin, Asserting, BoundInv, TypeInv, WritersOK
      <4> QED BY Zenon, <2>3, <4>1, <4>2 DEF Pending
    <3>2. UploadsOf(b) < UploadQuota + Cardinality(Writers)
      BY Zenon DEF BoundInv, UploadsBounded, UploadsOf
    <3> QED BY Zenon, <2>1, <3>1, <3>2, FewerUploads DEF BoundInv
  <2> QED BY Zenon, <2>2, <2>3
<1> QED BY Zenon, <1>1, <1>2 DEF BoundInv, UploadsBounded, UploadsOf

\* The reservation of a checked upload takes the place of the check.
LEMMA ReserveBound ==
  ASSUME BlobAssumption, BoundInv, NEW w \in Writers, Reserve(w)
  PROVE  IsFiniteSet(reserved') /\ UploadsBounded'
<1> DEFINE r == writer[w]
<1>1. PICK row : row = [account |-> ReserveAccount(r), hash |-> r.hash, until |-> now + Ttl,
                        counted |-> r.kind = "upload"]
  BY Zenon
<1>2. reserved' \subseteq reserved \cup {row} /\ now' = now
  BY Zenon, <1>1 DEF Reserve, SetReservation
<1>3. IsFiniteSet(reserved')
  <2>1. IsFiniteSet(reserved \cup {row})  BY FS_AddElement DEF BoundInv
  <2> QED BY Zenon, <1>2, <2>1, FS_Subset
<1>4. RequestOK(r)  BY WriterType DEF Reserve, BoundInv
<1>5. \A v \in Writers : v # w => writer'[v] = writer[v]
  BY Zenon DEF Reserve, BoundInv, TypeInv, WritersOK
<1>6. writer'[w].pc # "reserve"
  <2>1. r \in Requests  BY <1>4 DEF RequestOK
  <2> DEFINE x == [r EXCEPT !.until = now + Ttl, !.pc = IF r.kind = "queue" THEN "put" ELSE "exists"]
  <2>2. writer' = [writer EXCEPT ![w] = NoRequest] \/ writer' = [writer EXCEPT ![w] = x]
    BY Zenon DEF Reserve
  <2>3. x.pc # "reserve" /\ NoRequest.pc # "reserve"  BY Zenon, <2>1 DEF NoRequest, Requests
  <2> HIDE DEF x
  <2> QED BY Zenon, <2>2, <2>3 DEF BoundInv, TypeInv, WritersOK
<1>7. ASSUME NEW a \in Accounts
      PROVE  UploadsOf(a)' < UploadQuota + Cardinality(Writers)
  <2>1. Pending(a)' \subseteq Pending(a) /\ w \notin Pending(a)'  BY Zenon, <1>5, <1>6 DEF Pending
  <2>2. UploadsOf(a) < UploadQuota + Cardinality(Writers)
    BY Zenon DEF BoundInv, UploadsBounded, UploadsOf
  <2>3. CASE r.kind = "upload" /\ r.owner = a
    <3>1. w \in Pending(a)  BY Zenon, <2>3 DEF Reserve, Pending
    <3>2. Counted(a)' \subseteq Counted(a) \cup {row}  BY Zenon, <1>2 DEF Counted
    <3>3. PICK c, d, c1, d1, n : /\ c = Cardinality(Counted(a)) /\ d = Cardinality(Pending(a))
                                 /\ c1 = Cardinality(Counted(a)') /\ d1 = Cardinality(Pending(a)')
                                 /\ n = Cardinality(Writers)
      BY Zenon
    <3>4. c \in Nat /\ d \in Nat /\ n \in Nat /\ IsFiniteSet(Counted(a)) /\ IsFiniteSet(Pending(a))
      BY Zenon, <3>3, Countable DEF BoundInv
    <3>5. c1 \in Nat /\ c1 <= c + 1
      <4>1. IsFiniteSet(Counted(a) \cup {row})  BY Zenon, <3>4, FS_AddElement
      <4>2. Cardinality(Counted(a) \cup {row}) \in Nat /\ Cardinality(Counted(a) \cup {row}) <= c + 1
        BY SMTT(20), <3>3, <3>4, <4>1, FS_AddElement, FS_CardinalityType
      <4>3. c1 \in Nat /\ c1 <= Cardinality(Counted(a) \cup {row})
        BY Zenon, <3>2, <3>3, <4>1, FS_Subset, FS_CardinalityType
      <4> QED BY SMTT(30), <3>4, <4>2, <4>3
    <3>6. d1 \in Nat /\ d1 <= d - 1
      <4>1. IsFiniteSet(Pending(a) \ {w}) /\ Cardinality(Pending(a) \ {w}) = d - 1
        BY Zenon, <3>1, <3>3, <3>4, FS_RemoveElement
      <4>2. Pending(a)' \subseteq Pending(a) \ {w}  BY <2>1
      <4> QED BY SMTT(30), <3>3, <4>1, <4>2, FS_Subset, FS_CardinalityType
    <3>7. UploadsOf(a) = c + d /\ UploadsOf(a)' = c1 + d1  BY Zenon, <3>3 DEF UploadsOf
    <3>8. UploadQuota \in Nat  BY Zenon DEF BlobAssumption
    <3> QED BY SMTT(30), <2>2, <3>3, <3>4, <3>5, <3>6, <3>7, <3>8
  <2>4. CASE ~(r.kind = "upload" /\ r.owner = a)
    <3>1. Counted(a)' \subseteq Counted(a)
      <4>1. ~(row.account = a /\ row.counted)
        BY Zenon, <1>1, <1>4, <2>4, ReserveType DEF Reserve
      <4> QED BY Zenon, <1>2, <4>1 DEF Counted
    <3> QED BY Zenon, <2>1, <2>2, <3>1, FewerUploads DEF BoundInv
  <2> QED BY Zenon, <2>3, <2>4
<1> QED BY Zenon, <1>3, <1>7 DEF UploadsBounded, UploadsOf

\* A request that is not an upload, or that is past its reservation, is no checked upload.
LEMMA OtherWriterBound ==
  ASSUME BlobAssumption, BoundInv, NEW w \in Writers, NEW x, writer' = [writer EXCEPT ![w] = x],
         ~(x.pc = "reserve" /\ x.kind = "upload"), reserved' \subseteq reserved, now' = now
  PROVE  IsFiniteSet(reserved') /\ UploadsBounded'
<1>1. NoMoreUploads
  BY SMTT(30) DEF NoMoreUploads, BoundInv, TypeInv, WritersOK, RowsOK
<1> QED BY Zenon, <1>1, BoundKept

LEMMA BoundStep ==
  ASSUME BlobAssumption, BoundInv, [Next]_vars
  PROVE  BoundInv'
<1>1. TypeInv'  BY Zenon, TypeStep DEF BoundInv
<1> SUFFICES IsFiniteSet(reserved') /\ UploadsBounded'  BY Zenon, <1>1 DEF BoundInv
<1>2. CASE UNCHANGED writer /\ reserved' \subseteq reserved /\ now' \in Nat /\ now' >= now
  BY Zenon, <1>2, BoundKept DEF NoMoreUploads
<1>3. ASSUME NEW w \in Writers, Request(w)
      PROVE  IsFiniteSet(reserved') /\ UploadsBounded'
  <2>1. PICK h \in Hashes :
        \/ \E a \in Accounts : Upload(w, a, h) \/ BlobCopy(w, a, h)
        \/ \E d \in Docs : Ingest(w, d, h) \/ Replace(w, d, h) \/ EmailCopy(w, d, h)
        \/ \E q \in QueueIds : QueueMessage(w, q, h)
    BY Zenon, <1>3 DEF Request
  <2>2. ASSUME NEW pc, NEW kind, NEW owner, NEW asserts, kind # "upload",
               Asserting(w, pc, kind, h, owner, asserts)
        PROVE  IsFiniteSet(reserved') /\ UploadsBounded'
    BY Zenon, <2>2, OtherWriterBound DEF Asserting, rows
  <2>3. ASSUME NEW d \in Docs, Replace(w, d, h)  PROVE IsFiniteSet(reserved') /\ UploadsBounded'
    BY Zenon, <2>3, <2>2 DEF Replace
  <2>4. ASSUME NEW d \in Docs, Ingest(w, d, h) \/ EmailCopy(w, d, h)
        PROVE IsFiniteSet(reserved') /\ UploadsBounded'
    BY Zenon, <2>4, <2>2 DEF Ingest, EmailCopy, Begin
  <2>5. ASSUME NEW q \in QueueIds, QueueMessage(w, q, h)  PROVE IsFiniteSet(reserved') /\ UploadsBounded'
    BY Zenon, <2>5, <2>2 DEF QueueMessage, Begin
  <2>6. ASSUME NEW a \in Accounts, BlobCopy(w, a, h)  PROVE IsFiniteSet(reserved') /\ UploadsBounded'
    BY Zenon, <2>6, <2>2 DEF BlobCopy, Begin
  <2> QED BY Zenon, <2>1, <2>3, <2>4, <2>5, <2>6, UploadBound
<1>4. ASSUME NEW w \in Writers, Exists(w) \/ Put(w) \/ Commit(w) \/ WriteLink(w) \/ ReplaceRefused(w) \/ Abort(w)
      PROVE  IsFiniteSet(reserved') /\ UploadsBounded'
  <2>1. PICK x : writer' = [writer EXCEPT ![w] = x] /\ x \in {NoRequest}
          \cup {[writer[w] EXCEPT !.pc = pc] : pc \in {"put", "link", "commit"}}
    BY SMTT(30), <1>4 DEF Exists, Put, Commit, WriteLink, ReplaceRefused, Abort, Answer
  <2>2. x.pc # "reserve"
    <3>1. CASE x = NoRequest  BY <3>1 DEF NoRequest
    <3>2. CASE writer[w].pc = "idle"
      BY Zenon, <1>4, <3>2 DEF Exists, Put, Commit, WriteLink, ReplaceRefused, Abort, Busy
    <3>3. CASE writer[w].pc # "idle" /\ x # NoRequest
      <4>1. writer[w] \in Requests  BY Zenon, <3>3, WriterType DEF BoundInv
      <4> QED BY Zenon, <2>1, <3>3, <4>1 DEF Requests
    <3> QED BY Zenon, <3>1, <3>2, <3>3
  <2>3. reserved' \subseteq reserved /\ now' = now
    BY Zenon, <1>4 DEF Exists, Put, Commit, WriteLink, ReplaceRefused, Abort, rows
  <2> QED BY Zenon, <2>1, <2>2, <2>3, OtherWriterBound
<1>5. CASE Tick  BY <1>5, <1>2 DEF Tick, rows, BoundInv, TypeInv, RowsOK
<1>6. now \in Nat  BY Zenon DEF BoundInv, TypeInv, RowsOK
<1>7. ASSUME NEW p \in Purgers, Purge(p) \/ PurgeFails(p)  PROVE IsFiniteSet(reserved') /\ UploadsBounded'
  BY SMTT(30), <1>7, <1>2, <1>6 DEF Purge, PurgeFails, ScanReserved, ScanLinks, DeleteBlob, ClearRows, rows
<1>8. CASE (\E l \in links : Unlink(l)) \/ (\E a \in Accounts : UnlinkAccount(a))
  BY SMTT(30), <1>8, <1>2, <1>6 DEF Unlink, UnlinkAccount
<1>9. CASE UNCHANGED vars  BY <1>9, <1>2, <1>6 DEF vars, rows
<1> QED BY Zenon, <1>3, <1>4, <1>5, <1>7, <1>8, <1>9, ReserveBound DEF Next, Work

LEMMA BoundInit ==
  ASSUME BlobAssumption, Init
  PROVE  BoundInv
<1>1. reserved = {} /\ IsFiniteSet(reserved)  BY Zenon, FS_EmptySet DEF Init
<1>2. ASSUME NEW a \in Accounts
      PROVE  Cardinality(Counted(a)) + Cardinality(Pending(a)) < UploadQuota + Cardinality(Writers)
  <2>1. Counted(a) = {}  BY Zenon, <1>1 DEF Counted
  <2>2. Pending(a) = {}  BY DEF Pending, Init, NoRequest
  <2>3. Cardinality(Writers) \in Nat  BY FS_CardinalityType DEF BlobAssumption
  <2> QED BY SMTT(30), <2>1, <2>2, <2>3, FS_EmptySet DEF BlobAssumption
<1> QED BY Zenon, <1>1, <1>2, TypeInit DEF BoundInv, UploadsBounded

\* However many uploads are checked against the quota at once, an account has fewer
\* unexpired ones than the quota and the number of concurrent requests together.
THEOREM UploadsStayBounded == Spec => []UploadsBounded
<1>1. Init => BoundInv  BY Zenon, BlobAssumption, BoundInit
<1>2. BoundInv /\ [Next]_vars => BoundInv'  BY Zenon, BlobAssumption, BoundStep
<1>3. BoundInv => UploadsBounded  BY DEF BoundInv
<1> QED BY <1>1, <1>2, <1>3, PTL DEF Spec
=============================================================================
