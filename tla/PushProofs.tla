------------------------------ MODULE PushProofs ------------------------------
(***************************************************************************)
(* What the state manager and the push manager keep, for any number of     *)
(* accounts, subscriptions, calls, connections and changes, any settings   *)
(* and any sequence of failures and restarts.                              *)
(***************************************************************************)
EXTENDS PushService, TLAPS

Change == [account : Accounts, types : Publications]

DocRec == [url : Urls, types : SUBSET Types, expires : Nat, verified : BOOLEAN]

Server == [url : Urls, num_attempts : Nat, last_request : 0..Push!Horizon,
           state_changes : Seq(Change), in_flight : BOOLEAN]

Wire == [url : Urls, state_changes : Seq(Change)]

Partial(S) == UNION {[ids -> S] : ids \in SUBSET Ids}

\* What the two managers' channel carries.
Events ==
  [kind : {"update"}, unregister : SUBSET Ids, verify : SUBSET Ids, register : Partial(Urls)]
    \cup [kind : {"push"}, ids : SUBSET Ids, change : Change]
    \cup [kind : {"reset"}]
    \cup [kind : {"success"}, id : Ids]
    \cup [kind : {"failure"}, id : Ids, changes : Seq(Change)]

-----------------------------------------------------------------------------
(* Ages. *)

LEMMA MinOfTwo ==
  ASSUME NEW a \in Nat, NEW b \in Nat
  PROVE  Push!Min({a, b}) = IF a <= b THEN a ELSE b
BY DEF Push!Min

\* The horizon lies beyond every interval the manager compares with.
LEMMA HorizonBeyond ==
  /\ Push!Horizon \in Nat
  /\ Throttle + 1 <= Push!Horizon
  /\ RetryInterval <= Push!Horizon
  /\ Push!Never \in 0..Push!Horizon
  /\ \A age \in 0..Push!Horizon : Push!Older(age) \in 0..Push!Horizon
<1> DEFINE S == {Throttle, AttemptInterval, RetryInterval, VerifyTimeout}
           top == Push!Max(S)
<1>1. \E x \in S : \A y \in S : x >= y
  BY PushAssumption
<1>2. top \in S /\ \A y \in S : top >= y
  BY Zenon, <1>1 DEF Push!Max
<1>3. Push!Horizon = top + 2
  BY Zenon DEF Push!Horizon
<1>4. S \subseteq Nat /\ Throttle \in S /\ RetryInterval \in S
  BY PushAssumption
<1> HIDE DEF S, top
<1>5. Push!Horizon \in Nat /\ Throttle + 1 <= Push!Horizon /\ RetryInterval <= Push!Horizon
  BY <1>2, <1>3, <1>4
<1>6. ASSUME NEW age \in 0..Push!Horizon
      PROVE  Push!Older(age) \in 0..Push!Horizon
  <2>1. Push!Older(age) = IF age + 1 <= Push!Horizon THEN age + 1 ELSE Push!Horizon
    BY <1>5, MinOfTwo DEF Push!Older
  <2> QED BY <1>5, <2>1
<1> QED BY <1>5, <1>6 DEF Push!Never

-----------------------------------------------------------------------------
(* A turn of the push manager.                                             *)

\* What holds in the middle and at the end of a turn, when answered are the ids
\* with a request on the wire or an outcome in the channel and f counts the
\* failures: a failed subscription is in sight, one in flight has an answer on
\* its way, and changes went away by a request or after AttemptsMax failures.
SoundServer(i, s, retry, send, answered, f) ==
  /\ s \in Server
  /\ s.num_attempts > 0 => s.in_flight \/ i \in retry
  /\ s.in_flight => i \in send \/ i \in answered
  /\ s.num_attempts <= f[i] \/ f[i] >= AttemptsMax
  /\ Push!Pending(i) /\ s.state_changes = <<>> => i \in send \/ f[i] >= AttemptsMax

Sound(m, answered, f) ==
  /\ DOMAIN m.subs \subseteq Ids /\ m.subs = [i \in DOMAIN m.subs |-> m.subs[i]]
  /\ \A i \in DOMAIN m.subs : SoundServer(i, m.subs[i], m.retry, DOMAIN m.send, answered, f)
  /\ m.retry \subseteq Ids
  /\ DOMAIN m.send \subseteq Ids /\ \A i \in DOMAIN m.send : m.send[i] \in Wire

LEMMA ServerOps ==
  ASSUME NEW s \in Server
  PROVE  /\ Push!Sent(s) \in Server /\ Push!Sent(s).in_flight
         /\ Push!Sent(s).num_attempts = s.num_attempts
         /\ Push!Dropped(s) \in Server /\ Push!Dropped(s).num_attempts = 0
         /\ Push!Dropped(s).in_flight = s.in_flight
         /\ Push!Request(s) \in Wire
<1>1. 0 \in 0..Push!Horizon
  BY HorizonBeyond
<1>2. <<>> \in Seq(Change)
  OBVIOUS
<1>3. s.state_changes \in Seq(Change) /\ s.url \in Urls
  BY Zenon DEF Server
<1>4. Push!Sent(s) \in Server /\ Push!Sent(s).in_flight /\ Push!Sent(s).num_attempts = s.num_attempts
  BY Zenon, <1>1, <1>2 DEF Server, Push!Sent
<1>5. /\ Push!Dropped(s) \in Server /\ Push!Dropped(s).num_attempts = 0
      /\ Push!Dropped(s).in_flight = s.in_flight
  BY Zenon, <1>2 DEF Server, Push!Dropped
<1>6. Push!Request(s) \in Wire
  BY <1>3 DEF Wire, Push!Request
<1> QED BY Zenon, <1>4, <1>5, <1>6

\* The sweep sends what is due, gives up what failed too often and keeps the
\* rest of the list.
LEMMA SweepSound ==
  ASSUME NEW m, NEW answered, NEW f \in [Ids -> Nat], Sound(m, answered, f)
  PROVE  /\ Sound(Push!Sweep(m), answered, f)
         /\ DOMAIN Push!Sweep(m).subs = DOMAIN m.subs
<1> DEFINE gone == m.retry \ DOMAIN m.subs
           due == {i \in m.retry \ gone : Push!RetryDue(m.subs[i])}
           go == {i \in due : m.subs[i].num_attempts < AttemptsMax}
           left == m.retry \ (due \cup gone)
           subs == [i \in DOMAIN m.subs |->
                      IF i \in go THEN Push!Sent(m.subs[i])
                      ELSE IF i \in due THEN Push!Dropped(m.subs[i]) ELSE m.subs[i]]
           send == [i \in DOMAIN m.send \cup go |->
                      IF i \in go THEN Push!Request(m.subs[i]) ELSE m.send[i]]
<1>1. /\ Push!Sweep(m).subs = subs /\ Push!Sweep(m).retry = left
      /\ DOMAIN Push!Sweep(m).send = DOMAIN m.send \cup go
      /\ \A i \in DOMAIN m.send \cup go : Push!Sweep(m).send[i] = send[i]
  BY Zenon DEF Push!Sweep, Push!Over
<1>2. due \subseteq DOMAIN m.subs /\ go \subseteq due /\ left \subseteq m.retry
  OBVIOUS
<1>3. /\ \A i \in DOMAIN m.subs : m.subs[i] \in Server
      /\ \A i \in due : ~m.subs[i].in_flight
  BY Zenon DEF Sound, SoundServer, Push!RetryDue
<1>4. \A i \in DOMAIN m.subs : i \in m.retry => i \in due \/ i \in left
  OBVIOUS
<1> HIDE DEF gone, due, left
<1>5. ASSUME NEW i \in DOMAIN m.subs
      PROVE  SoundServer(i, subs[i], left, DOMAIN m.send \cup go, answered, f)
  <2>1. SoundServer(i, m.subs[i], m.retry, DOMAIN m.send, answered, f) /\ i \in Ids
    BY Zenon DEF Sound
  <2>2. CASE i \in go
    BY Zenon, <1>3, <2>1, <2>2, ServerOps DEF SoundServer
  <2>3. CASE i \in due \ go
    <3>1. subs[i] = Push!Dropped(m.subs[i])
      BY Zenon, <2>3
    <3>2. ~subs[i].in_flight /\ subs[i].num_attempts = 0 /\ subs[i] \in Server
      BY Zenon, <1>3, <2>3, <3>1, ServerOps
    <3>3. f[i] >= AttemptsMax
      BY SMTT(30), <1>3, <2>1, <2>3, PushAssumption DEF SoundServer, Server
    <3>4. ~(subs[i].num_attempts > 0)
      BY <3>2
    <3> HIDE DEF subs
    <3> QED BY Zenon, <3>2, <3>3, <3>4 DEF SoundServer
  <2>4. CASE i \notin due
    <3>1. subs[i] = m.subs[i]
      BY Zenon, <1>2, <2>4
    <3> HIDE DEF subs
    <3> QED BY Zenon, <1>4, <2>1, <2>4, <3>1 DEF SoundServer
  <2> QED BY Zenon, <2>2, <2>3, <2>4
<1>6. \A i \in DOMAIN m.send \cup go : send[i] \in Wire /\ i \in Ids
  BY Zenon, <1>2, <1>3, ServerOps DEF Sound
<1>7. m.retry \subseteq Ids
  BY Zenon DEF Sound
<1>8. subs = [i \in DOMAIN subs |-> subs[i]] /\ DOMAIN subs = DOMAIN m.subs
  OBVIOUS
<1>9. DOMAIN m.subs \subseteq Ids
  BY Zenon DEF Sound
<1> HIDE DEF subs, send, go
<1> QED BY Zenon, <1>1, <1>2, <1>5, <1>6, <1>7, <1>8, <1>9 DEF Sound

LEMMA EndOfTurnSound ==
  ASSUME NEW m, NEW answered, NEW f \in [Ids -> Nat], Sound(m, answered, f)
  PROVE  /\ Sound(Push!EndOfTurn(m), answered, f)
         /\ DOMAIN Push!EndOfTurn(m).subs = DOMAIN m.subs
<1>1. ASSUME NEW t
      PROVE  /\ Sound(Push!Wait(m, t), answered, f)
             /\ DOMAIN Push!Wait(m, t).subs = DOMAIN m.subs
  <2>1. /\ Push!Wait(m, t).subs = m.subs /\ Push!Wait(m, t).retry = m.retry
        /\ Push!Wait(m, t).send = m.send
    BY DEF Push!Wait
  <2> QED BY Zenon, <2>1 DEF Sound
<1> QED BY Zenon, <1>1, SweepSound DEF Push!EndOfTurn

-----------------------------------------------------------------------------
(* Events. *)

Answered == {i \in Ids : requests[i] # <<>> \/ Push!Outcomes(i) # {}}

ServersOK ==
  /\ DOMAIN subscriptions \subseteq Ids
  /\ subscriptions = [i \in DOMAIN subscriptions |-> subscriptions[i]]
  /\ \A i \in DOMAIN subscriptions :
       SoundServer(i, subscriptions[i], retry_ids, {}, Answered, fails)

\* An update does not register what it unregisters.
InboxOK ==
  /\ inbox \in Seq(Events) /\ Len(inbox) <= QueueSize
  /\ \A k \in DOMAIN inbox : inbox[k].kind = "update" =>
       inbox[k].unregister \cap DOMAIN inbox[k].register = {}

\* The inductive invariant of the push manager's part.
ManagerInv ==
  /\ ServersOK /\ InboxOK
  /\ retry_ids \subseteq Ids
  /\ requests \in [Ids -> Seq(Wire)]
  /\ fails \in [Ids -> Nat]

IsOutcomeOf(e, i) == e.kind \in {"success", "failure"} /\ e.id = i

\* Reading an event of the channel takes away no other's answer.
LEMMA OutcomesTail ==
  ASSUME inbox \in Seq(Events), inbox # <<>>, inbox' = Tail(inbox), NEW i,
         Push!Outcomes(i) # {}, ~IsOutcomeOf(Head(inbox), i)
  PROVE  Push!Outcomes(i)' # {}
<1>1. PICK k \in DOMAIN inbox : IsOutcomeOf(inbox[k], i)
  BY Zenon DEF Push!Outcomes, IsOutcomeOf
<1>2. k \in 2..Len(inbox)
  BY <1>1
<1>3. k - 1 \in DOMAIN inbox' /\ inbox'[k - 1] = inbox[k]
  BY <1>2
<1> QED BY Zenon, <1>1, <1>3 DEF Push!Outcomes, IsOutcomeOf

\* The ids that still have an answer on its way once the event is read.
StillAnswered == {i \in Ids : requests[i] # <<>> \/ Push!Outcomes(i)' # {}}

LEMMA AnswersStay ==
  ASSUME ManagerInv, inbox # <<>>, inbox' = Tail(inbox), NEW i \in DOMAIN subscriptions,
         subscriptions[i].in_flight, ~IsOutcomeOf(Head(inbox), i)
  PROVE  i \in StillAnswered
<1>1. i \in Ids /\ i \in Answered
  BY Zenon DEF ManagerInv, ServersOK, SoundServer
<1> QED BY Zenon, <1>1, OutcomesTail DEF ManagerInv, InboxOK, Answered, StillAnswered

\* A server that an event does not change.
LEMMA SameServer ==
  ASSUME ManagerInv, NEW i \in DOMAIN subscriptions, NEW answered, NEW f, NEW retry, NEW send,
         subscriptions[i].in_flight => i \in answered, f[i] = fails[i],
         i \in retry_ids => i \in retry
  PROVE  SoundServer(i, subscriptions[i], retry, send, answered, f)
BY Zenon DEF ManagerInv, ServersOK, SoundServer, Push!Pending

LEMMA UnchangedIs ==
  /\ Push!Unchanged.subs = subscriptions /\ Push!Unchanged.retry = retry_ids
  /\ Push!Unchanged.send = <<>> /\ DOMAIN Push!Unchanged.send = {}
BY DEF Push!Unchanged

\* Nothing happened to the subscriptions.
LEMMA UnchangedSound ==
  ASSUME ManagerInv, NEW answered, NEW f,
         \A i \in DOMAIN subscriptions :
           f[i] = fails[i] /\ (subscriptions[i].in_flight => i \in answered)
  PROVE  Sound(Push!Unchanged, answered, f)
<1>1. \A i \in DOMAIN subscriptions :
        SoundServer(i, subscriptions[i], retry_ids, {}, answered, f)
  BY Zenon, SameServer
<1> QED BY Zenon, <1>1, UnchangedIs DEF Sound, ManagerInv, ServersOK

LEMMA PushSound ==
  ASSUME ManagerInv, NEW ids \in SUBSET Ids, NEW change \in Change, NEW answered,
         \A i \in DOMAIN subscriptions : subscriptions[i].in_flight => i \in answered
  PROVE  /\ Sound(Push!OnPush(ids, change), answered, fails)
         /\ DOMAIN Push!OnPush(ids, change).subs = DOMAIN subscriptions
<1> DEFINE known == ids \cap DOMAIN subscriptions
           grown == [i \in known |->
                       [subscriptions[i] EXCEPT !.state_changes = Append(@, change)]]
           go == {i \in known : Push!SendsAtOnce(subscriptions[i])}
           subs == [i \in DOMAIN subscriptions |->
                      IF i \in go THEN Push!Sent(grown[i])
                      ELSE IF i \in known THEN grown[i] ELSE subscriptions[i]]
           retry == (retry_ids \ go) \cup (known \ go)
           send == [i \in go |-> Push!Request(grown[i])]
<1>1. Push!OnPush(ids, change) = [subs |-> subs, retry |-> retry, send |-> send]
  BY Zenon DEF Push!OnPush
<1>2. go \subseteq known /\ known \subseteq DOMAIN subscriptions /\ DOMAIN subscriptions \subseteq Ids
  BY Zenon DEF ManagerInv, ServersOK
<1>3. ASSUME NEW i \in known
      PROVE  /\ grown[i] \in Server /\ grown[i].num_attempts = subscriptions[i].num_attempts
             /\ grown[i].in_flight = subscriptions[i].in_flight
             /\ grown[i].state_changes # <<>>
  <2>1. subscriptions[i] \in Server
    BY Zenon DEF ManagerInv, ServersOK, SoundServer
  <2>2. grown[i] = [subscriptions[i] EXCEPT !.state_changes = Append(@, change)]
    BY Zenon
  <2> HIDE DEF grown
  <2>3. Append(subscriptions[i].state_changes, change) \in Seq(Change) \ {<<>>}
    BY <2>1 DEF Server
  <2> QED BY Zenon, <2>1, <2>2, <2>3 DEF Server
<1>4. ASSUME NEW i \in DOMAIN subscriptions
      PROVE  SoundServer(i, subs[i], retry, go, answered, fails)
  <2>1. SoundServer(i, subscriptions[i], retry_ids, {}, Answered, fails)
    BY Zenon DEF ManagerInv, ServersOK
  <2>2. CASE i \in go
    <3>1. subs[i] = Push!Sent(grown[i]) /\ grown[i] \in Server
      BY Zenon, <1>2, <1>3, <2>2
    <3>2. grown[i].num_attempts = subscriptions[i].num_attempts
      BY Zenon, <1>2, <1>3, <2>2
    <3> HIDE DEF subs, go, known, grown
    <3>3. subs[i] \in Server /\ subs[i].in_flight /\ subs[i].num_attempts = subscriptions[i].num_attempts
      BY Zenon, <3>1, <3>2, ServerOps
    <3> QED BY Zenon, <2>1, <2>2, <3>3 DEF SoundServer
  <2>3. CASE i \in known \ go
    <3>1. subs[i] = grown[i]
      BY Zenon, <2>3
    <3>2. i \in retry
      BY Zenon, <2>3
    <3> HIDE DEF subs, retry, go, known, grown
    <3> QED BY Zenon, <1>3, <2>1, <2>3, <3>1, <3>2 DEF SoundServer
  <2>4. CASE i \notin known
    <3>1. subs[i] = subscriptions[i] /\ (i \in retry_ids => i \in retry)
      BY Zenon, <2>4
    <3> HIDE DEF subs, retry, go, known, grown
    <3> QED BY Zenon, <3>1, SameServer
  <2> QED BY Zenon, <2>2, <2>3, <2>4
<1>5. retry \subseteq Ids
  BY Zenon, <1>2 DEF ManagerInv
<1>6. \A i \in go : send[i] \in Wire
  BY Zenon, <1>2, <1>3, ServerOps
<1>7. subs = [i \in DOMAIN subs |-> subs[i]] /\ DOMAIN subs = DOMAIN subscriptions /\ DOMAIN send = go
  BY Zenon
<1> HIDE DEF subs, retry, send, go, known, grown
<1>8. /\ Push!OnPush(ids, change).subs = subs /\ Push!OnPush(ids, change).retry = retry
      /\ Push!OnPush(ids, change).send = send
  BY <1>1
<1> QED BY Zenon, <1>2, <1>4, <1>5, <1>6, <1>7, <1>8 DEF Sound

LEMMA UpdateSound ==
  ASSUME ManagerInv, NEW register \in Partial(Urls), NEW unregister,
         unregister \cap DOMAIN register = {}, NEW answered,
         \A i \in DOMAIN subscriptions : subscriptions[i].in_flight => i \in answered
  PROVE  /\ Sound(Push!OnUpdate(register, unregister), answered, fails)
         /\ DOMAIN Push!OnUpdate(register, unregister).subs
              = (DOMAIN subscriptions \ unregister) \cup DOMAIN register
<1> DEFINE kept == DOMAIN subscriptions \ unregister
           subs == [i \in kept \cup DOMAIN register |->
                      IF i \in kept THEN subscriptions[i] ELSE Push!PushServer(register[i])]
<1>1. /\ Push!OnUpdate(register, unregister).subs = subs
      /\ Push!OnUpdate(register, unregister).retry = retry_ids
      /\ Push!OnUpdate(register, unregister).send = <<>>
  BY DEF Push!OnUpdate, Push!Unchanged
<1>2. DOMAIN register \subseteq Ids /\ \A i \in DOMAIN register : register[i] \in Urls
  <2>1. PICK ids \in SUBSET Ids : register \in [ids -> Urls]
    BY Zenon DEF Partial
  <2>2. DOMAIN register = ids /\ \A i \in ids : register[i] \in Urls
    BY Zenon, <2>1
  <2> QED BY Zenon, <2>2
<1>3. DOMAIN subscriptions \subseteq Ids
  BY Zenon DEF ManagerInv, ServersOK
<1>4. ASSUME NEW url \in Urls
      PROVE  /\ Push!PushServer(url) \in Server /\ ~Push!PushServer(url).in_flight
             /\ Push!PushServer(url).num_attempts = 0
  <2>1. Throttle + 1 \in 0..Push!Horizon
    BY HorizonBeyond, PushAssumption
  <2> QED BY <2>1 DEF Push!PushServer, Server
<1>5. ASSUME NEW i \in kept \cup DOMAIN register
      PROVE  SoundServer(i, subs[i], retry_ids, {}, answered, fails)
  <2>1. CASE i \in kept
    <3>1. subs[i] = subscriptions[i] /\ i \in DOMAIN subscriptions
      BY Zenon, <2>1
    <3> HIDE DEF subs, kept
    <3> QED BY Zenon, <3>1, SameServer
  <2>2. CASE i \notin kept
    <3>1. subs[i] = Push!PushServer(register[i]) /\ i \in DOMAIN register
      BY Zenon, <2>2
    <3>2. i \notin DOMAIN subscriptions
      BY Zenon, <2>2, <3>1
    <3>3. ~Push!Pending(i)
      BY Zenon, <3>2 DEF Push!Pending
    <3>4. i \in Ids /\ register[i] \in Urls
      BY Zenon, <1>2, <3>1
    <3> HIDE DEF subs, kept
    <3>5. subs[i] \in Server /\ ~subs[i].in_flight /\ subs[i].num_attempts = 0
      BY Zenon, <1>4, <3>1, <3>4
    <3>6. ~(subs[i].num_attempts > 0) /\ subs[i].num_attempts <= fails[i]
      BY <3>4, <3>5 DEF ManagerInv
    <3> QED BY Zenon, <3>3, <3>5, <3>6 DEF SoundServer
  <2> QED BY Zenon, <2>1, <2>2
<1>6. subs = [i \in DOMAIN subs |-> subs[i]] /\ DOMAIN subs = kept \cup DOMAIN register
  BY Zenon
<1>7. DOMAIN subs \subseteq Ids
  BY Zenon, <1>2, <1>3, <1>6
<1>8. DOMAIN Push!OnUpdate(register, unregister).send = {}
  BY <1>1
<1> HIDE DEF subs
<1> QED BY Zenon, <1>1, <1>5, <1>6, <1>7, <1>8 DEF Sound, ManagerInv

LEMMA ResetSound ==
  ASSUME ManagerInv, NEW answered
  PROVE  Sound(Push!OnReset, answered, fails) /\ DOMAIN Push!OnReset.subs = {}
<1>1. /\ Push!OnReset.subs = <<>> /\ Push!OnReset.retry = retry_ids /\ Push!OnReset.send = <<>>
      /\ DOMAIN Push!OnReset.subs = {} /\ DOMAIN Push!OnReset.send = {}
  BY DEF Push!OnReset, Push!Unchanged
<1>2. Push!OnReset.subs = [i \in DOMAIN Push!OnReset.subs |-> Push!OnReset.subs[i]]
  BY <1>1
<1> QED BY Zenon, <1>1, <1>2 DEF Sound, ManagerInv

\* One server of the subscriptions is replaced, the others stay.
LEMMA OneServer ==
  ASSUME ManagerInv, NEW id \in DOMAIN subscriptions, NEW s, NEW m, NEW f, NEW answered,
         m.subs = [subscriptions EXCEPT ![id] = s], m.send = <<>>,
         m.retry \subseteq Ids, retry_ids \ {id} \subseteq m.retry,
         SoundServer(id, s, m.retry, {}, answered, f),
         \A i \in DOMAIN subscriptions \ {id} :
           f[i] = fails[i] /\ (subscriptions[i].in_flight => i \in answered)
  PROVE  Sound(m, answered, f) /\ DOMAIN m.subs = DOMAIN subscriptions
<1>1. DOMAIN m.subs = DOMAIN subscriptions
  BY Zenon
<1>2. DOMAIN m.send = {} /\ DOMAIN subscriptions \subseteq Ids
  BY DEF ManagerInv, ServersOK
<1>3. m.subs[id] = s /\ \A i \in DOMAIN subscriptions \ {id} : m.subs[i] = subscriptions[i]
  BY Zenon
<1>4. m.subs = [i \in DOMAIN m.subs |-> m.subs[i]]
  BY Zenon, <1>1, <1>3
<1>5. ASSUME NEW i \in DOMAIN m.subs
      PROVE  SoundServer(i, m.subs[i], m.retry, {}, answered, f)
  <2>1. CASE i = id
    BY Zenon, <1>3, <2>1
  <2>2. CASE i # id
    <3>1. m.subs[i] = subscriptions[i] /\ (i \in retry_ids => i \in m.retry)
      BY Zenon, <1>1, <1>3, <2>2
    <3> QED BY Zenon, <1>1, <2>2, <3>1, SameServer
  <2> QED BY Zenon, <2>1, <2>2
<1> QED BY Zenon, <1>1, <1>2, <1>4, <1>5 DEF Sound

\* A success clears the failures and takes the subscription off the list, a
\* failure counts one, keeps the changes and puts the subscription on it.
LEMMA SuccessSound ==
  ASSUME ManagerInv, NEW id \in Ids, NEW answered,
         \A i \in DOMAIN subscriptions \ {id} : subscriptions[i].in_flight => i \in answered
  PROVE  /\ Sound(Push!OnDeliverySuccess(id), answered, [fails EXCEPT ![id] = 0])
         /\ DOMAIN Push!OnDeliverySuccess(id).subs = DOMAIN subscriptions
<1> DEFINE f == [fails EXCEPT ![id] = 0]
           m == Push!OnDeliverySuccess(id)
<1>1. f[id] = 0 /\ \A i \in Ids \ {id} : f[i] = fails[i]
  BY Zenon DEF ManagerInv
<1>2. DOMAIN subscriptions \subseteq Ids
  BY Zenon DEF ManagerInv, ServersOK
<1> HIDE DEF f
<1>3. CASE id \notin DOMAIN subscriptions
  <2>1. m = Push!Unchanged
    BY Zenon, <1>3 DEF Push!OnDeliverySuccess
  <2>2. \A i \in DOMAIN subscriptions :
          f[i] = fails[i] /\ (subscriptions[i].in_flight => i \in answered)
    BY Zenon, <1>1, <1>2, <1>3
  <2>3. Sound(Push!Unchanged, answered, f)
    BY Zenon, <2>2, UnchangedSound
  <2> QED BY Zenon, <2>1, <2>3, UnchangedIs DEF f
<1>4. CASE id \in DOMAIN subscriptions
  <2> DEFINE s == [subscriptions[id] EXCEPT !.num_attempts = 0, !.in_flight = FALSE]
  <2>1. /\ m.subs = [subscriptions EXCEPT ![id] = s]
        /\ m.send = <<>> /\ m.retry = retry_ids \ {id}
    BY Zenon, <1>4 DEF Push!OnDeliverySuccess, Push!Unchanged
  <2>2. subscriptions[id] \in Server
    BY Zenon, <1>4 DEF ManagerInv, ServersOK, SoundServer
  <2>3. /\ s \in Server /\ s.num_attempts = 0 /\ ~s.in_flight
        /\ s.state_changes = subscriptions[id].state_changes
    BY Zenon, <2>2 DEF Server
  <2>4. ~(s.num_attempts > 0) /\ s.num_attempts <= f[id]
    BY <1>1, <2>3
  <2> HIDE DEF s, m
  <2>5. SoundServer(id, s, m.retry, {}, answered, f)
    BY Zenon, <2>3, <2>4 DEF SoundServer, Push!Pending
  <2>6. m.retry \subseteq Ids /\ retry_ids \ {id} \subseteq m.retry
    BY Zenon, <2>1 DEF ManagerInv
  <2>7. \A i \in DOMAIN subscriptions \ {id} :
          f[i] = fails[i] /\ (subscriptions[i].in_flight => i \in answered)
    BY Zenon, <1>1, <1>2
  <2>8. Sound(m, answered, f) /\ DOMAIN m.subs = DOMAIN subscriptions
    BY Zenon, <1>4, <2>1, <2>5, <2>6, <2>7, OneServer
  <2> QED BY Zenon, <2>8 DEF f, m
<1> QED BY Zenon, <1>3, <1>4

LEMMA FailureSound ==
  ASSUME ManagerInv, NEW id \in Ids, NEW changes \in Seq(Change), NEW answered,
         \A i \in DOMAIN subscriptions \ {id} : subscriptions[i].in_flight => i \in answered
  PROVE  /\ Sound(Push!OnDeliveryFailure(id, changes), answered,
                  [fails EXCEPT ![id] = Push!Min({@ + 1, AttemptsMax})])
         /\ DOMAIN Push!OnDeliveryFailure(id, changes).subs = DOMAIN subscriptions
<1> DEFINE f == [fails EXCEPT ![id] = Push!Min({@ + 1, AttemptsMax})]
           m == Push!OnDeliveryFailure(id, changes)
<1>1. f[id] = Push!Min({fails[id] + 1, AttemptsMax}) /\ \A i \in Ids \ {id} : f[i] = fails[i]
  BY Zenon DEF ManagerInv
<1>2. DOMAIN subscriptions \subseteq Ids /\ fails[id] \in Nat
  BY Zenon DEF ManagerInv, ServersOK
<1> HIDE DEF f
<1>3. CASE id \notin DOMAIN subscriptions
  <2>1. m = Push!Unchanged
    BY Zenon, <1>3 DEF Push!OnDeliveryFailure
  <2>2. \A i \in DOMAIN subscriptions :
          f[i] = fails[i] /\ (subscriptions[i].in_flight => i \in answered)
    BY Zenon, <1>1, <1>2, <1>3
  <2>3. Sound(Push!Unchanged, answered, f)
    BY Zenon, <2>2, UnchangedSound
  <2> QED BY Zenon, <2>1, <2>3, UnchangedIs DEF f
<1>4. CASE id \in DOMAIN subscriptions
  <2> DEFINE old == subscriptions[id]
             s == [old EXCEPT !.last_request = 0, !.num_attempts = @ + 1,
                              !.state_changes = @ \o changes, !.in_flight = FALSE]
  <2>1. /\ m.subs = [subscriptions EXCEPT ![id] = s]
        /\ m.send = <<>> /\ m.retry = retry_ids \cup {id}
    BY Zenon, <1>4 DEF Push!OnDeliveryFailure, Push!Unchanged
  <2>2. old \in Server /\ (old.num_attempts <= fails[id] \/ fails[id] >= AttemptsMax)
    BY Zenon, <1>4 DEF ManagerInv, ServersOK, SoundServer
  <2>3. 0 \in 0..Push!Horizon
    BY HorizonBeyond
  <2>4. old.state_changes \o changes \in Seq(Change)
    BY <2>2 DEF Server
  <2>5. /\ s \in Server /\ s.num_attempts = old.num_attempts + 1 /\ ~s.in_flight
        /\ s.state_changes = old.state_changes \o changes
    <3> DEFINE n == old.num_attempts + 1
               c == old.state_changes \o changes
    <3>1. n \in Nat
      BY <2>2 DEF Server
    <3>2. s = [old EXCEPT !.last_request = 0, !.num_attempts = n,
                          !.state_changes = c, !.in_flight = FALSE]
      BY Zenon
    <3> HIDE DEF n, c, s, old
    <3>3. /\ s \in Server /\ s.num_attempts = n /\ ~s.in_flight /\ s.state_changes = c
      BY Zenon, <2>2, <2>3, <2>4, <3>1, <3>2 DEF Server, c
    <3> QED BY Zenon, <3>3 DEF n, c
  <2>6. old.state_changes # <<>> => s.state_changes # <<>>
    <3>1. old.state_changes \in Seq(Change)
      BY Zenon, <2>2 DEF Server
    <3> HIDE DEF old, s
    <3> QED BY <2>5, <3>1
  <2>7. s.num_attempts <= f[id] \/ f[id] >= AttemptsMax
    <3>1. f[id] = IF fails[id] + 1 <= AttemptsMax THEN fails[id] + 1 ELSE AttemptsMax
      BY SMTT(30), <1>1, <1>2, MinOfTwo, PushAssumption
    <3>2. old.num_attempts \in Nat
      BY Zenon, <2>2 DEF Server
    <3> HIDE DEF old, s
    <3> QED BY SMTT(30), <1>2, <2>2, <2>5, <3>1, <3>2, PushAssumption
  <2>8. id \in m.retry
    BY Zenon, <2>1
  <2>9. ~(Push!Pending(id) /\ s.state_changes = <<>>)
    BY Zenon, <2>6 DEF Push!Pending
  <2> HIDE DEF s, m, old
  <2>10. SoundServer(id, s, m.retry, {}, answered, f)
    BY Zenon, <2>5, <2>7, <2>8, <2>9 DEF SoundServer
  <2>11. m.retry \subseteq Ids /\ retry_ids \ {id} \subseteq m.retry
    BY Zenon, <2>1 DEF ManagerInv
  <2>12. \A i \in DOMAIN subscriptions \ {id} :
          f[i] = fails[i] /\ (subscriptions[i].in_flight => i \in answered)
    BY Zenon, <1>1, <1>2
  <2>13. Sound(m, answered, f) /\ DOMAIN m.subs = DOMAIN subscriptions
    BY Zenon, <1>4, <2>1, <2>10, <2>11, <2>12, OneServer
  <2> QED BY Zenon, <2>13 DEF f, m
<1> QED BY Zenon, <1>3, <1>4

LEMMA EventFields ==
  ASSUME NEW e \in Events
  PROVE  /\ e.kind \in {"update", "push", "reset", "success", "failure"}
         /\ e.kind = "update" =>
              e.register \in Partial(Urls) /\ e.unregister \subseteq Ids /\ e.verify \subseteq Ids
         /\ e.kind = "push" => e.ids \in SUBSET Ids /\ e.change \in Change
         /\ e.kind = "success" => e.id \in Ids
         /\ e.kind = "failure" => e.id \in Ids /\ e.changes \in Seq(Change)
BY SMTT(20) DEF Events

\* What the manager knows after an event, before the end of the turn.
LEMMA EventSound ==
  ASSUME ManagerInv, Push!Receive
  PROVE  /\ Sound(Push!OnEvent(Head(inbox)), StillAnswered, fails')
         /\ fails' \in [Ids -> Nat]
         /\ \A i \in DOMAIN subscriptions : ~Unregisters(Head(inbox), i) =>
              i \in DOMAIN Push!OnEvent(Head(inbox)).subs
         /\ \A i \in Ids : Registers(Head(inbox), i) =>
              i \in DOMAIN Push!OnEvent(Head(inbox)).subs
<1>1. PICK e : e = Head(inbox)
  OBVIOUS
<1>2. inbox # <<>> /\ inbox' = Tail(inbox) /\ inbox \in Seq(Events)
  BY Zenon DEF Push!Receive, ManagerInv, InboxOK
<1>3. e \in Events /\ 1 \in DOMAIN inbox /\ e = inbox[1]
  BY SMTT(30), <1>1, <1>2
<1>4. \A i \in DOMAIN subscriptions :
        subscriptions[i].in_flight /\ ~IsOutcomeOf(e, i) => i \in StillAnswered
  BY Zenon, <1>1, <1>2, AnswersStay
<1>5. fails \in [Ids -> Nat]
  BY Zenon DEF ManagerInv
<1>6. fails' = CASE e.kind = "success" -> [fails EXCEPT ![e.id] = 0]
                 [] e.kind = "failure" -> [fails EXCEPT ![e.id] = Push!Min({@ + 1, AttemptsMax})]
                 [] OTHER -> fails
  BY Zenon, <1>1 DEF Push!Receive
<1>7. SUFFICES /\ Sound(Push!OnEvent(e), StillAnswered, fails')
               /\ fails' \in [Ids -> Nat]
               /\ \A i \in DOMAIN subscriptions : ~Unregisters(e, i) =>
                    i \in DOMAIN Push!OnEvent(e).subs
               /\ \A i \in Ids : Registers(e, i) => i \in DOMAIN Push!OnEvent(e).subs
  BY Zenon, <1>1
<1>8. CASE e.kind = "update"
  <2>1. /\ e.register \in Partial(Urls)
        /\ e.unregister \cap DOMAIN e.register = {}
    BY Zenon, <1>3, <1>8, EventFields DEF ManagerInv, InboxOK
  <2>2. Push!OnEvent(e) = Push!OnUpdate(e.register, e.unregister) /\ fails' = fails
    BY Zenon, <1>6, <1>8 DEF Push!OnEvent
  <2>3. \A i : ~IsOutcomeOf(e, i)
    BY Zenon, <1>8 DEF IsOutcomeOf
  <2>4. /\ Sound(Push!OnUpdate(e.register, e.unregister), StillAnswered, fails)
        /\ DOMAIN Push!OnUpdate(e.register, e.unregister).subs
             = (DOMAIN subscriptions \ e.unregister) \cup DOMAIN e.register
    BY Zenon, <1>4, <2>1, <2>3, UpdateSound
  <2> QED BY Zenon, <1>5, <1>8, <2>1, <2>2, <2>4 DEF Unregisters, Registers
<1>9. CASE e.kind = "push"
  <2>1. e.ids \in SUBSET Ids /\ e.change \in Change
    BY Zenon, <1>3, <1>9, EventFields
  <2>2. /\ Push!OnEvent(e) = Push!OnPush(e.ids, e.change) /\ fails' = fails
        /\ e.kind # "update"
    BY Zenon, <1>6, <1>9 DEF Push!OnEvent
  <2>3. \A i : ~IsOutcomeOf(e, i)
    BY <1>9 DEF IsOutcomeOf
  <2>4. /\ Sound(Push!OnPush(e.ids, e.change), StillAnswered, fails)
        /\ DOMAIN Push!OnPush(e.ids, e.change).subs = DOMAIN subscriptions
    BY Zenon, <1>4, <2>1, <2>3, PushSound
  <2> QED BY Zenon, <1>5, <2>2, <2>4 DEF Registers
<1>10. CASE e.kind = "reset"
  <2>1. Push!OnEvent(e) = Push!OnReset /\ fails' = fails /\ e.kind # "update"
    BY Zenon, <1>6, <1>10 DEF Push!OnEvent
  <2> QED BY Zenon, <1>5, <1>10, <2>1, ResetSound DEF Unregisters, Registers
<1>11. CASE e.kind = "success"
  <2>1. e.id \in Ids
    BY Zenon, <1>3, <1>11, EventFields
  <2>2. /\ Push!OnEvent(e) = Push!OnDeliverySuccess(e.id) /\ e.kind # "update"
        /\ fails' = [fails EXCEPT ![e.id] = 0]
    BY Zenon, <1>6, <1>11 DEF Push!OnEvent
  <2>3. \A i \in DOMAIN subscriptions \ {e.id} : ~IsOutcomeOf(e, i)
    BY Zenon DEF IsOutcomeOf
  <2>4. /\ Sound(Push!OnDeliverySuccess(e.id), StillAnswered, [fails EXCEPT ![e.id] = 0])
        /\ DOMAIN Push!OnDeliverySuccess(e.id).subs = DOMAIN subscriptions
    BY Zenon, <1>4, <2>1, <2>3, SuccessSound
  <2>5. [fails EXCEPT ![e.id] = 0] \in [Ids -> Nat]
    BY Zenon, <1>5
  <2> QED BY Zenon, <2>2, <2>4, <2>5 DEF Registers
<1>12. CASE e.kind = "failure"
  <2>1. e.id \in Ids /\ e.changes \in Seq(Change)
    BY Zenon, <1>3, <1>12, EventFields
  <2> DEFINE f == [fails EXCEPT ![e.id] = Push!Min({@ + 1, AttemptsMax})]
  <2>2. Push!OnEvent(e) = Push!OnDeliveryFailure(e.id, e.changes) /\ e.kind # "update"
    BY <1>12 DEF Push!OnEvent
  <2>3. fails' = f
    BY <1>6, <1>12
  <2>4. \A i \in DOMAIN subscriptions \ {e.id} : ~IsOutcomeOf(e, i)
    BY Zenon DEF IsOutcomeOf
  <2>5. /\ Sound(Push!OnDeliveryFailure(e.id, e.changes), StillAnswered, f)
        /\ DOMAIN Push!OnDeliveryFailure(e.id, e.changes).subs = DOMAIN subscriptions
    BY Zenon, <1>4, <2>1, <2>4, FailureSound
  <2>6. f \in [Ids -> Nat]
    <3>1. fails[e.id] \in Nat
      BY Zenon, <1>5, <2>1
    <3>2. Push!Min({fails[e.id] + 1, AttemptsMax}) \in Nat
      BY SMTT(30), <3>1, MinOfTwo, PushAssumption
    <3> QED BY Zenon, <1>5, <3>2
  <2> HIDE DEF f
  <2> QED BY Zenon, <2>2, <2>3, <2>5, <2>6 DEF Registers
<1> QED BY Zenon, <1>3, <1>8, <1>9, <1>10, <1>11, <1>12, EventFields

LEMMA Appended ==
  ASSUME NEW S, NEW s \in Seq(S), NEW x \in S
  PROVE  /\ Append(s, x) \in Seq(S) /\ Append(s, x) # <<>>
         /\ Len(Append(s, x)) > Len(s) /\ Len(Append(s, x)) = Len(s) + 1
OBVIOUS

\* A step that takes a registered subscription's changes away posts them in a
\* request, or gives them up after AttemptsMax failures.
GivenUpLate ==
  \A i \in DOMAIN subscriptions \cap DOMAIN subscriptions' :
    (Push!Pending(i) /\ subscriptions'[i].state_changes = <<>>)
      => Len(requests'[i]) > Len(requests[i]) \/ fails'[i] >= AttemptsMax

\* The turn that follows an event, or a timeout, leaves sound servers.
LEMMA TurnSound ==
  ASSUME NEW m, NEW answered, Sound(m, answered, fails'), Push!Turn(m),
         requests \in [Ids -> Seq(Wire)], fails' \in [Ids -> Nat],
         \A i \in answered : requests[i] # <<>> \/ Push!Outcomes(i)' # {}
  PROVE  /\ ServersOK' /\ retry_ids' \subseteq Ids /\ requests' \in [Ids -> Seq(Wire)]
         /\ DOMAIN subscriptions' = DOMAIN m.subs
         /\ GivenUpLate
<1>1. PICK r : r = Push!EndOfTurn(m)
  OBVIOUS
<1>2. Sound(r, answered, fails') /\ DOMAIN r.subs = DOMAIN m.subs
  BY Zenon, <1>1, EndOfTurnSound
<1>3. /\ subscriptions' = r.subs /\ retry_ids' = r.retry
      /\ requests' = [i \in Ids |-> IF i \in DOMAIN r.send THEN Append(requests[i], r.send[i])
                                    ELSE requests[i]]
  BY Zenon, <1>1 DEF Push!Turn
<1>4. DOMAIN r.send \subseteq Ids /\ \A i \in DOMAIN r.send : r.send[i] \in Wire
  BY Zenon, <1>2 DEF Sound
<1>5. ASSUME NEW i \in Ids
      PROVE  /\ requests'[i] \in Seq(Wire)
             /\ i \in DOMAIN r.send =>
                  requests'[i] # <<>> /\ Len(requests'[i]) > Len(requests[i])
             /\ requests[i] # <<>> => requests'[i] # <<>>
  <2>1. requests[i] \in Seq(Wire)
    BY Zenon
  <2>2. CASE i \in DOMAIN r.send
    <3>1. requests'[i] = Append(requests[i], r.send[i]) /\ r.send[i] \in Wire
      BY Zenon, <1>3, <1>4, <2>2
    <3> QED BY Zenon, <2>1, <3>1, Appended
  <2>3. CASE i \notin DOMAIN r.send
    <3>1. requests'[i] = requests[i]
      BY Zenon, <1>3, <2>3
    <3> QED BY Zenon, <2>1, <2>3, <3>1
  <2> QED BY Zenon, <2>2, <2>3
<1>6. requests' \in [Ids -> Seq(Wire)]
  <2>1. requests' = [i \in Ids |-> requests'[i]]
    BY Zenon, <1>3
  <2> QED BY Zenon, <1>5, <2>1
<1>7. ASSUME NEW i \in DOMAIN r.subs
      PROVE  SoundServer(i, r.subs[i], r.retry, DOMAIN r.send, answered, fails') /\ i \in Ids
  BY Zenon, <1>2 DEF Sound
<1>8. ASSUME NEW i \in DOMAIN r.subs, i \in DOMAIN r.send \/ i \in answered
      PROVE  i \in Answered'
  <2>1. i \in Ids
    BY Zenon, <1>7
  <2>2. requests'[i] # <<>> \/ Push!Outcomes(i)' # {}
    BY Zenon, <1>5, <1>8, <2>1
  <2> QED BY Zenon, <2>1, <2>2 DEF Answered
<1>9. ASSUME NEW i \in DOMAIN subscriptions'
      PROVE  SoundServer(i, subscriptions[i], retry_ids, {}, Answered, fails)'
  <2>1. subscriptions'[i] = r.subs[i] /\ i \in DOMAIN r.subs
    BY Zenon, <1>3
  <2>2. Push!Pending(i)' => subscriptions'[i].state_changes # <<>>
    BY Zenon DEF Push!Pending
  <2>3. SoundServer(i, subscriptions'[i], retry_ids', DOMAIN r.send, answered, fails')
    BY Zenon, <1>3, <1>7, <2>1
  <2>4. subscriptions'[i].in_flight => i \in Answered'
    BY Zenon, <1>8, <2>1, <2>3 DEF SoundServer
  <2> QED BY Zenon, <2>2, <2>3, <2>4 DEF SoundServer
<1>10. ServersOK'
  BY Zenon, <1>2, <1>3, <1>9 DEF ServersOK, Sound
<1>11. GivenUpLate
  <2>1. SUFFICES ASSUME NEW i \in DOMAIN subscriptions', Push!Pending(i),
                        subscriptions'[i].state_changes = <<>>
                 PROVE  Len(requests'[i]) > Len(requests[i]) \/ fails'[i] >= AttemptsMax
    BY Zenon DEF GivenUpLate
  <2>2. i \in DOMAIN r.subs /\ r.subs[i].state_changes = <<>>
    BY Zenon, <1>3, <2>1
  <2>3. i \in Ids /\ (i \in DOMAIN r.send \/ fails'[i] >= AttemptsMax)
    BY Zenon, <1>7, <2>1, <2>2 DEF SoundServer
  <2> QED BY Zenon, <1>5, <2>3
<1> QED BY Zenon, <1>2, <1>3, <1>6, <1>10, <1>11 DEF Sound

LEMMA UnchangedTurn ==
  ASSUME ManagerInv
  PROVE  Sound(Push!Unchanged, Answered, fails)
<1>1. \A i \in DOMAIN subscriptions :
        fails[i] = fails[i] /\ (subscriptions[i].in_flight => i \in Answered)
  BY Zenon DEF ManagerInv, ServersOK, SoundServer
<1> QED BY Zenon, <1>1, UnchangedSound

-----------------------------------------------------------------------------
(* The steps of the push manager and of its requests.                      *)

TimesOK ==
  /\ last_verify \in [Push!Owners -> 0..Push!Horizon]
  /\ last_retry \in 0..Push!Horizon
  /\ retry_timeout \in 0..LongSlumber /\ waited \in 0..LongSlumber
  /\ codes \subseteq Ids

LEMMA InboxGrows ==
  ASSUME inbox \in Seq(Events), NEW e, inbox' = Append(inbox, e), NEW i
  PROVE  /\ Push!Outcomes(i) # {} => Push!Outcomes(i)' # {}
         /\ IsOutcomeOf(e, i) => Push!Outcomes(i)' # {}
<1>1. \A k \in DOMAIN inbox : k \in DOMAIN inbox' /\ inbox'[k] = inbox[k]
  BY SMTT(30)
<1>2. Len(inbox) + 1 \in DOMAIN inbox' /\ inbox'[Len(inbox) + 1] = e
  BY SMTT(30)
<1> QED BY Zenon, <1>1, <1>2 DEF Push!Outcomes, IsOutcomeOf

LEMMA InboxAppend ==
  ASSUME InboxOK, NEW e \in Events, inbox' = Append(inbox, e), Len(inbox) < QueueSize,
         e.kind = "update" => e.unregister \cap DOMAIN e.register = {}
  PROVE  InboxOK'
<1>1. inbox' \in Seq(Events) /\ Len(inbox') <= QueueSize
  BY SMTT(30), PushAssumption DEF InboxOK
<1>2. \A k \in DOMAIN inbox' : inbox'[k] = e \/ (k \in DOMAIN inbox /\ inbox'[k] = inbox[k])
  BY SMTT(30) DEF InboxOK
<1> QED BY Zenon, <1>1, <1>2 DEF InboxOK

LEMMA ServersStay ==
  ASSUME ManagerInv, subscriptions' = subscriptions, retry_ids' = retry_ids, fails' = fails,
         Answered \subseteq Answered'
  PROVE  ServersOK'
<1>1. ASSUME NEW i \in DOMAIN subscriptions
      PROVE  SoundServer(i, subscriptions[i], retry_ids, {}, Answered, fails)'
  <2>1. SoundServer(i, subscriptions[i], retry_ids, {}, Answered, fails)
    BY Zenon DEF ManagerInv, ServersOK
  <2>2. Push!Pending(i)' => subscriptions'[i].state_changes # <<>>
    BY Zenon DEF Push!Pending
  <2> QED BY Zenon, <2>1, <2>2 DEF SoundServer
<1> QED BY Zenon, <1>1 DEF ManagerInv, ServersOK

LEMMA AnswerKeeps ==
  ASSUME ManagerInv, NEW id \in Ids, NEW n, NEW ok \in BOOLEAN, Push!Answer(id, n, ok)
  PROVE  ManagerInv'
<1>1. PICK e : e = IF ok THEN [kind |-> "success", id |-> id]
                   ELSE [kind |-> "failure", id |-> id,
                         changes |-> requests[id][n].state_changes]
  BY Zenon
<1>2. /\ n \in DOMAIN requests[id] /\ Len(inbox) < QueueSize
      /\ requests' = [requests EXCEPT ![id] = Push!WithoutNth(@, n)]
      /\ inbox' = Append(inbox, e)
      /\ subscriptions' = subscriptions /\ retry_ids' = retry_ids /\ fails' = fails
  BY Zenon, <1>1 DEF Push!Answer
<1>3. requests[id] \in Seq(Wire) /\ inbox \in Seq(Events)
  BY Zenon DEF ManagerInv, InboxOK
<1>4. requests[id][n].state_changes \in Seq(Change)
  <2>1. PICK s \in Seq(Wire) : s = requests[id]
    BY Zenon, <1>3
  <2>2. s[n] \in Wire
    BY SMTT(30), <1>2, <2>1
  <2> QED BY Zenon, <2>1, <2>2 DEF Wire
<1>5. /\ e \in Events /\ IsOutcomeOf(e, id) /\ e.kind # "update"
  <2>1. CASE ok
    BY Zenon, <1>1, <2>1 DEF Events, IsOutcomeOf
  <2>2. CASE ~ok
    BY Zenon, <1>1, <1>4, <2>2 DEF Events, IsOutcomeOf
  <2> QED BY Zenon, <2>1, <2>2
<1>6. Push!WithoutNth(requests[id], n) \in Seq(Wire)
  <2>1. PICK s \in Seq(Wire) : s = requests[id]
    BY Zenon, <1>3
  <2>2. n \in 1..Len(s)
    BY SMTT(30), <1>2, <2>1
  <2>3. SubSeq(s, 1, n - 1) \in Seq(Wire) /\ SubSeq(s, n + 1, Len(s)) \in Seq(Wire)
    BY SMTT(30), <2>2
  <2>4. SubSeq(s, 1, n - 1) \o SubSeq(s, n + 1, Len(s)) \in Seq(Wire)
    BY SMTT(30), <2>3
  <2> QED BY Zenon, <2>1, <2>4 DEF Push!WithoutNth
<1>7. requests' \in [Ids -> Seq(Wire)] /\ \A i \in Ids \ {id} : requests'[i] = requests[i]
  BY Zenon, <1>2, <1>6 DEF ManagerInv
<1>8. Answered \subseteq Answered'
  BY Zenon, <1>2, <1>3, <1>5, <1>7, InboxGrows DEF Answered
<1>9. InboxOK'
  BY Zenon, <1>2, <1>5, InboxAppend DEF ManagerInv
<1>10. ServersOK'
  BY Zenon, <1>2, <1>8, ServersStay
<1> QED BY Zenon, <1>2, <1>7, <1>9, <1>10 DEF ManagerInv

LEMMA ReceiveKeeps ==
  ASSUME ManagerInv, Push!Receive
  PROVE  /\ ManagerInv' /\ GivenUpLate
         /\ \A i \in DOMAIN subscriptions : ~Unregisters(Head(inbox), i) =>
              i \in DOMAIN subscriptions'
         /\ \A i \in Ids : Registers(Head(inbox), i) => i \in DOMAIN subscriptions'
<1>1. Push!Turn(Push!OnEvent(Head(inbox))) /\ inbox # <<>> /\ inbox' = Tail(inbox)
  BY Zenon DEF Push!Receive
<1>2. \A i \in StillAnswered : requests[i] # <<>> \/ Push!Outcomes(i)' # {}
  BY Zenon DEF StillAnswered
<1>3. requests \in [Ids -> Seq(Wire)]
  BY Zenon DEF ManagerInv
<1>4. /\ ServersOK' /\ retry_ids' \subseteq Ids /\ requests' \in [Ids -> Seq(Wire)]
      /\ DOMAIN subscriptions' = DOMAIN Push!OnEvent(Head(inbox)).subs
      /\ GivenUpLate
  BY Zenon, <1>1, <1>2, <1>3, EventSound, TurnSound
<1>5. InboxOK'
  <2>1. inbox \in Seq(Events) /\ Len(inbox) <= QueueSize
    BY Zenon DEF ManagerInv, InboxOK
  <2>2. inbox' \in Seq(Events) /\ Len(inbox') <= QueueSize
    BY SMTT(30), <1>1, <2>1, PushAssumption
  <2>3. \A k \in DOMAIN inbox' : k + 1 \in DOMAIN inbox /\ inbox'[k] = inbox[k + 1]
    BY SMTT(30), <1>1, <2>1
  <2> QED BY Zenon, <2>2, <2>3 DEF ManagerInv, InboxOK
<1> QED BY Zenon, <1>4, <1>5, EventSound DEF ManagerInv

LEMMA TimeOutKeeps ==
  ASSUME ManagerInv, Push!TimeOut
  PROVE  ManagerInv' /\ GivenUpLate /\ DOMAIN subscriptions' = DOMAIN subscriptions
<1>1. Push!Turn(Push!Unchanged) /\ inbox' = inbox /\ fails' = fails
  BY Zenon DEF Push!TimeOut
<1>2. Sound(Push!Unchanged, Answered, fails')
  BY Zenon, <1>1, UnchangedTurn
<1>3. requests \in [Ids -> Seq(Wire)] /\ fails' \in [Ids -> Nat]
  BY Zenon, <1>1 DEF ManagerInv
<1>4. \A i \in Answered : requests[i] # <<>> \/ Push!Outcomes(i)' # {}
  BY Zenon, <1>1 DEF Answered, Push!Outcomes
<1>5. /\ ServersOK' /\ retry_ids' \subseteq Ids /\ requests' \in [Ids -> Seq(Wire)]
      /\ DOMAIN subscriptions' = DOMAIN Push!Unchanged.subs
      /\ GivenUpLate
  BY Zenon, <1>1, <1>2, <1>3, <1>4, TurnSound
<1>6. InboxOK'
  BY Zenon, <1>1 DEF ManagerInv, InboxOK
<1> QED BY Zenon, <1>3, <1>5, <1>6, UnchangedIs DEF ManagerInv

LEMMA TickKeeps ==
  ASSUME ManagerInv, Push!Tick
  PROVE  ManagerInv' /\ GivenUpLate /\ DOMAIN subscriptions' = DOMAIN subscriptions
<1>1. /\ subscriptions' = [i \in DOMAIN subscriptions |->
                             [subscriptions[i] EXCEPT !.last_request = Push!Older(@)]]
      /\ inbox' = inbox /\ retry_ids' = retry_ids /\ requests' = requests /\ fails' = fails
  BY Zenon DEF Push!Tick
<1>2. DOMAIN subscriptions' = DOMAIN subscriptions
  BY Zenon, <1>1
<1>3. ASSUME NEW i \in DOMAIN subscriptions
      PROVE  /\ subscriptions'[i] \in Server
             /\ subscriptions'[i].num_attempts = subscriptions[i].num_attempts
             /\ subscriptions'[i].in_flight = subscriptions[i].in_flight
             /\ subscriptions'[i].state_changes = subscriptions[i].state_changes
  <2>1. PICK s \in Server : s = subscriptions[i]
    BY Zenon DEF ManagerInv, ServersOK, SoundServer
  <2>2. PICK age : age = Push!Older(s.last_request)
    BY Zenon
  <2>3. age \in 0..Push!Horizon
    BY Zenon, <2>1, <2>2, HorizonBeyond DEF Server
  <2>4. subscriptions'[i] = [s EXCEPT !.last_request = age]
    BY Zenon, <1>1, <2>1, <2>2
  <2> QED BY Zenon, <2>1, <2>3, <2>4 DEF Server
<1>4. Answered' = Answered
  BY Zenon, <1>1 DEF Answered, Push!Outcomes
<1>5. ASSUME NEW i \in DOMAIN subscriptions
      PROVE  SoundServer(i, subscriptions[i], retry_ids, {}, Answered, fails)'
  <2>1. SoundServer(i, subscriptions[i], retry_ids, {}, Answered, fails)
    BY Zenon DEF ManagerInv, ServersOK
  <2>2. Push!Pending(i)' => subscriptions'[i].state_changes # <<>>
    BY Zenon DEF Push!Pending
  <2> QED BY Zenon, <1>1, <1>3, <1>4, <2>1, <2>2 DEF SoundServer
<1>6. ServersOK'
  <2>1. subscriptions' = [i \in DOMAIN subscriptions' |-> subscriptions'[i]]
    BY Zenon, <1>1
  <2> QED BY Zenon, <1>2, <1>5, <2>1 DEF ManagerInv, ServersOK
<1>7. GivenUpLate
  BY Zenon, <1>2, <1>3 DEF GivenUpLate, Push!Pending
<1>8. InboxOK'
  BY Zenon, <1>1 DEF ManagerInv, InboxOK
<1> QED BY Zenon, <1>1, <1>2, <1>6, <1>7, <1>8 DEF ManagerInv

LEMMA SameIsGivenUpLate ==
  ASSUME subscriptions' = subscriptions
  PROVE  GivenUpLate
BY Zenon DEF GivenUpLate, Push!Pending

\* A step of the push manager keeps its invariant.
LEMMA PushStepKeeps ==
  ASSUME ManagerInv, Push!Step
  PROVE  ManagerInv' /\ GivenUpLate
<1>1. CASE Push!Receive
  BY Zenon, <1>1, ReceiveKeeps
<1>2. CASE Push!TimeOut
  BY Zenon, <1>2, TimeOutKeeps
<1>3. CASE Push!Tick
  BY Zenon, <1>3, TickKeeps
<1>4. ASSUME NEW id \in Ids, NEW n, NEW ok \in BOOLEAN, Push!Answer(id, n, ok)
      PROVE  ManagerInv' /\ GivenUpLate
  <2>1. subscriptions' = subscriptions
    BY Zenon, <1>4 DEF Push!Answer
  <2> QED BY Zenon, <1>4, <2>1, AnswerKeeps, SameIsGivenUpLate
<1> QED BY Zenon, <1>1, <1>2, <1>3, <1>4 DEF Push!Step, Push!Post

\* The instants stay within the horizon and the waits within the long slumber.
LEMMA PushStepTimes ==
  ASSUME ManagerInv, TimesOK, Push!Step
  PROVE  TimesOK'
<1> DEFINE H == Push!Horizon
<1>1. H \in Nat /\ 0 \in 0..H /\ RetryInterval \in 0..H
  BY SMTT(30), HorizonBeyond, PushAssumption
<1>2. last_retry \in 0..H /\ retry_timeout \in 0..LongSlumber /\ waited \in 0..LongSlumber
  BY Zenon DEF TimesOK
<1>3. ASSUME NEW m, Push!Turn(m)
      PROVE  last_retry' \in 0..H /\ retry_timeout' \in 0..LongSlumber /\ waited' \in 0..LongSlumber
  <2>1. PICK r : r = Push!EndOfTurn(m)
    BY Zenon
  <2>2. last_retry' = r.last_retry /\ retry_timeout' = r.timeout /\ waited' = 0
    BY Zenon, <1>3, <2>1 DEF Push!Turn
  <2>3. /\ r.last_retry = last_retry \/ r.last_retry = 0
        /\ \/ r.timeout = LongSlumber \/ r.timeout = RetryInterval
           \/ r.timeout = RetryInterval - last_retry /\ ~(last_retry >= RetryInterval)
    BY Zenon, <2>1 DEF Push!EndOfTurn, Push!Sweep, Push!Wait
  <2> HIDE DEF H
  <2> QED BY SMTT(30), <1>1, <1>2, <2>2, <2>3, PushAssumption
<1>4. CASE Push!Receive
  <2>1. PICK e : e = Head(inbox)
    BY Zenon
  <2>2. /\ Push!Turn(Push!OnEvent(e))
        /\ IF e.kind = "update" THEN Push!Verify(e.verify) ELSE UNCHANGED <<last_verify, codes>>
    BY Zenon, <1>4, <2>1 DEF Push!Receive
  <2>3. e \in Events
    BY SMTT(30), <1>4, <2>1 DEF Push!Receive, ManagerInv, InboxOK
  <2>4. last_verify' \in [Push!Owners -> 0..H] /\ codes' \subseteq Ids
    <3>1. CASE e.kind = "update"
      <4>1. PICK asked : last_verify' = [a \in Push!Owners |->
                                           IF a \in asked THEN 0 ELSE last_verify[a]]
        BY Zenon, <2>2, <3>1 DEF Push!Verify
      <4>2. PICK posted \in SUBSET e.verify : codes' = codes \cup posted
        BY Zenon, <2>2, <3>1 DEF Push!Verify
      <4>3. e.verify \subseteq Ids
        BY Zenon, <2>3, <3>1, EventFields
      <4>4. last_verify' \in [Push!Owners -> 0..H]
        BY Zenon, <1>1, <4>1 DEF TimesOK
      <4> QED BY Zenon, <4>2, <4>3, <4>4 DEF TimesOK
    <3>2. CASE e.kind # "update"
      BY Zenon, <2>2, <3>2 DEF TimesOK
    <3> QED BY Zenon, <3>1, <3>2
  <2> QED BY Zenon, <1>3, <2>2, <2>4 DEF TimesOK
<1>5. CASE Push!TimeOut
  <2>1. Push!Turn(Push!Unchanged) /\ last_verify' = last_verify /\ codes' = codes
    BY Zenon, <1>5 DEF Push!TimeOut
  <2> QED BY Zenon, <1>3, <2>1 DEF TimesOK
<1>6. CASE Push!Tick
  <2>1. /\ waited' = Push!Min({waited + 1, LongSlumber})
        /\ last_retry' = Push!Older(last_retry)
        /\ last_verify' = [a \in Push!Owners |-> Push!Older(last_verify[a])]
        /\ retry_timeout' = retry_timeout /\ codes' = codes
    BY Zenon, <1>6 DEF Push!Tick
  <2>2. waited' \in 0..LongSlumber
    BY SMTT(30), <1>2, <2>1, MinOfTwo, PushAssumption
  <2>3. last_retry' \in 0..H /\ last_verify' \in [Push!Owners -> 0..H]
    BY Zenon, <1>2, <2>1, HorizonBeyond DEF TimesOK
  <2> QED BY Zenon, <2>1, <2>2, <2>3 DEF TimesOK
<1>7. ASSUME NEW id \in Ids, NEW n, NEW ok, Push!Answer(id, n, ok)
      PROVE  TimesOK'
  BY Zenon, <1>7 DEF Push!Answer, TimesOK
<1> QED BY Zenon, <1>4, <1>5, <1>6, <1>7 DEF Push!Step, Push!Post

-----------------------------------------------------------------------------
(* Calls, documents and the state manager's channel.                       *)

PictureRec == [verified : Partial(DocRec), unverified : SUBSET Ids]

CallRec ==
  [at : {"idle"}]
    \cup [at : {"begun"}, account : Accounts, push_ids : SUBSET Ids]
    \cup [at : {"read"}, account : Accounts, id : Ids, doc : DocRec]
    \cup [at : {"changed"}, account : Accounts]
    \cup [at : {"listed"}, account : Accounts, ids : SUBSET Ids]
    \cup [at : {"fetched", "told"}, account : Accounts, subs : PictureRec]

StateEvents ==
  [kind : {"shared"}, account : Accounts]
    \cup [kind : {"subscribe"}, conn : Conns]
    \cup [kind : {"publish"}, change : Change]
    \cup [kind : {"subs"}, account : Accounts, subs : PictureRec]
    \cup [kind : {"stop"}]

DocsOK == now \in 0..MaxTime /\ docs \in Partial(DocRec) /\ calls \in [Calls -> CallRec]

QueueOK == queue \in Seq(StateEvents) /\ Len(queue) <= QueueSize

StateInv == DocsOK /\ QueueOK /\ DOMAIN subscribers \subseteq Ids /\ running \in BOOLEAN

LEMMA PartialIs ==
  ASSUME NEW S, NEW f
  PROVE  f \in Partial(S) <=> /\ DOMAIN f \subseteq Ids /\ f = [i \in DOMAIN f |-> f[i]]
                              /\ \A i \in DOMAIN f : f[i] \in S
<1>1. ASSUME f \in Partial(S)
      PROVE  /\ DOMAIN f \subseteq Ids /\ f = [i \in DOMAIN f |-> f[i]]
             /\ \A i \in DOMAIN f : f[i] \in S
  <2>1. PICK ids \in SUBSET Ids : f \in [ids -> S]
    BY Zenon, <1>1 DEF Partial
  <2> QED BY Zenon, <2>1
<1>2. ASSUME DOMAIN f \subseteq Ids, f = [i \in DOMAIN f |-> f[i]],
             \A i \in DOMAIN f : f[i] \in S
      PROVE  f \in Partial(S)
  <2>1. f \in [DOMAIN f -> S]
    BY Zenon, <1>2
  <2> QED BY Zenon, <1>2, <2>1 DEF Partial
<1> QED BY Zenon, <1>1, <1>2

LEMMA CallFields ==
  ASSUME NEW r \in CallRec
  PROVE  /\ r.at = "begun" => r.account \in Accounts /\ r.push_ids \subseteq Ids
         /\ r.at = "read" => r.account \in Accounts /\ r.id \in Ids /\ r.doc \in DocRec
         /\ r.at = "changed" => r.account \in Accounts
         /\ r.at = "listed" => r.account \in Accounts /\ r.ids \subseteq Ids
         /\ r.at \in {"fetched", "told"} =>
              r \in [at : {"fetched", "told"}, account : Accounts, subs : PictureRec]
BY SMTT(20) DEF CallRec

LEMMA StateFields ==
  ASSUME NEW e \in StateEvents
  PROVE  /\ e.kind \in {"shared", "subscribe", "publish", "subs", "stop"}
         /\ e.kind = "shared" => e.account \in Accounts
         /\ e.kind = "subscribe" => e.conn \in Conns
         /\ e.kind = "publish" => e.change \in Change
         /\ e.kind = "subs" => e.account \in Accounts /\ e.subs \in PictureRec
BY SMTT(20) DEF StateEvents

\* A document may be added, rewritten or removed.
LEMMA DocsChange ==
  ASSUME docs \in Partial(DocRec)
  PROVE  /\ \A id \in Ids, d \in DocRec : Insert(docs, id, d) \in Partial(DocRec)
         /\ \A id \in Ids, d \in DocRec :
              [i \in DOMAIN docs |-> IF i = id THEN d ELSE docs[i]] \in Partial(DocRec)
         /\ \A s : Without(docs, s) \in Partial(DocRec)
<1>1. DOMAIN docs \subseteq Ids /\ \A i \in DOMAIN docs : docs[i] \in DocRec
  BY Zenon, PartialIs
<1>2. ASSUME NEW id \in Ids, NEW d \in DocRec
      PROVE  Insert(docs, id, d) \in Partial(DocRec)
  <2>1. Insert(docs, id, d) \in [DOMAIN docs \cup {id} -> DocRec]
    BY Zenon, <1>1 DEF Insert
  <2> QED BY Zenon, <1>1, <2>1 DEF Partial
<1>3. ASSUME NEW id \in Ids, NEW d \in DocRec
      PROVE  [i \in DOMAIN docs |-> IF i = id THEN d ELSE docs[i]] \in Partial(DocRec)
  <2>1. [i \in DOMAIN docs |-> IF i = id THEN d ELSE docs[i]] \in [DOMAIN docs -> DocRec]
    BY Zenon, <1>1
  <2> QED BY Zenon, <1>1, <2>1 DEF Partial
<1>4. ASSUME NEW s
      PROVE  Without(docs, s) \in Partial(DocRec)
  <2>1. Without(docs, s) \in [DOMAIN docs \ s -> DocRec]
    BY Zenon, <1>1 DEF Without
  <2> QED BY Zenon, <1>1, <2>1 DEF Partial
<1> QED BY Zenon, <1>2, <1>3, <1>4

LEMMA PictureOK ==
  ASSUME docs \in Partial(DocRec), NEW ids \in SUBSET DOMAIN docs
  PROVE  Picture(ids) \in PictureRec
<1>1. DOMAIN docs \subseteq Ids /\ \A i \in DOMAIN docs : docs[i] \in DocRec
  BY Zenon, PartialIs
<1> DEFINE current == {i \in ids : docs[i].expires > now}
           listed == {j \in current : docs[j].verified}
           v == [i \in listed |-> docs[i]]
           u == {i \in current : ~docs[i].verified}
<1>2. Picture(ids) = [verified |-> v, unverified |-> u]
  BY Zenon DEF Picture
<1>3. v \in [listed -> DocRec] /\ listed \in SUBSET Ids /\ u \in SUBSET Ids
  BY Zenon, <1>1
<1>4. v \in Partial(DocRec)
  BY Zenon, <1>3 DEF Partial
<1> HIDE DEF v, u
<1> QED BY SMTT(30), <1>2, <1>3, <1>4 DEF PictureRec

LEMMA Enqueued ==
  ASSUME QueueOK, NEW e \in StateEvents, Enqueue(e)
  PROVE  QueueOK'
BY SMTT(30), PushAssumption DEF QueueOK, Enqueue

LEMMA Becomes ==
  ASSUME calls \in [Calls -> CallRec], NEW c \in Calls, NEW r \in CallRec, Become(c, r)
  PROVE  calls' \in [Calls -> CallRec]
BY Zenon DEF Become

\* The states a call goes through.
LEMMA CallStates ==
  /\ Idle \in CallRec
  /\ \A a \in Accounts, s \in SUBSET Ids :
       /\ [at |-> "begun", account |-> a, push_ids |-> s] \in CallRec
       /\ [at |-> "listed", account |-> a, ids |-> s] \in CallRec
  /\ \A a \in Accounts, i \in Ids, d \in DocRec :
       [at |-> "read", account |-> a, id |-> i, doc |-> d] \in CallRec
  /\ \A a \in Accounts : [at |-> "changed", account |-> a] \in CallRec
  /\ \A a \in Accounts, p \in PictureRec :
       [at |-> "fetched", account |-> a, subs |-> p] \in CallRec
  /\ \A r \in [at : {"fetched", "told"}, account : Accounts, subs : PictureRec] :
       [r EXCEPT !.at = "told"] \in CallRec
<1>1. Idle \in CallRec
  BY Zenon DEF Idle, CallRec
<1>2. \A a \in Accounts, s \in SUBSET Ids :
        /\ [at |-> "begun", account |-> a, push_ids |-> s] \in CallRec
        /\ [at |-> "listed", account |-> a, ids |-> s] \in CallRec
  BY Zenon DEF CallRec
<1>3. \A a \in Accounts, i \in Ids, d \in DocRec :
        [at |-> "read", account |-> a, id |-> i, doc |-> d] \in CallRec
  BY Zenon DEF CallRec
<1>4. \A a \in Accounts : [at |-> "changed", account |-> a] \in CallRec
  BY Zenon DEF CallRec
<1>5. \A a \in Accounts, p \in PictureRec :
        [at |-> "fetched", account |-> a, subs |-> p] \in CallRec
  BY Zenon DEF CallRec
<1>6. \A r \in [at : {"fetched", "told"}, account : Accounts, subs : PictureRec] :
        [r EXCEPT !.at = "told"] \in CallRec
  BY Zenon DEF CallRec
<1> QED BY Zenon, <1>1, <1>2, <1>3, <1>4, <1>5, <1>6

\* A PushSubscription/set call keeps the types and leaves the managers alone.
LEMMA CallKeeps ==
  ASSUME DocsOK, QueueOK, NEW c \in Calls, SetCall(c, codes)
  PROVE  /\ DocsOK' /\ QueueOK'
         /\ subscribers' = subscribers /\ running' = running /\ inbox' = inbox
         /\ shared_accounts' = shared_accounts /\ conns' = conns
         /\ shared_accounts_map' = shared_accounts_map
<1> UNCHANGED <<routeVars, conns, running, inbox>>
  BY Zenon DEF SetCall, Begin, Create, ReadDoc, WriteDoc, Destroy, NoChanges, FetchIds,
               FetchDocs, SendShared, SendSubscriptions
<1> SUFFICES DocsOK' /\ QueueOK'
  BY Zenon DEF routeVars
<1>1. /\ now \in 0..MaxTime /\ docs \in Partial(DocRec) /\ calls \in [Calls -> CallRec]
      /\ calls[c] \in CallRec
  BY Zenon DEF DocsOK
<1>2. DOMAIN docs \subseteq Ids /\ \A i \in DOMAIN docs : docs[i] \in DocRec
  BY Zenon, <1>1, PartialIs
<1>3. \A a : Of(a, docs) \in SUBSET Ids
  BY Zenon, <1>2 DEF Of
<1>4. Expiries \subseteq Nat
  BY SMTT(30), <1>1, PushAssumption DEF Expiries
<1>5. ASSUME NEW r \in CallRec, Become(c, r), now' = now, docs' \in Partial(DocRec)
      PROVE  DocsOK'
  BY Zenon, <1>1, <1>5, Becomes DEF DocsOK
<1>6. queue' = queue => QueueOK'
  BY Zenon DEF QueueOK
<1>7. ASSUME NEW a \in Accounts, Begin(c, a)
      PROVE  DocsOK' /\ QueueOK'
  <2>1. /\ Become(c, [at |-> "begun", account |-> a, push_ids |-> Of(a, docs)])
        /\ now' = now /\ docs' = docs /\ queue' = queue
    BY Zenon, <1>7 DEF Begin
  <2>2. [at |-> "begun", account |-> a, push_ids |-> Of(a, docs)] \in CallRec
    BY Zenon, <1>3, CallStates
  <2> QED BY Zenon, <1>1, <1>5, <1>6, <2>1, <2>2
<1>8. ASSUME calls[c].account \in Accounts, Changed(c), now' = now, queue' = queue,
             docs' \in Partial(DocRec)
      PROVE  DocsOK' /\ QueueOK'
  <2>1. Become(c, [at |-> "changed", account |-> calls[c].account])
    BY Zenon, <1>8 DEF Changed
  <2>2. [at |-> "changed", account |-> calls[c].account] \in CallRec
    BY Zenon, <1>8, CallStates
  <2> QED BY Zenon, <1>5, <1>6, <1>8, <2>1, <2>2
<1>9. CASE Create(c)
  <2>1. PICK id \in Ids, url \in Urls, types \in SUBSET Types \ {{}}, expires \in Expiries :
          docs' = Insert(docs, id, [url |-> url, types |-> types, expires |-> expires,
                                    verified |-> FALSE])
    BY Zenon, <1>9 DEF Create
  <2>2. calls[c].account \in Accounts /\ Changed(c) /\ now' = now /\ queue' = queue
    BY Zenon, <1>1, <1>9, CallFields DEF Create
  <2>3. [url |-> url, types |-> types, expires |-> expires, verified |-> FALSE] \in DocRec
    BY Zenon, <1>4 DEF DocRec
  <2>4. docs' \in Partial(DocRec)
    BY Zenon, <1>1, <2>1, <2>3, DocsChange
  <2> QED BY Zenon, <1>8, <2>2, <2>4
<1>10. ASSUME NEW id \in Ids, ReadDoc(c, id)
       PROVE  DocsOK' /\ QueueOK'
  <2>1. /\ calls[c].at = "begun" /\ id \in DOMAIN docs
        /\ Become(c, [at |-> "read", account |-> calls[c].account, id |-> id, doc |-> docs[id]])
        /\ now' = now /\ docs' = docs /\ queue' = queue
    BY Zenon, <1>10 DEF ReadDoc, Of
  <2>2. [at |-> "read", account |-> calls[c].account, id |-> id, doc |-> docs[id]] \in CallRec
    BY Zenon, <1>1, <1>2, <2>1, CallFields, CallStates
  <2> QED BY Zenon, <1>1, <1>5, <1>6, <2>1, <2>2
<1>11. CASE WriteDoc(c, codes)
  <2>1. /\ calls[c].account \in Accounts /\ calls[c].doc \in DocRec /\ calls[c].id \in Ids
        /\ Changed(c) /\ now' = now /\ queue' = queue
    BY Zenon, <1>1, <1>11, CallFields DEF WriteDoc
  <2>2. PICK old \in DocRec : old = calls[c].doc
    BY Zenon, <2>1
  <2>3. PICK new \in [url : {old.url}, types : SUBSET Types \ {{}},
                      expires : Expiries \cup {old.expires},
                      verified : {old.verified, calls[c].id \in codes}] :
          docs' = [i \in DOMAIN docs |-> IF i = calls[c].id THEN new ELSE docs[i]]
    BY Zenon, <1>11, <2>2 DEF WriteDoc
  <2>4. new \in DocRec
    <3>1. old.url \in Urls /\ old.expires \in Nat /\ old.verified \in BOOLEAN
      BY Zenon, <2>2 DEF DocRec
    <3>2. /\ new.url = old.url /\ new.types \in SUBSET Types
          /\ new.expires \in Expiries \cup {old.expires}
          /\ new.verified = old.verified \/ new.verified = (calls[c].id \in codes)
      BY Zenon, <2>3
    <3>3. new.expires \in Nat
      BY Zenon, <1>4, <3>1, <3>2
    <3>4. new.verified \in BOOLEAN
      <4>1. (calls[c].id \in codes) \in BOOLEAN
        BY SMTT(30)
      <4>2. CASE new.verified = old.verified
        BY Zenon, <3>1, <4>2
      <4>3. CASE new.verified = (calls[c].id \in codes)
        BY Zenon, <4>1, <4>3
      <4> QED BY Zenon, <3>2, <4>2, <4>3
    <3>5. new = [url |-> new.url, types |-> new.types, expires |-> new.expires,
                 verified |-> new.verified]
      BY Zenon, <2>3
    <3> QED BY Zenon, <3>1, <3>2, <3>3, <3>4, <3>5 DEF DocRec
  <2>5. docs' \in Partial(DocRec)
    BY Zenon, <1>1, <2>1, <2>3, <2>4, DocsChange
  <2> QED BY Zenon, <1>8, <2>1, <2>5
<1>12. ASSUME NEW id \in Ids, Destroy(c, id)
       PROVE  DocsOK' /\ QueueOK'
  <2>1. /\ calls[c].account \in Accounts /\ Changed(c) /\ now' = now /\ queue' = queue
        /\ docs' = Without(docs, {id})
    BY Zenon, <1>1, <1>12, CallFields DEF Destroy
  <2> QED BY Zenon, <1>1, <1>8, <2>1, DocsChange
<1>13. CASE NoChanges(c)
  BY Zenon, <1>1, <1>5, <1>6, <1>13, CallStates DEF NoChanges
<1>14. CASE FetchIds(c)
  <2>1. /\ calls[c].account \in Accounts /\ now' = now /\ docs' = docs /\ queue' = queue
        /\ Become(c, [at |-> "listed", account |-> calls[c].account,
                      ids |-> Of(calls[c].account, docs)])
    BY Zenon, <1>1, <1>14, CallFields DEF FetchIds
  <2>2. [at |-> "listed", account |-> calls[c].account,
         ids |-> Of(calls[c].account, docs)] \in CallRec
    BY Zenon, <1>3, <2>1, CallStates
  <2> QED BY Zenon, <1>1, <1>5, <1>6, <2>1, <2>2
<1>15. CASE FetchDocs(c)
  <2>1. calls[c].account \in Accounts /\ now' = now /\ docs' = docs /\ queue' = queue
    BY Zenon, <1>1, <1>15, CallFields DEF FetchDocs
  <2>2. CASE calls[c].ids \subseteq DOMAIN docs
    <3>1. Become(c, [at |-> "fetched", account |-> calls[c].account,
                     subs |-> Picture(calls[c].ids)])
      BY Zenon, <1>15, <2>2 DEF FetchDocs
    <3>2. [at |-> "fetched", account |-> calls[c].account,
           subs |-> Picture(calls[c].ids)] \in CallRec
      BY Zenon, <1>1, <2>1, <2>2, PictureOK, CallStates
    <3> QED BY Zenon, <1>1, <1>5, <1>6, <2>1, <3>1, <3>2
  <2>3. CASE ~(calls[c].ids \subseteq DOMAIN docs)
    <3>1. Become(c, Idle)
      BY Zenon, <1>15, <2>3 DEF FetchDocs
    <3> QED BY Zenon, <1>1, <1>5, <1>6, <2>1, <3>1, CallStates
  <2> QED BY Zenon, <2>2, <2>3
<1>16. CASE SendShared(c)
  <2>1. /\ calls[c] \in [at : {"fetched", "told"}, account : Accounts, subs : PictureRec]
        /\ now' = now /\ docs' = docs /\ Become(c, [calls[c] EXCEPT !.at = "told"])
        /\ Enqueue([kind |-> "shared", account |-> calls[c].account])
    BY Zenon, <1>1, <1>16, CallFields DEF SendShared
  <2>2. [calls[c] EXCEPT !.at = "told"] \in CallRec /\ calls[c].account \in Accounts
    BY Zenon, <2>1, CallStates
  <2>3. [kind |-> "shared", account |-> calls[c].account] \in StateEvents
    BY <2>2 DEF StateEvents
  <2> QED BY Zenon, <1>1, <1>5, <2>1, <2>2, <2>3, Enqueued
<1>17. CASE SendSubscriptions(c)
  <2>1. /\ calls[c] \in [at : {"fetched", "told"}, account : Accounts, subs : PictureRec]
        /\ now' = now /\ docs' = docs /\ Become(c, Idle)
        /\ Enqueue([kind |-> "subs", account |-> calls[c].account, subs |-> calls[c].subs])
    BY Zenon, <1>1, <1>17, CallFields DEF SendSubscriptions
  <2>2. calls[c].account \in Accounts /\ calls[c].subs \in PictureRec
    BY Zenon, <2>1
  <2>3. [kind |-> "subs", account |-> calls[c].account, subs |-> calls[c].subs] \in StateEvents
    BY Zenon, <2>2 DEF StateEvents
  <2> QED BY Zenon, <1>1, <1>5, <2>1, <2>3, Enqueued, CallStates
<1> QED
  BY Zenon, <1>7, <1>9, <1>10, <1>11, <1>12, <1>13, <1>14, <1>15, <1>16, <1>17 DEF SetCall

-----------------------------------------------------------------------------
(* What the state manager tells the push manager.                          *)

Sends(e) ==
  /\ e \in Events /\ Len(inbox) < QueueSize /\ inbox' = Append(inbox, e)
  /\ e.kind = "update" => e.unregister \cap DOMAIN e.register = {}

\* Every subscriber of the new table was one before, and the push manager is not
\* told to forget it, or it is announced to the push manager.
Tells ==
  \/ inbox' = inbox /\ DOMAIN subscribers' \subseteq DOMAIN subscribers
  \/ \E e : /\ Sends(e)
            /\ \A i \in DOMAIN subscribers' :
                 Registers(e, i) \/ (i \in DOMAIN subscribers /\ ~Unregisters(e, i))

LEMMA Forgotten ==
  ASSUME NEW hourly \in BOOLEAN,
         IF hourly THEN Forget(Invalid) ELSE UNCHANGED subscribers
  PROVE  DOMAIN subscribers' \subseteq DOMAIN subscribers
<1>1. CASE hourly
  <2>1. subscribers' = [i \in DOMAIN subscribers \ Invalid |-> subscribers[i]]
    BY Zenon, <1>1 DEF Forget, Without
  <2> QED BY Zenon, <2>1
<1>2. CASE ~hourly
  BY Zenon, <1>2
<1> QED BY Zenon, <1>1, <1>2

LEMMA PublishTells ==
  ASSUME DOMAIN subscribers \subseteq Ids, NEW change \in Change, NEW hourly \in BOOLEAN,
         PublishChange(change, hourly)
  PROVE  Tells /\ DOMAIN subscribers' \subseteq DOMAIN subscribers
<1> DEFINE live == ToPush(change) \ Invalid
           e == [kind |-> "push", ids |-> live, change |-> change]
<1>1. live \in SUBSET Ids
  BY Zenon DEF ToPush
<1>2. DOMAIN subscribers' \subseteq DOMAIN subscribers
  <2>1. IF (hourly \/ ToPush(change) # live) THEN Forget(Invalid) ELSE UNCHANGED subscribers
    BY Zenon DEF PublishChange
  <2> HIDE DEF live
  <2>2. PICK purge \in BOOLEAN : purge = (hourly \/ ToPush(change) # live)
    BY Zenon
  <2> QED BY Zenon, <2>1, <2>2, Forgotten
<1>3. IF live = {} THEN inbox' = inbox ELSE ToPushManager(e)
  BY Zenon DEF PublishChange
<1> HIDE DEF live
<1>4. e \in Events /\ e.kind # "update" /\ e.kind # "reset"
  BY <1>1 DEF Events
<1>5. ToPushManager(e) => Sends(e)
  BY Zenon, <1>4 DEF Sends, ToPushManager
<1>6. \A i : ~Unregisters(e, i)
  BY Zenon, <1>4 DEF Unregisters
<1> HIDE DEF e
<1> QED BY Zenon, <1>2, <1>3, <1>5, <1>6 DEF Tells

LEMMA UpdateTells ==
  ASSUME DOMAIN subscribers \subseteq Ids, NEW account \in Accounts, NEW subs \in PictureRec,
         NEW hourly \in BOOLEAN, UpdateSubscriptions(account, subs, hourly)
  PROVE  Tells /\ DOMAIN subscribers' \subseteq Ids
<1> DEFINE V == DOMAIN subs.verified
           removed == Of(account, subscribers) \ V
           kept == [i \in V \cup (DOMAIN subscribers \ removed) |->
                      IF i \in V
                      THEN [types |-> subs.verified[i].types, expires |-> subs.verified[i].expires]
                      ELSE subscribers[i]]
           register == [i \in V |-> subs.verified[i].url]
           e == [kind |-> "update", unregister |-> removed, verify |-> subs.unverified,
                 register |-> register]
<1>1. subs.verified \in Partial(DocRec) /\ subs.unverified \in SUBSET Ids
  BY Zenon DEF PictureRec
<1>2. V \subseteq Ids /\ \A i \in V : subs.verified[i] \in DocRec
  BY Zenon, <1>1, PartialIs
<1>3. register \in Partial(Urls)
  <2>1. \A i \in V : subs.verified[i].url \in Urls
    BY Zenon, <1>2 DEF DocRec
  <2>2. register \in [V -> Urls]
    BY Zenon, <2>1
  <2> QED BY Zenon, <1>2, <2>2 DEF Partial
<1>4. removed \in SUBSET Ids /\ removed \cap V = {} /\ DOMAIN register = V
  BY Zenon DEF Of
<1>5. DOMAIN subscribers' \subseteq V \cup (DOMAIN subscribers \ removed)
  <2>1. subscribers' = IF hourly THEN [i \in {j \in DOMAIN kept : kept[j].expires > now} |-> kept[i]]
                       ELSE kept
    BY Zenon DEF UpdateSubscriptions
  <2>2. DOMAIN kept = V \cup (DOMAIN subscribers \ removed)
    BY Zenon
  <2> HIDE DEF kept
  <2>3. DOMAIN subscribers' \subseteq DOMAIN kept
    BY Zenon, <2>1
  <2> QED BY Zenon, <2>2, <2>3
<1>6. IF removed \cup subs.unverified \cup V = {} THEN inbox' = inbox ELSE ToPushManager(e)
  BY Zenon DEF UpdateSubscriptions
<1> HIDE DEF removed, register
<1>7. /\ e \in Events /\ e.kind = "update" /\ e.unregister = removed /\ e.register = register
      /\ e.kind # "reset"
  BY Zenon, <1>1, <1>3, <1>4 DEF Events
<1> HIDE DEF e
<1>8. ToPushManager(e) => Sends(e)
  BY Zenon, <1>4, <1>7 DEF Sends, ToPushManager
<1>9. /\ \A i \in V : Registers(e, i)
      /\ \A i \in DOMAIN subscribers \ removed : ~Unregisters(e, i)
  BY Zenon, <1>4, <1>7 DEF Registers, Unregisters
<1> HIDE DEF V
<1>10. DOMAIN subscribers' \subseteq Ids
  BY Zenon, <1>2, <1>5
<1>11. CASE removed \cup subs.unverified \cup V = {}
  BY Zenon, <1>5, <1>6, <1>10, <1>11 DEF Tells
<1>12. CASE removed \cup subs.unverified \cup V # {}
  <2>1. \A i \in DOMAIN subscribers' :
          Registers(e, i) \/ (i \in DOMAIN subscribers /\ ~Unregisters(e, i))
    BY Zenon, <1>5, <1>9
  <2> QED BY Zenon, <1>6, <1>8, <1>10, <1>12, <2>1 DEF Tells
<1> QED BY Zenon, <1>11, <1>12

LEMMA ManageTells ==
  ASSUME StateInv, NEW hourly \in BOOLEAN, Manage(hourly)
  PROVE  Tells /\ StateInv'
<1>1. PICK e : e = Head(queue)
  BY Zenon
<1>2. queue # <<>> /\ queue' = Tail(queue) /\ UNCHANGED <<docVars, running>>
  BY Zenon DEF Manage
<1>3. queue \in Seq(StateEvents) /\ Len(queue) <= QueueSize /\ DOMAIN subscribers \subseteq Ids
  BY Zenon DEF StateInv, QueueOK
<1>4. e \in StateEvents /\ queue' \in Seq(StateEvents) /\ Len(queue') <= QueueSize
  BY SMTT(30), <1>1, <1>2, <1>3, PushAssumption
<1>5. SUFFICES Tells /\ DOMAIN subscribers' \subseteq Ids
  BY Zenon, <1>2, <1>4 DEF StateInv, QueueOK, DocsOK, docVars
<1>6. CASE e.kind = "shared" /\ Share(e.account, hourly)
  <2>1. DOMAIN subscribers' \subseteq DOMAIN subscribers
    BY Zenon, <1>6, Forgotten DEF Share, routeVars
  <2>2. inbox' = inbox
    BY Zenon, <1>6 DEF Share
  <2> QED BY Zenon, <1>3, <2>1, <2>2 DEF Tells
<1>7. CASE e.kind = "subscribe" /\ AddConn(e.conn, hourly)
  BY Zenon, <1>3, <1>7, Forgotten DEF AddConn, Tells
<1>8. CASE e.kind = "publish" /\ PublishChange(e.change, hourly)
  BY Zenon, <1>3, <1>4, <1>8, StateFields, PublishTells
<1>9. CASE e.kind = "subs" /\ UpdateSubscriptions(e.account, e.subs, hourly)
  BY Zenon, <1>3, <1>4, <1>9, StateFields, UpdateTells
<1> QED BY Zenon, <1>1, <1>6, <1>7, <1>8, <1>9 DEF Manage

\* An event that is sent keeps the push manager's invariant.
LEMMA SendKeeps ==
  ASSUME ManagerInv, UNCHANGED pushVars, NEW e, Sends(e)
  PROVE  ManagerInv'
<1>1. /\ subscriptions' = subscriptions /\ retry_ids' = retry_ids /\ requests' = requests
      /\ fails' = fails
  BY Zenon DEF pushVars
<1>2. e \in Events /\ inbox' = Append(inbox, e) /\ inbox \in Seq(Events)
  BY Zenon DEF Sends, ManagerInv, InboxOK
<1>3. Answered \subseteq Answered'
  BY Zenon, <1>1, <1>2, InboxGrows DEF Answered
<1>4. InboxOK'
  BY Zenon, InboxAppend DEF ManagerInv, Sends
<1> QED BY Zenon, <1>1, <1>3, <1>4, ServersStay DEF ManagerInv

LEMMA QuietKeeps ==
  ASSUME ManagerInv, UNCHANGED pushVars, inbox' = inbox
  PROVE  ManagerInv'
<1>1. /\ subscriptions' = subscriptions /\ retry_ids' = retry_ids /\ requests' = requests
      /\ fails' = fails
  BY Zenon DEF pushVars
<1>2. Answered' = Answered
  BY Zenon, <1>1 DEF Answered, Push!Outcomes
<1>3. ServersOK'
  BY Zenon, <1>1, <1>2, ServersStay
<1> QED BY Zenon, <1>1, <1>3 DEF ManagerInv, InboxOK

\* A subscriber stays registered when the event sent does not unregister it, and
\* one that the event registers becomes registered.
LEMMA SendRegisters ==
  ASSUME inbox \in Seq(Events), subscriptions' = subscriptions, NEW e, Sends(e), NEW i
  PROVE  /\ Registered(i) /\ ~Unregisters(e, i) => Registered(i)'
         /\ Registers(e, i) => Registered(i)'
<1> PICK n : n = Len(inbox) + 1
  OBVIOUS
<1>1. inbox' = Append(inbox, e)
  BY Zenon DEF Sends
<1>2. /\ DOMAIN inbox' = DOMAIN inbox \cup {n} /\ inbox'[n] = e
      /\ \A k \in DOMAIN inbox : inbox'[k] = inbox[k]
  BY SMTT(30), <1>1
<1>3. \A j \in DOMAIN inbox' : ~(j > n)
  BY SMTT(30), <1>1
<1>4. ASSUME ~Unregisters(e, i), NEW k, KeptAfter(i, k)
      PROVE  KeptAfter(i, k)'
  BY Zenon, <1>2, <1>4 DEF KeptAfter, Unregisters
<1>5. ASSUME Registers(e, i)
      PROVE  Registered(i)'
  <2>1. KeptAfter(i, n)'
    BY Zenon, <1>3 DEF KeptAfter
  <2>2. Registers(inbox[n], i)'
    BY Zenon, <1>2, <1>5 DEF Registers
  <2> QED BY Zenon, <1>2, <2>1, <2>2 DEF Registered
<1>6. ASSUME Registered(i), ~Unregisters(e, i)
      PROVE  Registered(i)'
  <2>1. CASE i \in DOMAIN subscriptions /\ KeptAfter(i, 0)
    BY Zenon, <1>4, <1>6, <2>1 DEF Registered
  <2>2. ASSUME NEW k \in DOMAIN inbox, Registers(inbox[k], i), KeptAfter(i, k)
        PROVE  Registered(i)'
    <3>1. KeptAfter(i, k)'
      BY Zenon, <1>4, <1>6, <2>2
    <3>2. k \in DOMAIN inbox' /\ Registers(inbox[k], i)'
      BY Zenon, <1>2, <2>2 DEF Registers
    <3> QED BY Zenon, <3>1, <3>2 DEF Registered
  <2> QED BY Zenon, <1>6, <2>1, <2>2 DEF Registered
<1> QED BY Zenon, <1>5, <1>6

\* Reading its channel the push manager keeps what it will know in the end.
LEMMA ReceiveRegisters ==
  ASSUME ManagerInv, Push!Receive, NEW i \in Ids, Registered(i)
  PROVE  Registered(i)'
<1>1. inbox # <<>> /\ inbox' = Tail(inbox) /\ inbox \in Seq(Events)
  BY Zenon DEF Push!Receive, ManagerInv, InboxOK
<1>2. /\ \A k \in DOMAIN inbox' : k + 1 \in DOMAIN inbox /\ inbox'[k] = inbox[k + 1] /\ k > 0
      /\ 1 \in DOMAIN inbox /\ inbox[1] = Head(inbox) /\ 1 > 0
  BY SMTT(30), <1>1
<1>3. ASSUME NEW k \in {0, 1}, KeptAfter(i, k)
      PROVE  KeptAfter(i, 0)'
  <2>1. \A j \in DOMAIN inbox' : j + 1 > k
    BY SMTT(30), <1>1, <1>3
  <2> QED BY Zenon, <1>2, <1>3, <2>1 DEF KeptAfter, Unregisters
<1>4. CASE i \in DOMAIN subscriptions /\ KeptAfter(i, 0)
  <2>1. ~Unregisters(Head(inbox), i)
    BY Zenon, <1>2, <1>4 DEF KeptAfter
  <2>2. i \in DOMAIN subscriptions'
    BY Zenon, <1>4, <2>1, ReceiveKeeps
  <2> QED BY Zenon, <1>3, <1>4, <2>2 DEF Registered
<1>5. ASSUME NEW k \in DOMAIN inbox, Registers(inbox[k], i), KeptAfter(i, k)
      PROVE  Registered(i)'
  <2>1. CASE k = 1
    <3>1. i \in DOMAIN subscriptions'
      BY Zenon, <1>2, <1>5, <2>1, ReceiveKeeps
    <3>2. KeptAfter(i, 0)'
      BY Zenon, <1>3, <1>5, <2>1
    <3> QED BY Zenon, <3>1, <3>2 DEF Registered
  <2>2. CASE k # 1
    <3>1. k - 1 \in DOMAIN inbox' /\ inbox'[k - 1] = inbox[k]
      BY SMTT(30), <1>1, <1>5, <2>2
    <3>2. \A j \in DOMAIN inbox' : j > k - 1 => j + 1 > k
      BY SMTT(30), <1>1, <1>5
    <3>3. KeptAfter(i, k - 1)'
      BY Zenon, <1>2, <1>5, <3>2 DEF KeptAfter, Unregisters
    <3>4. Registers(inbox[k - 1], i)'
      BY Zenon, <1>5, <3>1 DEF Registers
    <3> QED BY Zenon, <3>1, <3>3, <3>4 DEF Registered
  <2> QED BY Zenon, <2>1, <2>2
<1> QED BY Zenon, <1>4, <1>5 DEF Registered

\* An answer on the channel registers and unregisters nothing.
LEMMA AnswerSends ==
  ASSUME ManagerInv, NEW id \in Ids, NEW n, NEW ok \in BOOLEAN, Push!Answer(id, n, ok)
  PROVE  \E e : Sends(e) /\ \A i : ~Unregisters(e, i)
<1>1. PICK e : e = IF ok THEN [kind |-> "success", id |-> id]
                   ELSE [kind |-> "failure", id |-> id,
                         changes |-> requests[id][n].state_changes]
  BY Zenon
<1>2. inbox' = Append(inbox, e) /\ Len(inbox) < QueueSize /\ n \in DOMAIN requests[id]
  BY Zenon, <1>1 DEF Push!Answer
<1>3. requests[id][n].state_changes \in Seq(Change)
  <2>1. PICK s \in Seq(Wire) : s = requests[id]
    BY Zenon DEF ManagerInv
  <2>2. s[n] \in Wire
    BY SMTT(30), <1>2, <2>1
  <2> QED BY Zenon, <2>1, <2>2 DEF Wire
<1>4. e \in Events /\ e.kind # "update" /\ e.kind # "reset"
  <2>1. CASE ok
    BY Zenon, <1>1, <2>1 DEF Events
  <2>2. CASE ~ok
    BY Zenon, <1>1, <1>3, <2>2 DEF Events
  <2> QED BY Zenon, <2>1, <2>2
<1> QED BY Zenon, <1>2, <1>4 DEF Sends, Unregisters

LEMMA TellsKeeps ==
  ASSUME ManagerInv, UNCHANGED pushVars, Tells, running' = running
  PROVE  ManagerInv' /\ (RoutedIsRegistered => RoutedIsRegistered')
<1>1. subscriptions' = subscriptions /\ inbox \in Seq(Events)
  BY Zenon DEF pushVars, ManagerInv, InboxOK
<1>2. CASE inbox' = inbox /\ DOMAIN subscribers' \subseteq DOMAIN subscribers
  <2>1. \A i : Registered(i)' = Registered(i)
    BY Zenon, <1>1, <1>2 DEF Registered, KeptAfter, Registers, Unregisters
  <2> QED BY Zenon, <1>2, <2>1, QuietKeeps DEF RoutedIsRegistered
<1>3. ASSUME NEW e, Sends(e),
             \A i \in DOMAIN subscribers' :
               Registers(e, i) \/ (i \in DOMAIN subscribers /\ ~Unregisters(e, i))
      PROVE  ManagerInv' /\ (RoutedIsRegistered => RoutedIsRegistered')
  <2>1. ManagerInv'
    BY Zenon, <1>3, SendKeeps
  <2>2. ASSUME RoutedIsRegistered, running', NEW i \in DOMAIN subscribers'
        PROVE  Registered(i)'
    <3>1. i \in DOMAIN subscribers => Registered(i)
      BY Zenon, <2>2 DEF RoutedIsRegistered
    <3> QED BY Zenon, <1>1, <1>3, <2>2, <3>1, SendRegisters
  <2> QED BY Zenon, <2>1, <2>2 DEF RoutedIsRegistered
<1> QED BY Zenon, <1>2, <1>3 DEF Tells

\* Steps that only send the state manager an event, or not even that.
LEMMA EnqueueKeeps ==
  ASSUME StateInv, NEW e \in StateEvents, Enqueue(e),
         UNCHANGED <<now, docs, calls, subscribers, running, inbox>>
  PROVE  StateInv' /\ Tells
<1>1. QueueOK'
  BY Zenon, Enqueued DEF StateInv
<1> QED BY Zenon, <1>1 DEF StateInv, DocsOK, Tells

LEMMA ConnectionKeeps ==
  ASSUME StateInv, NEW n \in Conns, Connection(n)
  PROVE  StateInv' /\ Tells /\ running' = running
<1>1. ASSUME NEW a \in Accounts, Connect(n, a)
      PROVE  StateInv' /\ Tells /\ running' = running
  <2>1. [kind |-> "shared", account |-> a] \in StateEvents
    BY Zenon DEF StateEvents
  <2> QED BY Zenon, <1>1, <2>1, EnqueueKeeps DEF Connect, docVars, routeVars
<1>2. ASSUME NEW types, Subscribe(n, types)
      PROVE  StateInv' /\ Tells /\ running' = running
  <2>1. [kind |-> "subscribe", conn |-> n] \in StateEvents
    BY Zenon DEF StateEvents
  <2> QED BY Zenon, <1>2, <2>1, EnqueueKeeps DEF Subscribe, docVars, routeVars
<1>3. CASE Disconnect(n)
  BY Zenon, <1>3 DEF Disconnect, docVars, routeVars, StateInv, DocsOK, QueueOK, Tells
<1>4. ASSUME NEW change, HandOver(n, change)
      PROVE  StateInv' /\ Tells /\ running' = running
  BY Zenon, <1>4 DEF HandOver, docVars, routeVars, StateInv, DocsOK, QueueOK, Tells
<1> QED BY Zenon, <1>1, <1>2, <1>3, <1>4 DEF Connection

LEMMA StopKeeps ==
  ASSUME StateInv, ManagerInv, UNCHANGED pushVars, Stop
  PROVE  StateInv' /\ ManagerInv' /\ RoutedIsRegistered'
<1>1. [kind |-> "reset"] \in Events /\ [kind |-> "reset"].kind # "update"
  BY Zenon DEF Events
<1>2. Sends([kind |-> "reset"]) /\ running' = FALSE /\ queue # <<>> /\ queue' = Tail(queue)
  BY Zenon, <1>1 DEF Stop, Sends, ToPushManager
<1>3. queue \in Seq(StateEvents) /\ Len(queue) <= QueueSize
  BY Zenon DEF StateInv, QueueOK
<1>4. QueueOK'
  BY SMTT(30), <1>2, <1>3, PushAssumption DEF QueueOK
<1>5. StateInv'
  BY Zenon, <1>2, <1>4 DEF StateInv, DocsOK, Stop, docVars, routeVars
<1>6. ManagerInv'
  BY Zenon, <1>2, SendKeeps
<1> QED BY Zenon, <1>2, <1>5, <1>6 DEF RoutedIsRegistered

LEMMA StateStepKeeps ==
  ASSUME StateInv, ManagerInv, UNCHANGED pushVars, StateStep \/ PublishSome
  PROVE  StateInv' /\ ManagerInv' /\ (RoutedIsRegistered => RoutedIsRegistered')
<1>1. ASSUME StateInv', Tells, running' = running
      PROVE  StateInv' /\ ManagerInv' /\ (RoutedIsRegistered => RoutedIsRegistered')
  BY Zenon, <1>1, TellsKeeps
<1>2. ASSUME NEW c \in Calls, SetCall(c, codes)
      PROVE  StateInv' /\ Tells /\ running' = running
  <2>1. DocsOK /\ QueueOK
    BY Zenon DEF StateInv
  <2> QED BY Zenon, <1>2, <2>1, CallKeeps DEF StateInv, Tells
<1>3. ASSUME NEW hourly \in BOOLEAN, Manage(hourly)
      PROVE  StateInv' /\ Tells /\ running' = running
  BY Zenon, <1>3, ManageTells DEF Manage
<1>4. ASSUME NEW a, NEW token, Grant(a, token)
      PROVE  StateInv' /\ Tells /\ running' = running
  BY Zenon, <1>4 DEF Grant, routeVars, StateInv, DocsOK, QueueOK, Tells
<1>5. CASE SendStop
  <2>1. [kind |-> "stop"] \in StateEvents
    BY Zenon DEF StateEvents
  <2>2. StateInv' /\ Tells /\ running' = running
    BY Zenon, <1>5, <2>1, EnqueueKeeps DEF SendStop, docVars, routeVars
  <2> QED BY Zenon, <1>1, <2>2
<1>6. CASE Advance
  <2>1. now' \in 0..MaxTime
    BY SMTT(30), <1>6, PushAssumption DEF Advance, StateInv, DocsOK
  <2>2. StateInv' /\ Tells /\ running' = running
    BY Zenon, <1>6, <2>1 DEF Advance, routeVars, StateInv, DocsOK, QueueOK, Tells
  <2> QED BY Zenon, <1>1, <2>2
<1>7. CASE PublishSome
  <2>1. PICK a \in Accounts, types \in Publications : Publish(a, types)
    BY Zenon, <1>7 DEF PublishSome
  <2>2. [kind |-> "publish", change |-> [account |-> a, types |-> types]] \in StateEvents
    BY Zenon DEF StateEvents, Change
  <2>3. StateInv' /\ Tells /\ running' = running
    BY Zenon, <2>1, <2>2, EnqueueKeeps DEF Publish, docVars, routeVars
  <2> QED BY Zenon, <1>1, <2>3
<1> QED BY Zenon, <1>1, <1>2, <1>3, <1>4, <1>5, <1>6, <1>7, ConnectionKeeps, StopKeeps
        DEF StateStep

-----------------------------------------------------------------------------
(* The two managers together.                                              *)

ServiceInv ==
  /\ StateInv /\ ManagerInv /\ TimesOK
  /\ restarts \in 0..MaxRestarts
  /\ RoutedIsRegistered

\* What a start, the first or a later one, gives.
Fresh ==
  /\ queue = <<>> /\ subscribers = <<>> /\ inbox = <<>> /\ subscriptions = <<>>
  /\ calls = [c \in Calls |-> Idle]
  /\ retry_ids = {} /\ requests = [i \in Ids |-> <<>>] /\ fails = [i \in Ids |-> 0]
  /\ last_verify = [a \in Push!Owners |-> Push!Never]
  /\ last_retry = 0 /\ retry_timeout = LongSlumber /\ waited = 0
  /\ running = TRUE

\* What a restart keeps.
Stored == now \in 0..MaxTime /\ docs \in Partial(DocRec) /\ codes \subseteq Ids

LEMMA FreshInv ==
  Fresh /\ Stored => StateInv /\ ManagerInv /\ TimesOK /\ RoutedIsRegistered
<1> SUFFICES ASSUME Fresh, now \in 0..MaxTime, docs \in Partial(DocRec), codes \subseteq Ids
             PROVE  StateInv /\ ManagerInv /\ TimesOK /\ RoutedIsRegistered
  BY Zenon DEF Stored
<1>1. DOMAIN subscribers = {} /\ DOMAIN subscriptions = {} /\ DOMAIN inbox = {}
  BY SMTT(30) DEF Fresh
<1>2. QueueOK /\ InboxOK
  <2>1. queue = <<>> /\ inbox = <<>>
    BY Zenon DEF Fresh
  <2>2. queue \in Seq(StateEvents) /\ Len(queue) <= QueueSize
    BY SMTT(30), <2>1, PushAssumption
  <2>3. inbox \in Seq(Events) /\ Len(inbox) <= QueueSize
    BY SMTT(30), <2>1, PushAssumption
  <2> QED BY Zenon, <1>1, <2>2, <2>3 DEF QueueOK, InboxOK
<1>3. calls \in [Calls -> CallRec]
  BY Zenon, CallStates DEF Fresh
<1>4. StateInv
  BY Zenon, <1>1, <1>2, <1>3 DEF StateInv, DocsOK, Fresh
<1>5. subscriptions = [i \in DOMAIN subscriptions |-> subscriptions[i]]
  BY SMTT(30), <1>1 DEF Fresh
<1>6. ServersOK
  BY Zenon, <1>1, <1>5 DEF ServersOK
<1>7. requests \in [Ids -> Seq(Wire)] /\ fails \in [Ids -> Nat]
  <2>1. <<>> \in Seq(Wire) /\ 0 \in Nat
    BY SMTT(30)
  <2> QED BY Zenon, <2>1 DEF Fresh
<1>8. ManagerInv
  BY Zenon, <1>2, <1>6, <1>7 DEF ManagerInv, Fresh
<1>9. TimesOK
  <2>1. Push!Horizon \in Nat /\ Push!Never \in 0..Push!Horizon
    BY Zenon, HorizonBeyond
  <2>2. last_retry \in 0..Push!Horizon /\ retry_timeout \in 0..LongSlumber /\ waited \in 0..LongSlumber
    BY SMTT(30), <2>1, PushAssumption DEF Fresh
  <2>3. last_verify \in [Push!Owners -> 0..Push!Horizon]
    BY Zenon, <2>1 DEF Fresh
  <2> QED BY Zenon, <2>2, <2>3 DEF TimesOK
<1> QED BY Zenon, <1>1, <1>4, <1>8, <1>9 DEF RoutedIsRegistered

LEMMA InitInv == Init => ServiceInv
<1> SUFFICES ASSUME Init PROVE ServiceInv
  BY Zenon
<1>1. Fresh /\ codes = {} /\ docs = <<>> /\ now = 0 /\ restarts = 0
  BY Zenon DEF Init, StateInit, Push!Init, Fresh
<1>2. now \in 0..MaxTime /\ restarts \in 0..MaxRestarts
  BY SMTT(30), <1>1, PushAssumption
<1>3. docs \in Partial(DocRec)
  <2>1. DOMAIN docs = {} /\ docs = [i \in DOMAIN docs |-> docs[i]]
    BY SMTT(30), <1>1
  <2> QED BY Zenon, <2>1, PartialIs
<1> QED BY Zenon, <1>1, <1>2, <1>3, FreshInv DEF ServiceInv, Stored

LEMMA PushStepRegisters ==
  ASSUME ManagerInv, Push!Step, NEW i \in Ids, Registered(i)
  PROVE  Registered(i)'
<1>1. ASSUME inbox' = inbox, DOMAIN subscriptions' = DOMAIN subscriptions
      PROVE  Registered(i)'
  BY Zenon, <1>1 DEF Registered, KeptAfter, Registers, Unregisters
<1>2. CASE Push!Receive
  BY Zenon, <1>2, ReceiveRegisters
<1>3. CASE Push!TimeOut
  BY Zenon, <1>1, <1>3, TimeOutKeeps DEF Push!TimeOut
<1>4. CASE Push!Tick
  BY Zenon, <1>1, <1>4, TickKeeps DEF Push!Tick
<1>5. ASSUME NEW id \in Ids, NEW n, NEW ok \in BOOLEAN, Push!Answer(id, n, ok)
      PROVE  Registered(i)'
  <2>1. subscriptions' = subscriptions /\ inbox \in Seq(Events)
    BY Zenon, <1>5 DEF Push!Answer, ManagerInv, InboxOK
  <2> QED BY Zenon, <1>5, <2>1, AnswerSends, SendRegisters
<1> QED BY Zenon, <1>2, <1>3, <1>4, <1>5 DEF Push!Step, Push!Post

LEMMA StepInv == ServiceInv /\ [Next]_allVars => ServiceInv' /\ [GivenUpLate]_Push!vars
<1> SUFFICES ASSUME ServiceInv, [Next]_allVars
             PROVE  ServiceInv' /\ [GivenUpLate]_Push!vars
  OBVIOUS
<1>1. /\ StateInv /\ ManagerInv /\ TimesOK /\ RoutedIsRegistered
      /\ restarts \in 0..MaxRestarts
  BY Zenon DEF ServiceInv
<1>2. CASE (StateStep \/ PublishSome) /\ UNCHANGED <<pushVars, restarts>>
  <2>1. UNCHANGED pushVars /\ restarts' = restarts
    BY Zenon, <1>2
  <2>2. TimesOK' /\ subscriptions' = subscriptions
    BY Zenon, <1>1, <2>1 DEF TimesOK, pushVars
  <2> QED BY Zenon, <1>1, <1>2, <2>1, <2>2, StateStepKeeps, SameIsGivenUpLate DEF ServiceInv
<1>3. CASE /\ Push!Step
           /\ UNCHANGED <<docVars, queue, routeVars, conns, running, restarts, published>>
  <2>1. ManagerInv' /\ GivenUpLate /\ TimesOK'
    BY Zenon, <1>1, <1>3, PushStepKeeps, PushStepTimes
  <2>2. StateInv' /\ restarts' = restarts /\ subscribers' = subscribers /\ running' = running
    BY Zenon, <1>1, <1>3 DEF StateInv, DocsOK, QueueOK, docVars, routeVars
  <2>3. RoutedIsRegistered'
    <3>1. SUFFICES ASSUME running', NEW i \in DOMAIN subscribers'
                   PROVE  Registered(i)'
      BY Zenon DEF RoutedIsRegistered
    <3>2. i \in Ids /\ Registered(i)
      BY Zenon, <1>1, <2>2, <3>1 DEF StateInv, RoutedIsRegistered
    <3> QED BY Zenon, <1>1, <1>3, <3>2, PushStepRegisters
  <2> QED BY Zenon, <1>1, <2>1, <2>2, <2>3 DEF ServiceInv
<1>4. CASE Restart
  <2>1. Fresh' /\ UNCHANGED <<now, docs, codes>>
    BY Zenon, <1>4 DEF Restart, Fresh
  <2>2. Stored'
    BY Zenon, <1>1, <2>1 DEF StateInv, DocsOK, TimesOK, Stored
  <2>3. (StateInv /\ ManagerInv /\ TimesOK /\ RoutedIsRegistered)'
    BY <2>1, <2>2, FreshInv, PTL
  <2>4. restarts' \in 0..MaxRestarts
    BY SMTT(30), <1>1, <1>4, PushAssumption DEF Restart
  <2>5. GivenUpLate
    <3>1. DOMAIN subscriptions' = {}
      BY SMTT(30), <2>1 DEF Fresh
    <3> QED BY Zenon, <3>1 DEF GivenUpLate
  <2> QED BY Zenon, <2>3, <2>4, <2>5 DEF ServiceInv
<1>5. CASE UNCHANGED allVars
  <2>1. UNCHANGED pushVars /\ UNCHANGED stateVars /\ restarts' = restarts
    BY Zenon, <1>5 DEF allVars
  <2>2. /\ inbox' = inbox /\ subscribers' = subscribers /\ running' = running
        /\ subscriptions' = subscriptions
    BY Zenon, <2>1 DEF stateVars, routeVars, pushVars
  <2>3. Tells
    BY Zenon, <2>2 DEF Tells
  <2>4. StateInv' /\ TimesOK'
    BY Zenon, <1>1, <2>1, <2>2
       DEF stateVars, docVars, pushVars, StateInv, DocsOK, QueueOK, TimesOK
  <2> QED BY Zenon, <1>1, <2>1, <2>2, <2>3, <2>4, TellsKeeps, SameIsGivenUpLate DEF ServiceInv
<1> QED BY Zenon, <1>2, <1>3, <1>4, <1>5 DEF Next, PushStep

LEMMA Invariance == Spec => []ServiceInv /\ [][GivenUpLate]_Push!vars
<1>1. Init => ServiceInv
  BY Zenon, InitInv
<1>2. ServiceInv /\ [Next]_allVars => ServiceInv' /\ [GivenUpLate]_Push!vars
  BY Zenon, StepInv
<1> QED BY <1>1, <1>2, PTL DEF Spec

\* Type correctness of the two managers, their calls, channels and requests.
THEOREM TypeCorrect == Spec => []TypeOK
<1>1. ServiceInv => TypeOK
  <2> SUFFICES ASSUME ServiceInv PROVE TypeOK
    BY Zenon
  <2>1. DOMAIN docs \subseteq Ids
    BY Zenon, PartialIs DEF ServiceInv, StateInv, DocsOK
  <2>2. \A i \in DOMAIN subscriptions : subscriptions[i] \in Server
    BY Zenon DEF ServiceInv, ManagerInv, ServersOK, SoundServer
  <2>3. \A i \in DOMAIN subscriptions :
          /\ subscriptions[i].url \in Urls /\ subscriptions[i].num_attempts \in Nat
          /\ subscriptions[i].last_request \in 0..Push!Horizon
          /\ subscriptions[i].in_flight \in BOOLEAN
    BY Zenon, <2>2 DEF Server
  <2>4. DOMAIN requests = Ids /\ DOMAIN subscriptions \subseteq Ids
    BY Zenon DEF ServiceInv, ManagerInv, ServersOK
  <2>5. Push!TypeOK
    BY Zenon, <2>3, <2>4 DEF Push!TypeOK, ServiceInv, ManagerInv, InboxOK, TimesOK
  <2> QED BY Zenon, <2>1, <2>5 DEF TypeOK, ServiceInv, StateInv, DocsOK, QueueOK
<1> QED BY <1>1, Invariance, PTL

\* Every subscriber the state manager routes changes to is registered at the
\* push manager by the time a change sent to it is read, whatever updates,
\* purges, stops and restarts come between (services/state.rs spawn_state_manager
\* and push/manager.rs spawn_push_manager).
THEOREM RoutedAreRegistered == Spec => []RoutedIsRegistered
<1>1. ServiceInv => RoutedIsRegistered
  BY Zenon DEF ServiceInv
<1> QED BY <1>1, Invariance, PTL

\* A subscription whose last request failed stays in flight or on the list to
\* retry (Event::DeliveryFailure of push/manager.rs and the sweep after it).
THEOREM FailedStaysInSight == Spec => []Push!FailedIsRetried
<1>1. ServiceInv => Push!FailedIsRetried
  BY Zenon DEF ServiceInv, ManagerInv, ServersOK, SoundServer, Push!FailedIsRetried
<1> QED BY <1>1, Invariance, PTL

\* A subscription marked in flight has a request on the wire or its outcome in
\* the channel, whatever was unregistered and registered again meanwhile.
THEOREM FlightIsAnswered == Spec => []Push!FlightAnswered
<1>1. ServiceInv => Push!FlightAnswered
  BY Zenon DEF ServiceInv, ManagerInv, ServersOK, SoundServer, Answered, Push!FlightAnswered
<1> QED BY <1>1, Invariance, PTL

\* Changes are dropped without a request only after AttemptsMax failures in a
\* row (push_attempts_max in the sweep of push/manager.rs).
THEOREM ChangesGivenUpLate == Spec => Push!GivesUpLate
<1> DEFINE late == \A i \in DOMAIN subscriptions \cap DOMAIN subscriptions' :
                     (/\ Push!Pending(i)
                      /\ subscriptions'[i].state_changes = <<>>
                      /\ Len(requests'[i]) <= Len(requests[i]))
                     => fails'[i] >= AttemptsMax
<1>1. ServiceInv /\ ServiceInv' /\ [GivenUpLate]_Push!vars => [late]_Push!vars
  <2> SUFFICES ASSUME ServiceInv, ServiceInv', GivenUpLate PROVE late
    BY Zenon
  <2> SUFFICES ASSUME NEW i \in DOMAIN subscriptions \cap DOMAIN subscriptions',
                      Push!Pending(i), subscriptions'[i].state_changes = <<>>,
                      Len(requests'[i]) <= Len(requests[i])
               PROVE  fails'[i] >= AttemptsMax
    BY Zenon
  <2>1. requests[i] \in Seq(Wire) /\ requests'[i] \in Seq(Wire)
    BY Zenon DEF ServiceInv, ManagerInv, ServersOK
  <2>2. ~(Len(requests'[i]) > Len(requests[i]))
    BY SMTT(30), <2>1
  <2> QED BY Zenon, <2>2 DEF GivenUpLate
<1> QED BY <1>1, Invariance, PTL DEF Push!GivesUpLate

-----------------------------------------------------------------------------
(* The sharing tables.                                                     *)

\* An account without routes has an empty entry.
MirrorInv == DOMAIN shared_accounts_map = Accounts /\ TablesMirror

\* Reading an account's token again keeps the two tables each other's mirror.
LEMMA ShareMirrors ==
  ASSUME MirrorInv, NEW account \in Accounts, UpdateSharedAccounts(account)
  PROVE  MirrorInv'
<1> DEFINE token == acl[account]
           seen == {account} \cup token.member_of \cup DOMAIN token.access_to
           types(b) == IF b \in {account} \cup token.member_of THEN Types ELSE token.access_to[b]
           lost == IF account \in DOMAIN shared_accounts
                   THEN shared_accounts[account] \ seen ELSE {}
<1>1. /\ shared_accounts' = Insert(shared_accounts, account, seen)
      /\ shared_accounts_map' =
           [b \in Accounts |->
              IF b \in lost THEN Without(shared_accounts_map[b], {account})
              ELSE IF b \in seen THEN Insert(shared_accounts_map[b], account, types(b))
              ELSE shared_accounts_map[b]]
  BY Zenon DEF UpdateSharedAccounts
<1>2. \A b \in Accounts :
        /\ b \in lost => b \notin seen
        /\ account \in DOMAIN shared_accounts_map[b] => b \in lost \/ b \in seen
  BY Zenon DEF MirrorInv, TablesMirror
<1>3. /\ DOMAIN shared_accounts' = DOMAIN shared_accounts \cup {account}
      /\ shared_accounts'[account] = seen
      /\ \A a \in DOMAIN shared_accounts \ {account} : shared_accounts'[a] = shared_accounts[a]
  BY Zenon, <1>1 DEF Insert
<1> HIDE DEF seen, lost, types
<1>4. ASSUME NEW b \in Accounts
      PROVE  /\ account \in DOMAIN shared_accounts_map'[b] <=> b \in seen
             /\ \A a \in Accounts \ {account} :
                  a \in DOMAIN shared_accounts_map'[b] <=> a \in DOMAIN shared_accounts_map[b]
  <2>1. CASE b \in lost
    <3>1. shared_accounts_map'[b] = Without(shared_accounts_map[b], {account})
      BY Zenon, <1>1, <2>1
    <3>2. DOMAIN shared_accounts_map'[b] = DOMAIN shared_accounts_map[b] \ {account}
      BY Zenon, <3>1 DEF Without
    <3> QED BY Zenon, <1>2, <2>1, <3>2
  <2>2. CASE b \notin lost /\ b \in seen
    <3>1. shared_accounts_map'[b] = Insert(shared_accounts_map[b], account, types(b))
      BY Zenon, <1>1, <2>2
    <3>2. DOMAIN shared_accounts_map'[b] = DOMAIN shared_accounts_map[b] \cup {account}
      BY Zenon, <3>1 DEF Insert
    <3> QED BY Zenon, <2>2, <3>2
  <2>3. CASE b \notin lost /\ b \notin seen
    <3>1. shared_accounts_map'[b] = shared_accounts_map[b]
      BY Zenon, <1>1, <2>3
    <3> QED BY Zenon, <1>2, <2>3, <3>1
  <2> QED BY Zenon, <2>1, <2>2, <2>3
<1>5. DOMAIN shared_accounts_map' = Accounts
  BY Zenon, <1>1
<1>6. ASSUME NEW a \in Accounts, NEW b \in Accounts
      PROVE  a \in DOMAIN shared_accounts_map'[b] <=>
               (a \in DOMAIN shared_accounts' /\ b \in shared_accounts'[a])
  <2>1. CASE a = account
    BY Zenon, <1>3, <1>4, <2>1
  <2>2. CASE a # account
    <3>1. a \in DOMAIN shared_accounts_map[b] <=>
            (a \in DOMAIN shared_accounts /\ b \in shared_accounts[a])
      BY Zenon DEF MirrorInv, TablesMirror
    <3> QED BY Zenon, <1>3, <1>4, <2>2, <3>1
  <2> QED BY Zenon, <2>1, <2>2
<1> QED BY Zenon, <1>5, <1>6 DEF MirrorInv, TablesMirror

LEMMA MirrorStays ==
  ASSUME MirrorInv, shared_accounts' = shared_accounts,
         shared_accounts_map' = shared_accounts_map
  PROVE  MirrorInv'
BY Zenon DEF MirrorInv, TablesMirror

\* The two sharing tables stay each other's mirror, whatever the tokens say at
\* each reading (Event::UpdateSharedAccounts of services/state.rs).
THEOREM SharingTablesMirror == Spec => []TablesMirror
<1>1. Init => MirrorInv
  <2> SUFFICES ASSUME Init PROVE MirrorInv
    OBVIOUS
  <2>1. shared_accounts = <<>> /\ shared_accounts_map = [a \in Accounts |-> <<>>]
    BY Zenon DEF Init, StateInit
  <2>2. DOMAIN shared_accounts = {} /\ DOMAIN shared_accounts_map = Accounts
        /\ \A b \in Accounts : DOMAIN shared_accounts_map[b] = {}
    BY SMTT(30), <2>1
  <2> QED BY Zenon, <2>2 DEF MirrorInv, TablesMirror
<1>2. MirrorInv /\ ServiceInv /\ [Next]_allVars => MirrorInv'
  <2> SUFFICES ASSUME MirrorInv, ServiceInv, [Next]_allVars PROVE MirrorInv'
    BY Zenon
  <2>1. ASSUME NEW hourly \in BOOLEAN, Manage(hourly)
        PROVE  MirrorInv'
    <3>1. PICK e : e = Head(queue)
      BY Zenon
    <3>2. queue # <<>> /\ queue \in Seq(StateEvents)
      BY Zenon, <2>1 DEF Manage, ServiceInv, StateInv, QueueOK
    <3>3. e \in StateEvents
      BY SMTT(30), <3>1, <3>2
    <3>4. CASE e.kind = "shared" /\ Share(e.account, hourly)
      <4>1. e.account \in Accounts
        BY Zenon, <3>3, <3>4, StateFields
      <4> QED BY Zenon, <3>4, <4>1, ShareMirrors, MirrorStays DEF Share, routeVars
    <3>5. CASE \/ AddConn(e.conn, hourly) \/ PublishChange(e.change, hourly)
               \/ UpdateSubscriptions(e.account, e.subs, hourly)
      BY Zenon, <3>5, MirrorStays DEF AddConn, PublishChange, UpdateSubscriptions
    <3> QED BY Zenon, <2>1, <3>1, <3>4, <3>5 DEF Manage
  <2>2. ASSUME NEW c \in Calls, SetCall(c, codes)
        PROVE  MirrorInv'
    <3>1. DocsOK /\ QueueOK
      BY Zenon DEF ServiceInv, StateInv
    <3> QED BY Zenon, <2>2, <3>1, CallKeeps, MirrorStays
  <2>3. ASSUME NEW n \in Conns, Connection(n)
        PROVE  MirrorInv'
    BY Zenon, <2>3, MirrorStays DEF Connection, Connect, Subscribe, Disconnect, HandOver, routeVars
  <2>4. CASE SendStop \/ Stop \/ Advance \/ \E a \in Accounts, token \in Tokens : Grant(a, token)
    BY Zenon, <2>4, MirrorStays DEF SendStop, Stop, Advance, Grant, routeVars
  <2>5. CASE PublishSome
    BY Zenon, <2>5, MirrorStays DEF PublishSome, Publish, routeVars
  <2>6. CASE UNCHANGED routeVars
    BY Zenon, <2>6, MirrorStays DEF routeVars
  <2>7. CASE Restart
    <3>1. shared_accounts' = <<>> /\ shared_accounts_map' = [a \in Accounts |-> <<>>]
      BY Zenon, <2>7 DEF Restart
    <3>2. DOMAIN shared_accounts' = {} /\ DOMAIN shared_accounts_map' = Accounts
          /\ \A b \in Accounts : DOMAIN shared_accounts_map'[b] = {}
      BY SMTT(30), <3>1
    <3> QED BY Zenon, <3>2 DEF MirrorInv, TablesMirror
  <2>8. CASE UNCHANGED allVars
    BY Zenon, <2>6, <2>8 DEF allVars, stateVars
  <2> QED BY Zenon, <2>1, <2>2, <2>3, <2>4, <2>5, <2>6, <2>7, <2>8 DEF Next, StateStep
<1>3. MirrorInv => TablesMirror
  BY Zenon DEF MirrorInv
<1> QED BY <1>1, <1>2, <1>3, Invariance, PTL DEF Spec

-----------------------------------------------------------------------------
(* What connections are sent.                                              *)

Notice == [account : Accounts, types : SUBSET Types]

OpenRec == [at : {"open"}, account : Accounts, types : SUBSET Types, listed : BOOLEAN,
            transit : SUBSET Notice]

ConnRec == [at : {"closed"}] \cup [at : {"opening"}, account : Accounts] \cup OpenRec

\* Every change on its way to the client carries types it subscribed to.
Filtered(r) == r.at = "open" => \A change \in r.transit : change.types \subseteq r.types

ConnsInv == conns \in [Conns -> ConnRec] /\ \A n \in Conns : Filtered(conns[n])

LEMMA ConnFields ==
  ASSUME NEW r \in ConnRec
  PROVE  /\ r.at = "opening" => r.account \in Accounts
         /\ r.at = "open" => r \in OpenRec
BY Zenon DEF ConnRec, OpenRec

LEMMA Reconnected ==
  ASSUME ConnsInv, NEW n \in Conns, NEW r \in ConnRec, Filtered(r),
         conns' = [conns EXCEPT ![n] = r]
  PROVE  ConnsInv'
<1>1. conns' \in [Conns -> ConnRec]
  BY Zenon DEF ConnsInv
<1>2. \A k \in Conns : conns'[k] = r \/ conns'[k] = conns[k]
  BY Zenon DEF ConnsInv
<1> QED BY Zenon, <1>1, <1>2 DEF ConnsInv, Filtered

LEMMA ConnectionFilters ==
  ASSUME ConnsInv, NEW n \in Conns, Connection(n)
  PROVE  ConnsInv'
<1>1. conns[n] \in ConnRec /\ Filtered(conns[n])
  BY Zenon DEF ConnsInv
<1>2. ASSUME NEW a \in Accounts, Connect(n, a)
      PROVE  ConnsInv'
  <2>1. PICK r : r = [at |-> "opening", account |-> a]
    BY Zenon
  <2>2. r \in ConnRec /\ r.at # "open"
    BY <2>1 DEF ConnRec
  <2> QED BY Zenon, <1>2, <2>1, <2>2, Reconnected DEF Connect, Filtered
<1>3. ASSUME NEW types \in SUBSET Types, Subscribe(n, types)
      PROVE  ConnsInv'
  <2>1. PICK r : r = [at |-> "open", account |-> conns[n].account, types |-> types,
                      listed |-> FALSE, transit |-> {}]
    BY Zenon
  <2>2. conns[n].account \in Accounts
    BY Zenon, <1>1, <1>3, ConnFields DEF Subscribe
  <2>3. r \in OpenRec /\ r.transit = {}
    BY <2>1, <2>2 DEF OpenRec
  <2>4. r \in ConnRec /\ Filtered(r)
    BY Zenon, <2>3 DEF ConnRec, Filtered
  <2> QED BY Zenon, <1>3, <2>1, <2>4, Reconnected DEF Subscribe
<1>4. CASE Disconnect(n)
  <2>1. Closed \in ConnRec /\ Closed.at # "open"
    BY Zenon DEF Closed, ConnRec
  <2> QED BY Zenon, <1>4, <2>1, Reconnected DEF Disconnect, Filtered
<1>5. ASSUME NEW change, HandOver(n, change)
      PROVE  ConnsInv'
  <2>1. PICK r : r = [conns[n] EXCEPT !.transit = @ \ {change}]
    BY Zenon
  <2>2. conns[n] \in OpenRec
    BY Zenon, <1>1, <1>5, ConnFields DEF HandOver
  <2>3. conns' = [conns EXCEPT ![n] = r]
    BY Zenon, <1>5, <2>1 DEF HandOver
  <2>4. r \in OpenRec /\ r.transit \subseteq conns[n].transit /\ r.types = conns[n].types
    <3>1. PICK t : t = conns[n].transit \ {change}
      BY Zenon
    <3>2. t \in SUBSET Notice /\ t \subseteq conns[n].transit
      BY Zenon, <2>2, <3>1 DEF OpenRec
    <3>3. r = [conns[n] EXCEPT !.transit = t]
      BY Zenon, <2>1, <3>1
    <3>4. r \in OpenRec /\ r.transit = t /\ r.types = conns[n].types
      BY <2>2, <3>2, <3>3 DEF OpenRec
    <3> QED BY Zenon, <3>2, <3>4
  <2>5. conns[n].at = "open"
    BY Zenon, <1>5 DEF HandOver
  <2>6. r \in ConnRec /\ Filtered(r)
    BY Zenon, <1>1, <2>4, <2>5 DEF ConnRec, Filtered
  <2> QED BY Zenon, <2>3, <2>6, Reconnected
<1> QED BY Zenon, <1>2, <1>3, <1>4, <1>5 DEF Connection

\* What a publication adds is cut to the types of the connection.
LEMMA PublishFilters ==
  ASSUME ConnsInv, NEW change \in Change, NEW hourly, PublishChange(change, hourly)
  PROVE  ConnsInv'
<1>1. ASSUME NEW n \in Conns
      PROVE  conns'[n] \in ConnRec /\ Filtered(conns'[n])
  <2>1. conns[n] \in ConnRec /\ Filtered(conns[n])
    BY Zenon DEF ConnsInv
  <2>2. PICK new : new = ToConn(change, n)
    OBVIOUS
  <2>3. CASE new = {}
    BY Zenon, <2>1, <2>2, <2>3 DEF PublishChange
  <2>4. CASE new # {}
    <3>1. conns'[n] = [conns[n] EXCEPT !.transit = @ \cup new]
      BY Zenon, <2>2, <2>4 DEF PublishChange
    <3>2. conns[n].at = "open"
      BY Zenon, <2>2, <2>4 DEF ToConn, Listening
    <3>3. conns[n] \in OpenRec
      BY Zenon, <2>1, <3>2, ConnFields
    <3>4. ASSUME NEW c \in new
          PROVE  c \in Notice /\ c.types \subseteq conns[n].types
      <4>1. PICK o : c = [change EXCEPT !.types = Wanted(conns[n].types, o, change)]
        BY Zenon, <2>2 DEF ToConn
      <4>2. PICK w : w = Wanted(conns[n].types, o, change)
        BY Zenon
      <4>3. w \subseteq conns[n].types /\ w \subseteq Types
        BY Zenon, <3>3, <4>2 DEF Wanted, OpenRec
      <4>4. c \in Notice /\ c.types = w
        BY Zenon, <4>1, <4>2, <4>3 DEF Change, Notice
      <4> QED BY Zenon, <4>3, <4>4
    <3>5. PICK t : t = conns[n].transit \cup new
      BY Zenon
    <3>6. t \in SUBSET Notice
      BY Zenon, <3>3, <3>4, <3>5 DEF OpenRec
    <3>7. conns'[n] = [conns[n] EXCEPT !.transit = t]
      BY Zenon, <3>1, <3>5
    <3>8. conns'[n] \in OpenRec /\ conns'[n].transit = t /\ conns'[n].types = conns[n].types
      BY <3>3, <3>6, <3>7 DEF OpenRec
    <3>9. \A c \in t : c.types \subseteq conns[n].types
      BY Zenon, <2>1, <3>2, <3>4, <3>5 DEF Filtered
    <3> QED BY Zenon, <3>8, <3>9 DEF ConnRec, Filtered
  <2> QED BY Zenon, <2>3, <2>4
<1>2. conns' = [n \in Conns |-> conns'[n]]
  BY Zenon DEF PublishChange
<1> QED BY Zenon, <1>1, <1>2 DEF ConnsInv

LEMMA AddConnFilters ==
  ASSUME ConnsInv, NEW n \in Conns, NEW hourly, AddConn(n, hourly)
  PROVE  ConnsInv'
<1>1. conns[n] \in ConnRec /\ Filtered(conns[n])
  BY Zenon DEF ConnsInv
<1>2. CASE conns[n].at = "open"
  <2>1. conns[n] \in OpenRec
    BY Zenon, <1>1, <1>2, ConnFields
  <2>2. PICK r : r = [conns[n] EXCEPT !.listed = TRUE]
    BY Zenon
  <2>3. r \in OpenRec /\ r.transit = conns[n].transit /\ r.types = conns[n].types
    BY Zenon, <2>1, <2>2 DEF OpenRec
  <2>4. conns' = [conns EXCEPT ![n] = r]
    BY Zenon, <1>2, <2>2 DEF AddConn
  <2>5. r \in ConnRec /\ Filtered(r)
    BY Zenon, <1>1, <1>2, <2>3 DEF ConnRec, Filtered
  <2> QED BY Zenon, <2>4, <2>5, Reconnected
<1>3. CASE conns[n].at # "open"
  BY Zenon, <1>3 DEF AddConn, ConnsInv
<1> QED BY Zenon, <1>2, <1>3

\* An event source or web socket is sent only types it subscribed to, whatever
\* changes carry and whatever the sharing tables say (Event::Publish of
\* services/state.rs).
THEOREM OnlySubscribedSent == Spec => []OnlySubscribedTypes
<1>1. ASSUME conns = [n \in Conns |-> Closed]
      PROVE  ConnsInv
  <2>1. Closed \in ConnRec /\ Closed.at # "open"
    BY Zenon DEF Closed, ConnRec
  <2> QED BY Zenon, <1>1, <2>1 DEF ConnsInv, Filtered
<1>2. Init => ConnsInv
  BY Zenon, <1>1 DEF Init, StateInit
<1>3. ConnsInv /\ ServiceInv /\ [Next]_allVars => ConnsInv'
  <2> SUFFICES ASSUME ConnsInv, ServiceInv, [Next]_allVars PROVE ConnsInv'
    BY Zenon
  <2>1. conns' = conns => ConnsInv'
    BY Zenon DEF ConnsInv
  <2>2. ASSUME NEW hourly \in BOOLEAN, Manage(hourly)
        PROVE  ConnsInv'
    <3>1. PICK e : e = Head(queue)
      BY Zenon
    <3>2. queue # <<>> /\ queue \in Seq(StateEvents)
      BY Zenon, <2>2 DEF Manage, ServiceInv, StateInv, QueueOK
    <3>3. e \in StateEvents
      BY SMTT(30), <3>1, <3>2
    <3>4. CASE e.kind = "publish" /\ PublishChange(e.change, hourly)
      BY Zenon, <3>3, <3>4, StateFields, PublishFilters
    <3>5. CASE e.kind = "subscribe" /\ AddConn(e.conn, hourly)
      BY Zenon, <3>3, <3>5, StateFields, AddConnFilters
    <3>6. CASE Share(e.account, hourly) \/ UpdateSubscriptions(e.account, e.subs, hourly)
      BY Zenon, <2>1, <3>6 DEF Share, UpdateSubscriptions
    <3> QED BY Zenon, <2>2, <3>1, <3>4, <3>5, <3>6 DEF Manage
  <2>3. ASSUME NEW c \in Calls, SetCall(c, codes)
        PROVE  ConnsInv'
    <3>1. DocsOK /\ QueueOK
      BY Zenon DEF ServiceInv, StateInv
    <3> QED BY Zenon, <2>1, <2>3, <3>1, CallKeeps
  <2>4. ASSUME NEW n \in Conns, Connection(n)
        PROVE  ConnsInv'
    BY Zenon, <2>4, ConnectionFilters
  <2>5. CASE SendStop \/ Stop \/ Advance \/ \E a \in Accounts, token \in Tokens : Grant(a, token)
    BY Zenon, <2>1, <2>5 DEF SendStop, Stop, Advance, Grant
  <2>6. CASE PublishSome
    BY Zenon, <2>1, <2>6 DEF PublishSome, Publish
  <2>7. CASE UNCHANGED conns
    BY Zenon, <2>1, <2>7
  <2>8. CASE Restart
    <3>1. conns' = [n \in Conns |-> Closed]
      BY Zenon, <2>8 DEF Restart
    <3>2. Closed \in ConnRec /\ Closed.at # "open"
      BY Zenon DEF Closed, ConnRec
    <3> QED BY Zenon, <3>1, <3>2 DEF ConnsInv, Filtered
  <2>9. CASE UNCHANGED allVars
    BY Zenon, <2>1, <2>9 DEF allVars, stateVars
  <2> QED BY Zenon, <2>2, <2>3, <2>4, <2>5, <2>6, <2>7, <2>8, <2>9 DEF Next, StateStep
<1>4. ConnsInv => OnlySubscribedTypes
  BY Zenon DEF ConnsInv, Filtered, OnlySubscribedTypes
<1> QED BY <1>2, <1>3, <1>4, Invariance, PTL DEF Spec
=============================================================================
