----------------------------- MODULE MCPushManager -----------------------------
(***************************************************************************)
(* PushManager under any stream of events the state manager may send.      *)
(***************************************************************************)
EXTENDS PushManager

CONSTANTS MaxChanges, MaxUpdates, MaxResets   \* events of the environment

VARIABLES changes, updates, resets

allVars == <<vars, changes, updates, resets>>

MCInit == Init /\ changes = 0 /\ updates = 0 /\ resets = 0

Send(e) == Len(inbox) < Capacity /\ inbox' = Append(inbox, e)

SendPush ==
  /\ changes < MaxChanges
  /\ changes' = changes + 1
  /\ \E ids \in SUBSET Ids \ {{}} : Send([kind |-> "push", ids |-> ids, change |-> changes'])
  /\ UNCHANGED <<managerVars, fails, updates, resets>>

SendUpdate ==
  /\ updates < MaxUpdates
  /\ updates' = updates + 1
  /\ \E register, unregister \in SUBSET Ids, verify \in SUBSET Ids, url \in Urls :
       /\ register \cup unregister \cup verify # {}
       /\ register \cap (unregister \cup verify) = {}
       /\ Send([kind |-> "update", unregister |-> unregister, verify |-> verify,
                register |-> [i \in register |-> url]])
  /\ UNCHANGED <<managerVars, fails, changes, resets>>

SendReset ==
  /\ resets < MaxResets
  /\ resets' = resets + 1
  /\ Send([kind |-> "reset"])
  /\ UNCHANGED <<managerVars, fails, changes, updates>>

MCNext ==
  \/ SendPush \/ SendUpdate \/ SendReset
  \/ Receive /\ UNCHANGED <<changes, updates, resets>>
  \/ TimeOut /\ UNCHANGED <<changes, updates, resets>>
  \/ Tick /\ UNCHANGED <<changes, updates, resets>>
  \/ \E id \in Ids : Post(id) /\ UNCHANGED <<changes, updates, resets>>

MCSpec == MCInit /\ [][MCNext]_allVars

MCFairSpec == MCSpec /\ Fairness

CONSTANTS a1, s1, s2

MCOwnerOne == [i \in {s1} |-> a1]
MCOwnerTwo == [i \in {s1, s2} |-> a1]
=============================================================================
