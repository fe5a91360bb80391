------------------------------ MODULE IndexPromise ------------------------------
(***************************************************************************)
(* What full-text indexing promises, without tasks, locks or nodes: a      *)
(* message waits in the queue until it is indexed or no longer there, and  *)
(* only messages that are no longer there lose their index.                *)
(***************************************************************************)
CONSTANT Messages

VARIABLES live, queued, indexed

vars == <<live, queued, indexed>>

Init == live = {} /\ queued = {} /\ indexed = {}

Add(m) ==
  /\ m \notin live \cup queued \cup indexed
  /\ live' = live \cup {m}
  /\ queued' = queued \cup {m}
  /\ UNCHANGED indexed

Delete(m) ==
  /\ m \in live
  /\ live' = live \ {m}
  /\ UNCHANGED <<queued, indexed>>

Index(m) ==
  /\ indexed' = indexed \cup {m}
  /\ UNCHANGED <<live, queued>>

Unindex(s) ==
  /\ s \cap live = {}
  /\ indexed' = indexed \ s
  /\ UNCHANGED <<live, queued>>

Dequeue(m) ==
  /\ m \in indexed \/ m \notin live
  /\ queued' = queued \ {m}
  /\ UNCHANGED <<live, indexed>>

Next ==
  \/ \E m \in Messages : Add(m) \/ Delete(m) \/ Index(m) \/ Dequeue(m)
  \/ \E s \in SUBSET Messages : Unindex(s)

Spec == Init /\ [][Next]_vars

\* A message that is there can be found or is going to be: it waits in the
\* queue or is in the index.
FoundOrQueued == live \subseteq queued \cup indexed
=============================================================================
