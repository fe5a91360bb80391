------------------------------ MODULE MCGossip ------------------------------
(***************************************************************************)
(* Instances of Gossip for TLC.  Behaviours start with nodes that only     *)
(* know their seeds, or with a cluster that has formed: every node knows   *)
(* every other and has counted heartbeats of it.                           *)
(***************************************************************************)
EXTENDS Gossip, SequencesExt

CONSTANTS n1, n2, n3

\* Three nodes: n1 and n2 are each other's seed, n3 knows n1.
ThreeNodes == {n1, n2, n3}
ThreeSeeds == (n1 :> <<n2>>) @@ (n2 :> <<n1>>) @@ (n3 :> <<n1>>)

Known(m) == [addr |-> m, epoch |-> 1, gen |-> [k \in Kinds |-> 0],
             state |-> "Alive", heard |-> TRUE]

\* A cluster that has formed, and has been quiet since.
Formed ==
    /\ up = Nodes
    /\ epoch = [n \in Nodes |-> 1]
    /\ peers = [n \in Nodes |-> [i \in DOMAIN SetToSeq(Nodes \ {n}) |->
                                    Known(SetToSeq(Nodes \ {n})[i])]]
    /\ last_pinged = [n \in Nodes |-> 0]
    /\ gen = [n \in Nodes |-> [k \in Kinds |-> 0]]
    /\ settings = {}
    /\ core = [n \in Nodes |-> {}]
    /\ reloads = [n \in Nodes |-> {}]
    /\ net = {}
    /\ requests = 0
    /\ faults = 0
    /\ steps = 0
    /\ stopped = {}
    /\ told = [n \in Nodes |-> NothingTold]
    /\ disturbed = {}

MCSpec == (Init \/ Formed) /\ [][Next]_vars
=============================================================================
