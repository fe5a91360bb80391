---------------------------- MODULE GossipProofs ----------------------------
(***************************************************************************)
(* The peer lists of the gossip service stay sound, nobody is ahead of a   *)
(* node about itself, and an announced change of the settings is loaded by *)
(* whoever learns of it, for any number of nodes and seeds, any network    *)
(* and any bounds.                                                         *)
(***************************************************************************)
EXTENDS Gossip, FiniteSetTheorems, TLAPS

\* The entries of a list of node n: a seed has not been heard.
ListOK(n, ps) ==
    /\ ps \in Seq(Peer)
    /\ \A i \in DOMAIN ps : ps[i].addr # n /\ (ps[i].state = "Seed" => ~ps[i].heard)

\* No address has two entries that are more than seeds.
Distinct(ps) ==
    \A i, j \in DOMAIN ps :
        ps[i].addr = ps[j].addr /\ ps[i].state # "Seed" /\ ps[j].state # "Seed" => i = j

\* An entry that is more than a seed is the first of its address: handle_leave marks
\* the first entry of an address, a seed or not.
First(ps) ==
    \A i, j \in DOMAIN ps : ps[i].addr = ps[j].addr /\ ps[j].state # "Seed" => j <= i

\* Peers or statuses with epochs ep has reached, the nodes in gone left aside.
Behind(list, ep, gone) ==
    \A i \in DOMAIN list : list[i].addr \notin gone => list[i].epoch <= ep[list[i].addr]

PacketOK(p, ep, gone) ==
    /\ p.to \in Nodes /\ p.kind \in {"Ping", "Pong", "Leave"}
    /\ p.list \in Seq(PeerStatus) /\ p.list # <<>>
    /\ Behind(p.list, ep, gone)

\* The type invariant but for the lists and the packets.
OthersOK ==
    /\ up \subseteq Nodes /\ stopped \subseteq Nodes /\ disturbed \subseteq Nodes
    /\ epoch \in [Nodes -> Nat] /\ last_pinged \in [Nodes -> Nat]
    /\ gen \in [Nodes -> [Kinds -> GenerationId]]
    /\ settings \subseteq Changes /\ core \in [Nodes -> SUBSET Changes]
    /\ reloads \in [Nodes -> SUBSET Task]
    /\ requests \in Nat /\ faults \in Nat /\ steps \in Nat

ListsOK ==
    /\ peers \in [Nodes -> Seq(Peer)]
    /\ \A n \in Nodes : /\ ListOK(n, peers[n]) /\ First(peers[n])
                        /\ Behind(peers[n], epoch, stopped)

PacketsOK == \A p \in net : PacketOK(p, epoch, stopped)

\* The inductive invariant.
GossipInv == OthersOK /\ ListsOK /\ PacketsOK

-----------------------------------------------------------------------------
(* Sets of numbers.                                                        *)

LEMMA Least ==
    ASSUME NEW S \in SUBSET Nat, S # {}
    PROVE  Min(S) \in S /\ \A y \in S : Min(S) <= y
<1>1. PICK x \in S : \A y \in S : ~(<<y, x>> \in OpToRel(<, Nat))
  BY Zenon, NatLessThanWellFounded, WFMin
<1>2. OpToRel(<, Nat) = {ss \in Nat \X Nat : ss[1] < ss[2]}
  BY Zenon DEF OpToRel
<1>3. \A y \in S : ~(<<y, x>> \in {ss \in Nat \X Nat : ss[1] < ss[2]})
  BY Zenon, <1>1, <1>2
<1>4. ASSUME NEW y \in S PROVE x <= y
  <2>1. ~(y < x)
    BY Zenon, <1>3
  <2>. QED
    BY <2>1
<1>. QED
  BY Zenon, <1>4 DEF Min

\* Every rank up to the size of a set of places is some element's, and only its.
LEMMA NthOf ==
    ASSUME NEW len \in Nat, NEW S \in SUBSET (1..len), NEW k \in 1..Cardinality(S)
    PROVE  Nth(S, k) \in S /\ Cardinality({j \in S : j <= Nth(S, k)}) = k
<1>. DEFINE Upto(i) == {j \in S : j <= i}
            big == {i \in 0..len : Cardinality(Upto(i)) >= k}
<1>1. IsFiniteSet(1..len)
  BY FS_Interval
<1>2. IsFiniteSet(S) /\ Cardinality(S) \in Nat
  BY Zenon, <1>1, FS_Subset, FS_CardinalityType
<1>3. \A i : IsFiniteSet(Upto(i)) /\ Cardinality(Upto(i)) \in Nat
  <2>1. \A i : Upto(i) \in SUBSET S
    BY Zenon
  <2>. QED
    BY Zenon, <1>2, <2>1, FS_Subset, FS_CardinalityType
<1>4. \A j \in S : j \in Nat /\ 1 <= j /\ j <= len
  OBVIOUS
<1>5. k \in Nat /\ 1 <= k /\ k <= Cardinality(S)
  BY <1>2
<1>6. \A i, j : j \in Upto(i) <=> j \in S /\ j <= i
  BY Zenon
<1>7. \A i : i \in big <=> i \in 0..len /\ Cardinality(Upto(i)) >= k
  BY Zenon
<1>. HIDE DEF Upto, big
<1>8. len \in big
  <2>1. Upto(len) = S
    BY Zenon, <1>4, <1>6
  <2>2. Cardinality(Upto(len)) >= k
    BY Zenon, <2>1, <1>2, <1>5
  <2>. QED
    BY <1>7, <2>2
<1>9. PICK i \in big : \A y \in big : i <= y
  <2>1. big \in SUBSET Nat /\ big # {}
    BY <1>7, <1>8
  <2>. QED
    BY Zenon, <2>1, Least
<1>10. i \in 0..len /\ Cardinality(Upto(i)) >= k
  BY Zenon, <1>7, <1>9
<1>11. i # 0
  <2>1. \A j \in S : ~(j <= 0)
    BY <1>4
  <2>2. Upto(0) = {}
    BY Zenon, <1>6, <2>1
  <2>3. Cardinality(Upto(0)) = 0
    BY Zenon, <2>2, FS_EmptySet
  <2>. QED
    BY SMTT(30), <1>5, <1>10, <2>3
<1>12. i - 1 \in 0..len /\ i - 1 \notin big
  <2>1. i - 1 \in 0..len /\ ~(i <= i - 1)
    BY <1>10, <1>11
  <2>. QED
    BY Zenon, <1>9, <2>1
<1>13. Cardinality(Upto(i - 1)) < k
  <2>1. ~(Cardinality(Upto(i - 1)) >= k)
    BY Zenon, <1>7, <1>12
  <2>2. Cardinality(Upto(i - 1)) \in Nat
    BY Zenon, <1>3
  <2>. QED
    BY SMTT(30), <1>5, <2>1, <2>2
<1>14. \A j \in S : (j <= i <=> j <= i - 1 \/ j = i) /\ ~(i <= i - 1)
  BY <1>4, <1>10
<1>15. ASSUME i \notin S PROVE FALSE
  <2>1. Upto(i) = Upto(i - 1)
    BY Zenon, <1>6, <1>14, <1>15
  <2>2. Cardinality(Upto(i - 1)) >= k /\ Cardinality(Upto(i - 1)) \in Nat
    BY Zenon, <1>3, <1>10, <2>1
  <2>. QED
    BY <1>5, <1>13, <2>2
<1>16. Upto(i) = Upto(i - 1) \cup {i} /\ i \notin Upto(i - 1)
  <2>1. i <= i
    BY <1>10
  <2>. QED
    BY Zenon, <1>6, <1>14, <1>15, <2>1
<1>17. Cardinality(Upto(i)) = Cardinality(Upto(i - 1)) + 1
  <2>1. Cardinality(Upto(i - 1) \cup {i}) = Cardinality(Upto(i - 1)) + 1
    BY Zenon, <1>3, <1>16, FS_AddElement
  <2>. QED
    BY Zenon, <1>16, <2>1
<1>18. Cardinality(Upto(i)) = k
  <2>1. Cardinality(Upto(i)) \in Nat /\ Cardinality(Upto(i - 1)) \in Nat
    BY Zenon, <1>3
  <2>. QED
    BY SMTT(30), <1>5, <1>10, <1>13, <1>17, <2>1
<1>19. i \in S /\ Cardinality({j \in S : j <= i}) = k
  BY Zenon, <1>15, <1>18 DEF Upto
<1>. QED
  BY Zenon, <1>19 DEF Nth

-----------------------------------------------------------------------------
(* Peers.                                                                  *)

\* A heartbeat keeps the address, and a peer that was heard of is no seed any more.
LEMMA HeartbeatOK ==
    ASSUME NEW p \in Peer, NEW direct \in BOOLEAN, NEW counts \in BOOLEAN
    PROVE  /\ UpdateHeartbeat(p, direct, counts) \in Peer
           /\ UpdateHeartbeat(p, direct, counts).addr = p.addr
           /\ UpdateHeartbeat(p, direct, counts).state # "Seed"
<1>1. CASE p.state \in {"Seed", "Offline"} \/ (p.state = "Left" /\ direct)
  BY Zenon, <1>1 DEF UpdateHeartbeat, Peer
<1>2. CASE ~(p.state \in {"Seed", "Offline"} \/ (p.state = "Left" /\ direct))
  <2>1. PICK s : s = IF p.state = "Suspected" THEN "Alive" ELSE p.state
    BY Zenon
  <2>2. PICK h : h = (p.heard \/ counts)
    BY Zenon
  <2>3. s \in {"Seed", "Alive", "Suspected", "Offline", "Left"} /\ s # "Seed" /\ h \in BOOLEAN
    BY Zenon, <1>2, <2>1, <2>2 DEF Peer
  <2>4. UpdateHeartbeat(p, direct, counts) = [p EXCEPT !.state = s, !.heard = h]
    BY Zenon, <1>2, <2>1, <2>2 DEF UpdateHeartbeat
  <2>. QED
    BY Zenon, <2>3, <2>4 DEF Peer
<1>. QED
  BY Zenon, <1>1, <1>2

LEMMA UpdatedOK ==
    ASSUME NEW p \in Peer, NEW s \in PeerStatus, NEW direct \in BOOLEAN, NEW counts \in BOOLEAN
    PROVE  /\ Updated(p, s, direct, counts) \in Peer
           /\ Updated(p, s, direct, counts).addr = p.addr
           /\ Updated(p, s, direct, counts).epoch = s.epoch
           /\ Updated(p, s, direct, counts).state # "Seed"
<1>1. PICK u \in Peer : /\ u = UpdateHeartbeat(p, direct, counts)
                        /\ u.addr = p.addr /\ u.state # "Seed"
  BY Zenon, HeartbeatOK
<1>2. Updated(p, s, direct, counts) = [u EXCEPT !.epoch = s.epoch, !.gen = s.gen]
  BY Zenon, <1>1 DEF Updated
<1>3. s.epoch \in Nat /\ s.gen \in [Kinds -> GenerationId]
  BY Zenon DEF PeerStatus
<1>. QED
  BY Zenon, <1>1, <1>2, <1>3 DEF Peer

LEMMA DiscoveredOK ==
    ASSUME NEW s \in PeerStatus
    PROVE  /\ Discovered(s) \in Peer
           /\ Discovered(s).addr = s.addr /\ Discovered(s).epoch = s.epoch
           /\ Discovered(s).state = "Alive" /\ Discovered(s).heard = FALSE
BY DEF PeerStatus, Discovered, Peer

\* The failure detector keeps the address and the epoch, and judges no seed.
LEMMA CheckOK ==
    ASSUME NEW p \in Peer, p.state = "Seed" => ~p.heard, NEW v \in {"fine", "suspect", "convict"}
    PROVE  /\ CheckHeartbeat(p, v) \in Peer
           /\ CheckHeartbeat(p, v).addr = p.addr /\ CheckHeartbeat(p, v).epoch = p.epoch
           /\ CheckHeartbeat(p, v).heard = p.heard
           /\ CheckHeartbeat(p, v).state = "Seed" <=> p.state = "Seed"
<1>1. CASE ~p.heard \/ v = "fine"
  BY Zenon, <1>1 DEF CheckHeartbeat
<1>2. CASE p.heard /\ v # "fine"
  <2>1. PICK s \in {"Offline", "Suspected"} : CheckHeartbeat(p, v) = [p EXCEPT !.state = s]
    BY Zenon, <1>2 DEF CheckHeartbeat
  <2>. QED
    BY Zenon, <1>2, <2>1 DEF Peer
<1>. QED
  BY Zenon, <1>1, <1>2

-----------------------------------------------------------------------------
(* One status of a packet merged into the list.                            *)

Merging == [peers : Seq(Peer), changed : SUBSET Kinds, met : BOOLEAN]

\* The list on its way through a packet: an address may have a seed and a later entry
\* only if a seed was passed, and then all seeds are dropped in the end.
MergeOK(n, acc, ep, gone) ==
    /\ acc \in Merging
    /\ ListOK(n, acc.peers) /\ Distinct(acc.peers) /\ Behind(acc.peers, ep, gone)
    /\ acc.met \/ First(acc.peers)

LEMMA FirstDistinct ==
    ASSUME NEW ps \in Seq(Peer), First(ps)
    PROVE  Distinct(ps)
<1>1. DOMAIN ps \subseteq Nat
  OBVIOUS
<1>2. \A i, j \in DOMAIN ps : i <= j /\ j <= i => i = j
  BY <1>1
<1>. QED
  BY Zenon, <1>2 DEF First, Distinct

\* A new entry at the end.
LEMMA MergeAppended ==
    ASSUME NEW n, NEW ep, NEW gone, NEW acc, MergeOK(n, acc, ep, gone),
           NEW p \in Peer, p.addr # n, p.state # "Seed",
           p.addr \notin gone => p.epoch <= ep[p.addr],
           Entries(acc.peers, p.addr) = {},
           NEW met \in BOOLEAN, acc.met => met,
           (\E i \in 1..Len(acc.peers) : acc.peers[i].state = "Seed") => met
    PROVE  MergeOK(n, [acc EXCEPT !.peers = Append(acc.peers, p), !.met = met], ep, gone)
<1>. DEFINE ps == acc.peers
            new == [acc EXCEPT !.peers = Append(acc.peers, p), !.met = met]
<1>1. PICK qs : qs = Append(ps, p)
  BY Zenon
<1>2. ps \in Seq(Peer) /\ acc.changed \in SUBSET Kinds /\ acc.met \in BOOLEAN
  BY Zenon DEF MergeOK, Merging
<1>3. /\ qs \in Seq(Peer) /\ DOMAIN qs = 1..(Len(ps) + 1) /\ qs[Len(ps) + 1] = p
      /\ \A i \in 1..Len(ps) : qs[i] = ps[i]
      /\ DOMAIN ps = 1..Len(ps) /\ Len(ps) \in Nat
  BY <1>1, <1>2
<1>4. PICK m \in Nat : m = Len(ps)
  BY Zenon, <1>3
<1>5. \A i \in DOMAIN qs : i \in DOMAIN ps \/ i = m + 1
  BY <1>3, <1>4
<1>6. \A i \in DOMAIN ps : qs[i] = ps[i]
  BY Zenon, <1>3
<1>7. qs[m + 1] = p
  BY Zenon, <1>3, <1>4
<1>8. new \in Merging /\ new.peers = qs /\ new.met = met
  BY Zenon, <1>1, <1>2, <1>3 DEF MergeOK, Merging
<1>9. ListOK(n, qs)
  BY Zenon, <1>3, <1>5, <1>6, <1>7 DEF MergeOK, ListOK
<1>10. \A i \in DOMAIN ps : ps[i].addr = p.addr => ps[i].state = "Seed"
  BY Zenon DEF Entries
<1>11. Distinct(qs)
  BY Zenon, <1>5, <1>6, <1>7, <1>10 DEF MergeOK, Distinct
<1>12. Behind(qs, ep, gone)
  BY Zenon, <1>5, <1>6, <1>7 DEF MergeOK, Behind
<1>13. ASSUME ~met PROVE First(qs)
  <2>1. \A i \in DOMAIN ps : ps[i].state # "Seed"
    BY Zenon, <1>3, <1>13
  <2>2. \A i \in DOMAIN qs : qs[i].state # "Seed"
    BY Zenon, <1>5, <1>6, <1>7, <2>1
  <2>3. \A i \in DOMAIN qs : i <= i
    BY <1>3
  <2>. QED
    BY Zenon, <1>11, <2>2, <2>3 DEF Distinct, First
<1>. HIDE DEF new
<1>14. MergeOK(n, new, ep, gone)
  BY Zenon, <1>8, <1>9, <1>11, <1>12, <1>13 DEF MergeOK
<1>. QED
  BY Zenon, <1>14 DEF new

\* An entry that is no seed replaced by one of the same address.
LEMMA MergeReplaced ==
    ASSUME NEW n, NEW ep, NEW gone, NEW acc, MergeOK(n, acc, ep, gone),
           NEW at \in DOMAIN acc.peers, acc.peers[at].state # "Seed",
           NEW p \in Peer, p.addr = acc.peers[at].addr, p.state # "Seed",
           p.addr \notin gone => p.epoch <= ep[p.addr],
           NEW changed \in SUBSET Kinds, NEW met \in BOOLEAN, acc.met => met
    PROVE  MergeOK(n, [peers |-> [acc.peers EXCEPT ![at] = p], changed |-> changed, met |-> met],
                   ep, gone)
<1>. DEFINE ps == acc.peers
            new == [peers |-> [acc.peers EXCEPT ![at] = p], changed |-> changed, met |-> met]
<1>1. PICK qs : qs = [ps EXCEPT ![at] = p]
  BY Zenon
<1>2. ps \in Seq(Peer)
  BY Zenon DEF MergeOK, Merging
<1>3. qs \in Seq(Peer) /\ DOMAIN qs = DOMAIN ps /\ qs[at] = p /\ \A i \in DOMAIN ps : i # at => qs[i] = ps[i]
  BY <1>1, <1>2
<1>4. new \in Merging /\ new.peers = qs /\ new.met = met
  BY <1>1, <1>3 DEF Merging
<1>5. ListOK(n, qs)
  BY Zenon, <1>3 DEF MergeOK, ListOK
<1>6. \A i \in DOMAIN ps : qs[i].addr = ps[i].addr /\ (qs[i].state = "Seed" <=> ps[i].state = "Seed")
  BY Zenon, <1>3
<1>7. Distinct(qs)
  BY Zenon, <1>3, <1>6 DEF MergeOK, Distinct
<1>8. First(ps) => First(qs)
  BY Zenon, <1>3, <1>6 DEF First
<1>9. Behind(qs, ep, gone)
  BY Zenon, <1>3 DEF MergeOK, Behind
<1>. HIDE DEF new
<1>10. MergeOK(n, new, ep, gone)
  BY Zenon, <1>4, <1>5, <1>7, <1>8, <1>9 DEF MergeOK
<1>. QED
  BY Zenon, <1>10 DEF new

LEMMA MergeStep ==
    ASSUME NEW n, NEW ep, NEW gone, NEW acc, MergeOK(n, acc, ep, gone),
           NEW status \in PeerStatus, NEW direct \in BOOLEAN, NEW counts \in BOOLEAN,
           status.addr \notin gone => status.epoch <= ep[status.addr]
    PROVE  MergeOK(n, Merge(n, acc, status, direct, counts), ep, gone)
<1>. DEFINE same == Entries(acc.peers, status.addr)
            at   == IF same = {} THEN Len(acc.peers) + 1 ELSE Min(same)
            met  == acc.met \/ \E i \in 1..(at - 1) : acc.peers[i].state = "Seed"
<1>1. acc \in Merging /\ acc.peers \in Seq(Peer) /\ acc.met \in BOOLEAN /\ acc.changed \in SUBSET Kinds
  BY Zenon DEF MergeOK, Merging
<1>2. met \in BOOLEAN /\ (acc.met => met)
  BY Zenon, <1>1
<1>3. ASSUME NEW b \in BOOLEAN, acc.met => b PROVE MergeOK(n, [acc EXCEPT !.met = b], ep, gone)
  <2>1. PICK new : new = [acc EXCEPT !.met = b]
    BY Zenon
  <2>2. new \in Merging /\ new.peers = acc.peers /\ new.met = b
    BY Zenon, <1>1, <2>1 DEF Merging
  <2>. QED
    BY Zenon, <1>3, <2>1, <2>2 DEF MergeOK
<1>4. CASE status.addr = n
  BY Zenon, <1>4 DEF Merge
<1>5. CASE status.addr # n /\ same = {}
  <2>. DEFINE p == Discovered(status)
  <2>1. p \in Peer /\ p.addr = status.addr /\ p.epoch = status.epoch /\ p.state # "Seed"
    BY Zenon, DiscoveredOK
  <2>2. (\E i \in 1..Len(acc.peers) : acc.peers[i].state = "Seed") => met
    BY <1>1, <1>5
  <2>3. Merge(n, acc, status, direct, counts) = [acc EXCEPT !.peers = Append(acc.peers, p), !.met = met]
    BY Zenon, <1>5 DEF Merge
  <2>. HIDE DEF met, p
  <2>4. p.addr # n /\ Entries(acc.peers, p.addr) = {} /\ (p.addr \notin gone => p.epoch <= ep[p.addr])
    BY Zenon, <1>5, <2>1
  <2>. QED
    <3>1. MergeOK(n, [acc EXCEPT !.peers = Append(acc.peers, p), !.met = met], ep, gone)
      <4>. HIDE DEF same, at
      <4>. QED
        BY ZenonT(40), <1>2, <2>1, <2>2, <2>4, MergeAppended
    <3>. QED
      BY Zenon, <2>3, <3>1
<1>6. CASE status.addr # n /\ same # {}
  <2>1. same \in SUBSET Nat
    BY <1>1 DEF Entries
  <2>2. at \in same
    BY Zenon, <1>6, <2>1, Least
  <2>3. at \in DOMAIN acc.peers /\ acc.peers[at].state # "Seed" /\ acc.peers[at].addr = status.addr
    BY Zenon, <2>2 DEF Entries
  <2>4. acc.peers[at] \in Peer
    BY SMTT(30), <1>1, <2>3
  <2>. HIDE DEF at
  <2>. DEFINE local == acc.peers[at]
              p == Updated(local, status, direct, counts)
              changed == acc.changed \cup Noticed(local, status, direct, counts)
  <2>5. p \in Peer /\ p.addr = status.addr /\ p.epoch = status.epoch /\ p.state # "Seed"
    BY ZenonT(40), <2>3, <2>4, UpdatedOK
  <2>6. changed \in SUBSET Kinds
    BY Zenon, <1>1 DEF Noticed
  <2>7. CASE status.epoch > local.epoch \/ direct
    <3>1. Merge(n, acc, status, direct, counts) =
            [peers |-> [acc.peers EXCEPT ![at] = p], changed |-> changed, met |-> met]
      BY Zenon, <1>6, <2>7 DEF Merge, at
    <3>. HIDE DEF met, p, changed
    <3>. QED
      BY SMTT(30), <1>2, <2>3, <2>5, <2>6, <3>1, MergeReplaced
  <2>8. CASE ~(status.epoch > local.epoch \/ direct)
    <3>1. Merge(n, acc, status, direct, counts) = [acc EXCEPT !.met = met]
      BY Zenon, <1>6, <2>8 DEF Merge, at
    <3>. HIDE DEF met
    <3>. QED
      BY Zenon, <1>2, <1>3, <3>1
  <2>. QED
    BY Zenon, <2>7, <2>8
<1>. QED
  BY Zenon, <1>4, <1>5, <1>6

-----------------------------------------------------------------------------
(* A whole packet.                                                         *)

Turn(n, acc, list, i, counts) == Merge(n, acc, list[i], i = 1, counts)

\* MergeUpto merges one status after the other, as its definition says.
LEMMA MergeUptoDef ==
    ASSUME NEW n, NEW list \in Seq(PeerStatus), NEW counts
    PROVE  LET U == MergeUpto(n, list, counts)
           IN  /\ U[0] = [peers |-> peers[n], changed |-> {}, met |-> FALSE]
               /\ \A i \in 1..Len(list) : U[i] = Turn(n, U[i - 1], list, i, counts)
<1>. DEFINE start == [peers |-> peers[n], changed |-> {}, met |-> FALSE]
            Runs(g, k) == g = [i \in 0..k |-> IF i = 0 THEN start ELSE Turn(n, g[i - 1], list, i, counts)]
            none == {k \in Nat : ~\E g : Runs(g, k)}
<1>1. \E g : Runs(g, 0)
  <2>. DEFINE g == [i \in 0..0 |-> start]
  <2>1. Runs(g, 0)
    OBVIOUS
  <2>. QED
    BY Zenon, <2>1
<1>2. ASSUME NEW k \in Nat, NEW g, Runs(g, k) PROVE \E h : Runs(h, k + 1)
  <2>. DEFINE h == [i \in 0..(k + 1) |-> IF i = k + 1 THEN Turn(n, g[k], list, k + 1, counts) ELSE g[i]]
  <2>. HIDE DEF start
  <2>1. h[0] = start
    BY <1>2
  <2>2. ASSUME NEW i \in 1..k PROVE h[i] = Turn(n, h[i - 1], list, i, counts)
    BY <1>2
  <2>3. h[k + 1] = Turn(n, h[k], list, k + 1, counts)
    OBVIOUS
  <2>4. ASSUME NEW i \in 0..(k + 1)
        PROVE  h[i] = IF i = 0 THEN start ELSE Turn(n, h[i - 1], list, i, counts)
    <3>1. i = 0 \/ i \in 1..k \/ (i = k + 1 /\ i - 1 = k /\ i # 0)
      OBVIOUS
    <3>2. \A j \in 1..k : j # 0
      OBVIOUS
    <3>. HIDE DEF h
    <3>. QED
      BY Zenon, <2>1, <2>2, <2>3, <3>1, <3>2
  <2>5. h = [i \in 0..(k + 1) |-> h[i]]
    BY Zenon
  <2>. HIDE DEF h
  <2>6. Runs(h, k + 1)
    BY Zenon, <2>4, <2>5
  <2>. QED
    BY Zenon, <2>6
<1>. HIDE DEF Runs
<1>3. none = {}
  <2>. SUFFICES ASSUME none # {} PROVE FALSE
    OBVIOUS
  <2>1. PICK k \in none : \A y \in none : k <= y
    BY Zenon, Least
  <2>2. k \in Nat /\ k # 0
    BY Zenon, <1>1, <2>1
  <2>3. k - 1 \in Nat /\ ~(k <= k - 1) /\ (k - 1) + 1 = k
    BY <2>2
  <2>4. \E g : Runs(g, k - 1)
    BY Zenon, <2>1, <2>3
  <2>5. \E h : Runs(h, (k - 1) + 1)
    BY Zenon, <1>2, <2>3, <2>4
  <2>. QED
    BY Zenon, <2>1, <2>3, <2>5
<1>4. \E g : Runs(g, Len(list))
  <2>1. Len(list) \in Nat
    OBVIOUS
  <2>. QED
    BY Zenon, <1>3, <2>1
<1>5. MergeUpto(n, list, counts) = CHOOSE g : Runs(g, Len(list))
  BY Zenon DEF MergeUpto, Runs, Turn
<1>6. PICK U : U = MergeUpto(n, list, counts) /\ Runs(U, Len(list))
  BY Zenon, <1>4, <1>5
<1>7. U = [i \in 0..Len(list) |-> IF i = 0 THEN start ELSE Turn(n, U[i - 1], list, i, counts)]
  BY Zenon, <1>6 DEF Runs
<1>8. (\A i \in 1..Len(list) : i \in 0..Len(list) /\ i # 0) /\ 0 \in 0..Len(list)
  OBVIOUS
<1>. HIDE DEF start
<1>9. U[0] = start /\ \A i \in 1..Len(list) : U[i] = Turn(n, U[i - 1], list, i, counts)
  BY Zenon, <1>7, <1>8
<1>. QED
  BY Zenon, <1>6, <1>9 DEF start

LEMMA MergeUptoOK ==
    ASSUME NEW n, NEW ep, NEW gone, NEW list \in Seq(PeerStatus), NEW counts \in BOOLEAN,
           ListOK(n, peers[n]), First(peers[n]), Behind(peers[n], ep, gone),
           Behind(list, ep, gone)
    PROVE  \A i \in 0..Len(list) : MergeOK(n, MergeUpto(n, list, counts)[i], ep, gone)
<1>. DEFINE U == MergeUpto(n, list, counts)
<1>. DEFINE start == [peers |-> peers[n], changed |-> {}, met |-> FALSE]
            bad == {i \in 0..Len(list) : ~MergeOK(n, U[i], ep, gone)}
<1>2. /\ U[0] = start
      /\ \A i \in 1..Len(list) : U[i] = Turn(n, U[i - 1], list, i, counts)
  BY Zenon, MergeUptoDef
<1>. HIDE DEF U
<1>3. MergeOK(n, start, ep, gone)
  <2>1. start \in Merging /\ start.peers = peers[n] /\ start.met = FALSE
    BY DEF ListOK, Merging
  <2>2. Distinct(peers[n])
    BY Zenon, FirstDistinct DEF ListOK
  <2>. QED
    BY Zenon, <2>1, <2>2 DEF MergeOK
<1>4. bad = {}
  <2>. SUFFICES ASSUME bad # {} PROVE FALSE
    OBVIOUS
  <2>1. PICK i \in bad : \A y \in bad : i <= y
    <3>1. bad \in SUBSET Nat
      OBVIOUS
    <3>. QED
      BY Zenon, <3>1, Least
  <2>2. i \in 0..Len(list) /\ i # 0
    BY Zenon, <1>2, <1>3, <2>1
  <2>3. i \in 1..Len(list) /\ i - 1 \in 0..Len(list) /\ ~(i <= i - 1) /\ i \in DOMAIN list
    BY <2>2
  <2>4. MergeOK(n, U[i - 1], ep, gone)
    BY Zenon, <2>1, <2>3
  <2>5. list[i] \in PeerStatus /\ (i = 1) \in BOOLEAN
    BY <2>3
  <2>6. list[i].addr \notin gone => list[i].epoch <= ep[list[i].addr]
    BY Zenon, <2>3 DEF Behind
  <2>7. MergeOK(n, Turn(n, U[i - 1], list, i, counts), ep, gone)
    BY Zenon, <2>4, <2>5, <2>6, MergeStep DEF Turn
  <2>8. MergeOK(n, U[i], ep, gone)
    BY Zenon, <1>2, <2>3, <2>7
  <2>. QED
    BY Zenon, <2>1, <2>8
<1>. QED
  BY Zenon, <1>4 DEF U

LEMMA MergeAllOK ==
    ASSUME NEW n, NEW ep, NEW gone, NEW list \in Seq(PeerStatus), NEW counts \in BOOLEAN,
           ListOK(n, peers[n]), First(peers[n]), Behind(peers[n], ep, gone),
           Behind(list, ep, gone)
    PROVE  MergeOK(n, MergeAll(n, list, counts), ep, gone)
<1>1. Len(list) \in 0..Len(list)
  OBVIOUS
<1>2. MergeOK(n, MergeUpto(n, list, counts)[Len(list)], ep, gone)
  BY Zenon, <1>1, MergeUptoOK
<1>. QED
  BY Zenon, <1>2 DEF MergeAll

\* What handle_ping leaves in the list.
LEMMA WithoutSeedsOK ==
    ASSUME NEW n, NEW ep, NEW gone, NEW acc, MergeOK(n, acc, ep, gone)
    PROVE  /\ ListOK(n, WithoutSeeds(acc)) /\ First(WithoutSeeds(acc))
           /\ Behind(WithoutSeeds(acc), ep, gone)
<1>. DEFINE ps == acc.peers
            S == NonSeeds(ps)
            qs == [k \in 1..Cardinality(S) |-> ps[Nth(S, k)]]
<1>1. CASE ~acc.met
  BY Zenon, <1>1 DEF WithoutSeeds, MergeOK
<1>2. CASE acc.met
  <2>1. ps \in Seq(Peer) /\ Len(ps) \in Nat /\ DOMAIN ps = 1..Len(ps)
    BY DEF MergeOK, ListOK
  <2>2. S \in SUBSET (1..Len(ps))
    BY Zenon, <2>1 DEF NonSeeds
  <2>3. Cardinality(S) \in Nat
    <3>1. \A len \in Nat : IsFiniteSet(1..len)
      BY FS_Interval
    <3>. QED
      BY Zenon, <2>1, <2>2, <3>1, FS_Subset, FS_CardinalityType
  <2>. DEFINE Rank(i) == Cardinality({j \in S : j <= i})
  <2>4. \A k \in 1..Cardinality(S) : Nth(S, k) \in S /\ Rank(Nth(S, k)) = k
    BY Zenon, <2>1, <2>2, NthOf
  <2>. HIDE DEF Rank
  <2>5. \A k \in 1..Cardinality(S) : qs[k] = ps[Nth(S, k)] /\ ps[Nth(S, k)] \in Peer
    <3>1. \A i \in DOMAIN ps : ps[i] \in Peer
      BY <2>1
    <3>. QED
      BY Zenon, <2>1, <2>2, <2>4, <3>1
  <2>6. qs \in Seq(Peer) /\ DOMAIN qs = 1..Cardinality(S)
    <3>1. qs \in [1..Cardinality(S) -> Peer]
      BY Zenon, <2>5
    <3>. QED
      BY <2>3, <3>1
  <2>. HIDE DEF qs
  <2>7. \A i \in S : i \in DOMAIN ps /\ ps[i].state # "Seed"
    BY Zenon DEF NonSeeds
  <2>8. \A k \in DOMAIN qs : Nth(S, k) \in DOMAIN ps /\ qs[k] = ps[Nth(S, k)] /\ qs[k].state # "Seed"
    BY Zenon, <2>4, <2>5, <2>6, <2>7
  <2>. HIDE DEF S
  <2>9. ListOK(n, qs)
    BY Zenon, <2>6, <2>8 DEF ListOK, MergeOK
  <2>10. Behind(qs, ep, gone)
    BY Zenon, <2>8 DEF Behind, MergeOK
  <2>11. ASSUME NEW i \in DOMAIN qs, NEW j \in DOMAIN qs, qs[i].addr = qs[j].addr PROVE j <= i
    <3>1. Nth(S, i) = Nth(S, j)
      BY Zenon, <2>8, <2>11 DEF Distinct, MergeOK
    <3>2. Rank(Nth(S, i)) = i /\ Rank(Nth(S, j)) = j
      BY Zenon, <2>4, <2>6, <2>11
    <3>3. i = j
      BY <3>1, <3>2
    <3>. QED
      BY SMTT(30), <2>3, <2>6, <3>3
  <2>12. First(qs)
    BY Zenon, <2>11 DEF First
  <2>13. WithoutSeeds(acc) = qs
    BY Zenon, <1>2 DEF WithoutSeeds, qs, S
  <2>. QED
    BY Zenon, <2>9, <2>10, <2>12, <2>13
<1>. QED
  BY Zenon, <1>1, <1>2

-----------------------------------------------------------------------------
(* Lists and packets from step to step.                                    *)

LEMMA Remainder ==
    ASSUME NEW x \in Nat, NEW t \in Nat, t > 0
    PROVE  x % t \in 0..(t - 1)
OBVIOUS

LEMMA PlaceOK ==
    ASSUME OthersOK, NEW n \in Nodes, NEW k \in Nat, NEW total \in Nat, total > 0
    PROVE  PlaceAfter(n, k, total) \in Nat /\ PlaceAfter(n, k, total) + 1 \in 1..total
<1>1. PICK r : r = 65536 % total
  OBVIOUS
<1>2. r \in Nat
  BY SMTT(30), <1>1, Remainder
<1>3. r * r \in Nat
  BY <1>2
<1>4. r * r + total - 1 \in Nat
  BY <1>3
<1>5. (r * r + total - 1) % total \in Nat
  <2>1. (r * r + total - 1) % total \in 0..(total - 1)
    BY Zenon, <1>4, Remainder
  <2>. QED
    BY <2>1
<1>6. LastPinged(n, total) \in Nat
  <2>1. last_pinged[n] \in Nat
    BY Zenon DEF OthersOK
  <2>. QED
    BY SMTT(30), <1>1, <1>5, <2>1 DEF LastPinged
<1>7. PICK x \in Nat : x = LastPinged(n, total) + k
  BY <1>6
<1>8. PICK y : y = x % total /\ y \in 0..(total - 1)
  BY Remainder
<1>9. PlaceAfter(n, k, total) = y
  BY Zenon, <1>7, <1>8 DEF PlaceAfter
<1>. QED
  BY SMTT(30), <1>8, <1>9

\* Epochs that only grow leave every list behind them.
LEMMA BehindLater ==
    ASSUME NEW list, \A i \in DOMAIN list : list[i].addr \in Nodes /\ list[i].epoch \in Nat,
           NEW ep \in [Nodes -> Nat], NEW later \in [Nodes -> Nat], NEW gone, NEW more,
           gone \subseteq more, \A a \in Nodes \ more : ep[a] <= later[a],
           Behind(list, ep, gone)
    PROVE  Behind(list, later, more)
<1>. SUFFICES ASSUME NEW i \in DOMAIN list, list[i].addr \notin more
              PROVE  list[i].epoch <= later[list[i].addr]
  BY Zenon DEF Behind
<1>1. PICK a \in Nodes : a = list[i].addr
  BY Zenon
<1>2. list[i].epoch <= ep[a] /\ ep[a] <= later[a]
  BY Zenon, <1>1 DEF Behind
<1>3. list[i].epoch \in Nat /\ ep[a] \in Nat /\ later[a] \in Nat
  BY Zenon, <1>1
<1>4. PICK x \in Nat, y \in Nat, z \in Nat : x = list[i].epoch /\ y = ep[a] /\ z = later[a]
  BY Zenon, <1>3
<1>5. x <= z
  BY <1>2, <1>4
<1>. QED
  BY Zenon, <1>1, <1>4, <1>5

\* A step that gives the list ps to node n and sends some packets.
LEMMA ListsKept ==
    ASSUME OthersOK, OthersOK', ListsOK, PacketsOK, NEW n \in Nodes, NEW ps,
           \/ peers' = [peers EXCEPT ![n] = ps] /\ ListOK(n, ps) /\ First(ps) /\ Behind(ps, epoch', stopped')
           \/ peers' = peers,
           stopped \subseteq stopped', \A a \in Nodes \ stopped' : epoch[a] <= epoch'[a],
           \A p \in net' : p \in net \/ PacketOK(p, epoch', stopped')
    PROVE  ListsOK' /\ PacketsOK'
<1>1. ASSUME NEW list, \A i \in DOMAIN list : list[i].addr \in Nodes /\ list[i].epoch \in Nat,
             Behind(list, epoch, stopped)
      PROVE  Behind(list, epoch', stopped')
  BY Zenon, <1>1, BehindLater DEF OthersOK
<1>2. ASSUME NEW m \in Nodes PROVE Behind(peers[m], epoch', stopped')
  <2>1. peers[m] \in Seq(Peer) /\ Behind(peers[m], epoch, stopped)
    BY Zenon DEF ListsOK
  <2>2. \A i \in DOMAIN peers[m] : peers[m][i] \in Peer
    BY <2>1
  <2>3. \A i \in DOMAIN peers[m] : peers[m][i].addr \in Nodes /\ peers[m][i].epoch \in Nat
    BY Zenon, <2>2 DEF Peer
  <2>. QED
    BY Zenon, <1>1, <2>1, <2>3
<1>3. ASSUME NEW p \in net PROVE PacketOK(p, epoch', stopped')
  <2>1. p.list \in Seq(PeerStatus) /\ Behind(p.list, epoch, stopped)
    BY Zenon DEF PacketsOK, PacketOK
  <2>2. \A i \in DOMAIN p.list : p.list[i] \in PeerStatus
    BY <2>1
  <2>3. \A i \in DOMAIN p.list : p.list[i].addr \in Nodes /\ p.list[i].epoch \in Nat
    BY Zenon, <2>2 DEF PeerStatus
  <2>. QED
    BY Zenon, <1>1, <2>1, <2>3 DEF PacketsOK, PacketOK
<1>4. PacketsOK'
  BY Zenon, <1>3 DEF PacketsOK
<1>5. ASSUME NEW m \in Nodes
      PROVE  ListOK(m, peers'[m]) /\ First(peers'[m]) /\ Behind(peers'[m], epoch', stopped')
  <2>1. CASE peers' = peers
    BY Zenon, <1>2, <2>1 DEF ListsOK
  <2>2. CASE peers' = [peers EXCEPT ![n] = ps] /\ ListOK(n, ps) /\ First(ps) /\ Behind(ps, epoch', stopped')
    <3>1. (m = n /\ peers'[m] = ps) \/ peers'[m] = peers[m]
      BY Zenon, <2>2 DEF ListsOK
    <3>. QED
      BY Zenon, <1>2, <2>2, <3>1 DEF ListsOK
  <2>. QED
    BY Zenon, <2>1, <2>2
<1>6. peers' \in [Nodes -> Seq(Peer)]
  BY Zenon DEF ListsOK, ListOK
<1>. QED
  BY Zenon, <1>4, <1>5, <1>6 DEF ListsOK

LEMMA StatusOK ==
    ASSUME OthersOK, NEW n \in Nodes, NEW e \in Nat
    PROVE  /\ StatusOfNode(n, e) \in PeerStatus
           /\ StatusOfNode(n, e).addr = n /\ StatusOfNode(n, e).epoch = e
           /\ <<StatusOfNode(n, e)>> \in Seq(PeerStatus) /\ <<StatusOfNode(n, e)>> # <<>>
<1>1. gen[n] \in [Kinds -> GenerationId]
  BY Zenon DEF OthersOK
<1>2. StatusOfNode(n, e) \in PeerStatus
  BY <1>1 DEF StatusOfNode, PeerStatus
<1>. QED
  BY <1>2 DEF StatusOfNode

LEMMA OwnStatusBehind ==
    ASSUME OthersOK, NEW n \in Nodes, NEW e \in Nat, NEW ep, NEW gone, n \notin gone => e <= ep[n]
    PROVE  Behind(<<StatusOfNode(n, e)>>, ep, gone)
<1>1. PICK s : s = StatusOfNode(n, e)
  OBVIOUS
<1>2. DOMAIN <<s>> = {1} /\ <<s>>[1] = s
  OBVIOUS
<1>3. s.addr = n /\ s.epoch = e
  BY Zenon, <1>1, StatusOK
<1>4. Behind(<<s>>, ep, gone)
  BY Zenon, <1>2, <1>3 DEF Behind
<1>. QED
  BY Zenon, <1>1, <1>4

\* build_peer_status tells no more of a peer than the list has.
LEMMA BuildOK ==
    ASSUME OthersOK, NEW n \in Nodes, NEW e \in Nat, NEW ps \in Seq(Peer), NEW ep, NEW gone,
           Behind(ps, ep, gone), n \notin gone => e <= ep[n]
    PROVE  /\ BuildPeerStatus(n, e, ps) \in Seq(PeerStatus) /\ BuildPeerStatus(n, e, ps) # <<>>
           /\ Behind(BuildPeerStatus(n, e, ps), ep, gone)
<1>1. PICK s \in PeerStatus : s = StatusOfNode(n, e) /\ s.addr = n /\ s.epoch = e
  BY Zenon, StatusOK
<1>2. PICK rest : rest = [i \in DOMAIN ps |-> StatusOfPeer(ps[i])]
  BY Zenon
<1>3. \A i \in DOMAIN ps : ps[i] \in Peer
  OBVIOUS
<1>4. \A p \in Peer : /\ StatusOfPeer(p) \in PeerStatus
                      /\ StatusOfPeer(p).addr = p.addr /\ StatusOfPeer(p).epoch = p.epoch
  BY DEF StatusOfPeer, PeerStatus, Peer
<1>5. rest \in Seq(PeerStatus) /\ DOMAIN rest = 1..Len(rest) /\ Len(rest) \in Nat
  <2>1. rest \in [DOMAIN ps -> PeerStatus]
    BY Zenon, <1>2, <1>3, <1>4
  <2>. QED
    BY <2>1
<1>6. \A i \in DOMAIN rest : rest[i].addr \notin gone => rest[i].epoch <= ep[rest[i].addr]
  BY Zenon, <1>2, <1>3, <1>4 DEF Behind
<1>7. PICK list : list = <<s>> \o rest
  BY Zenon
<1>8. /\ list \in Seq(PeerStatus) /\ list # <<>> /\ list[1] = s
      /\ \A i \in DOMAIN list : i = 1 \/ (i - 1 \in DOMAIN rest /\ list[i] = rest[i - 1])
  BY <1>5, <1>7
<1>9. Behind(list, ep, gone)
  BY Zenon, <1>1, <1>6, <1>8 DEF Behind
<1>. QED
  BY Zenon, <1>1, <1>2, <1>7, <1>8, <1>9 DEF BuildPeerStatus

LEMMA SentOnly ==
    ASSUME NEW sofar, NEW out, NEW all \in Sent(sofar, out)
    PROVE  all \subseteq sofar \cup out
BY Zenon DEF Sent

-----------------------------------------------------------------------------
(* Settings: neither lists nor packets change.                             *)

LEMMA SettingsKeep ==
    ASSUME GossipInv, OthersOK', UNCHANGED <<epoch, peers, stopped, net>>
    PROVE  GossipInv'
<1>1. ListsOK'
  BY Zenon DEF GossipInv, ListsOK
<1>2. PacketsOK'
  BY Zenon DEF GossipInv, PacketsOK
<1>. QED
  BY Zenon, <1>1, <1>2 DEF GossipInv

LEMMA StartedOK ==
    ASSUME OthersOK, NEW n \in Nodes, NEW t \in Task, Started(n, t)
    PROVE  /\ reloads' \in [Nodes -> SUBSET Task] /\ disturbed' \subseteq Nodes
           /\ requests' \in Nat
<1>1. requests' \in Nat
  BY DEF Started, OthersOK
<1>2. reloads' \in [Nodes -> SUBSET Task]
  BY Zenon DEF Started, OthersOK
<1>3. disturbed' \subseteq Nodes
  BY Zenon DEF Started, Overlap, OthersOK
<1>. QED
  BY Zenon, <1>1, <1>2, <1>3

LEMMA SettingsStep ==
    ASSUME GossipInv, NEW c \in Changes, ChangeSettings(c)
    PROVE  GossipInv'
<1>1. OthersOK'
  BY Zenon DEF ChangeSettings, GossipInv, OthersOK
<1>. QED
  BY Zenon, <1>1, SettingsKeep DEF ChangeSettings

LEMMA ManageStep ==
    ASSUME GossipInv, NEW n \in Nodes, NEW kind \in Kinds, ManageReload(n, kind)
    PROVE  GossipInv'
<1>. DEFINE t == [by |-> "admin", kind |-> kind, at |-> "store", got |-> settings, orphan |-> FALSE]
<1>1. t \in Task
  BY DEF Task, GossipInv, OthersOK
<1>2. Started(n, t)
  BY Zenon DEF ManageReload
<1>. HIDE DEF t
<1>3. OthersOK'
  BY Zenon, <1>1, <1>2, StartedOK DEF ManageReload, GossipInv, OthersOK
<1>. QED
  BY Zenon, <1>3, SettingsKeep DEF ManageReload

LEMMA BanStep ==
    ASSUME GossipInv, NEW n \in Nodes, NEW c \in ListChanges, Fail2Ban(n, c)
    PROVE  GossipInv'
<1>. DEFINE t == [by |-> "ban", kind |-> "lists", at |-> "write", got |-> {c}, orphan |-> FALSE]
<1>1. c \in Changes
  BY Zenon, GossipAssumption
<1>2. t \in Task
  BY <1>1 DEF Task, Kinds
<1>3. Started(n, t)
  BY Zenon DEF Fail2Ban
<1>. HIDE DEF t
<1>4. core' \in [Nodes -> SUBSET Changes]
  BY Zenon, <1>1 DEF Fail2Ban, GossipInv, OthersOK
<1>5. OthersOK'
  BY Zenon, <1>2, <1>3, <1>4, StartedOK DEF Fail2Ban, GossipInv, OthersOK
<1>. QED
  BY Zenon, <1>5, SettingsKeep DEF Fail2Ban

LEMMA MovedOK ==
    ASSUME OthersOK, NEW n \in Nodes, NEW t \in reloads[n], NEW next \in Task, Moved(n, t, next)
    PROVE  reloads' \in [Nodes -> SUBSET Task]
BY Zenon DEF Moved, OthersOK

LEMMA WriteStep ==
    ASSUME GossipInv, NEW n \in Nodes, NEW t \in reloads[n], WriteBan(n, t)
    PROVE  GossipInv'
<1>1. t \in Task
  BY Zenon DEF GossipInv, OthersOK
<1>2. PICK next \in Task : next = [t EXCEPT !.at = "store"]
  BY Zenon, <1>1 DEF Task
<1>3. settings' \subseteq Changes
  BY Zenon, <1>1 DEF WriteBan, GossipInv, OthersOK, Task
<1>4. reloads' \in [Nodes -> SUBSET Task]
  BY Zenon, <1>2, MovedOK DEF WriteBan, GossipInv
<1>5. OthersOK'
  BY Zenon, <1>3, <1>4 DEF WriteBan, GossipInv, OthersOK
<1>. QED
  BY Zenon, <1>5, SettingsKeep DEF WriteBan

LEMMA ReadStep ==
    ASSUME GossipInv, NEW n \in Nodes, NEW t \in reloads[n], ReadSettings(n, t)
    PROVE  GossipInv'
<1>1. t \in Task /\ settings \in SUBSET Changes
  BY Zenon DEF GossipInv, OthersOK
<1>2. PICK next \in Task : next = [t EXCEPT !.at = "store", !.got = settings]
  BY Zenon, <1>1 DEF Task
<1>3. reloads' \in [Nodes -> SUBSET Task]
  BY Zenon, <1>2, MovedOK DEF ReadSettings, GossipInv
<1>4. OthersOK'
  BY Zenon, <1>3 DEF ReadSettings, GossipInv, OthersOK
<1>. QED
  BY Zenon, <1>4, SettingsKeep DEF ReadSettings

\* The u8 of a generation counter wraps (Data::config_version and its like).
LEMMA NextGeneration == \A x \in GenerationId : (x + 1) % 256 \in GenerationId
<1>. SUFFICES ASSUME NEW x \in 0..255 PROVE (x + 1) % 256 \in 0..255
  BY Zenon DEF GenerationId
<1>1. CASE x = 255
  BY SMTT(30), <1>1
<1>2. CASE x # 255
  BY SMTT(30), <1>2
<1>. QED
  BY Zenon, <1>1, <1>2

LEMMA StoreStep ==
    ASSUME GossipInv, NEW n \in Nodes, NEW t \in reloads[n], StoreCore(n, t)
    PROVE  GossipInv'
<1>1. t \in Task
  BY Zenon DEF GossipInv, OthersOK
<1>2. StoredCore(n, t) \subseteq Changes
  <2>1. t.got \subseteq Changes /\ core[n] \subseteq Changes
    BY Zenon, <1>1 DEF Task, GossipInv, OthersOK
  <2>. QED
    BY Zenon, <2>1 DEF StoredCore
<1>3. core' \in [Nodes -> SUBSET Changes]
  BY Zenon, <1>2 DEF StoreCore, GossipInv, OthersOK
<1>4. StoredGen(n, t) \in [Kinds -> GenerationId]
  <2>1. gen[n] \in [Kinds -> GenerationId] /\ t.kind \in Kinds
    BY Zenon, <1>1 DEF Task, GossipInv, OthersOK
  <2>2. PICK kept \in [Kinds -> GenerationId] :
          StoredGen(n, t) = IF t.by = "peer" \/ t.orphan THEN kept
                            ELSE [kept EXCEPT ![t.kind] = (@ + 1) % 256]
    <3>1. 0 \in GenerationId
      BY DEF GenerationId
    <3>. QED
      BY ZenonT(40), <2>1, <3>1 DEF StoredGen
  <2>3. (kept[t.kind] + 1) % 256 \in GenerationId
    BY Zenon, <2>1, NextGeneration
  <2>. QED
    BY Zenon, <2>1, <2>2, <2>3
<1>5. gen' \in [Nodes -> [Kinds -> GenerationId]]
  BY Zenon, <1>4 DEF StoreCore, GossipInv, OthersOK
<1>6. ASSUME NEW o \in Task, NEW b \in BOOLEAN PROVE [o EXCEPT !.orphan = @ \/ b] \in Task
  BY DEF Task
<1>7. PICK tasks : /\ reloads' = [reloads EXCEPT ![n] = tasks]
                   /\ tasks = {[o EXCEPT !.orphan = @ \/ (t.kind = "config" /\ o.at # "read")] :
                                 o \in reloads[n] \ {t}}
  BY Zenon DEF StoreCore
<1>8. tasks \subseteq Task
  <2>1. reloads[n] \subseteq Task
    BY Zenon DEF GossipInv, OthersOK
  <2>. QED
    BY Zenon, <1>6, <1>7, <2>1
<1>9. reloads' \in [Nodes -> SUBSET Task]
  BY Zenon, <1>7, <1>8 DEF GossipInv, OthersOK
<1>10. OthersOK'
  BY Zenon, <1>3, <1>5, <1>9 DEF StoreCore, GossipInv, OthersOK
<1>. QED
  BY Zenon, <1>10, SettingsKeep DEF StoreCore

LEMMA StepsOK ==
    ASSUME OthersOK, NEW f \in Nat, NEW s \in Nat, Steps(f, s)
    PROVE  faults' \in Nat /\ steps' \in Nat
BY DEF Steps, OthersOK

LEMMA FailStep ==
    ASSUME GossipInv, NEW n \in Nodes, NEW t \in reloads[n], TaskFails(n, t)
    PROVE  GossipInv'
<1>1. faults' \in Nat /\ steps' \in Nat
  BY StepsOK DEF TaskFails, GossipInv
<1>2. reloads' \in [Nodes -> SUBSET Task] /\ disturbed' \subseteq Nodes
  BY Zenon DEF TaskFails, GossipInv, OthersOK
<1>3. OthersOK'
  BY Zenon, <1>1, <1>2 DEF TaskFails, GossipInv, OthersOK
<1>. QED
  BY Zenon, <1>3, SettingsKeep DEF TaskFails

-----------------------------------------------------------------------------
(* Nodes that start and stop, and packets that are lost.                   *)

LEMMA StartStep ==
    ASSUME GossipInv, NEW n \in Nodes, Start(n)
    PROVE  GossipInv'
<1>1. OthersOK'
  BY Zenon DEF Start, GossipInv, OthersOK
<1>. QED
  BY Zenon, <1>1, SettingsKeep DEF Start

LEMMA LoseStep ==
    ASSUME GossipInv, NEW p \in net, Lose(p)
    PROVE  GossipInv'
<1>1. OthersOK'
  BY Zenon DEF Lose, GossipInv, OthersOK
<1>2. ListsOK'
  BY Zenon DEF Lose, GossipInv, ListsOK
<1>3. PacketsOK'
  BY Zenon DEF Lose, GossipInv, PacketsOK
<1>. QED
  BY Zenon, <1>1, <1>2, <1>3 DEF GossipInv

\* A node that starts lists its seeds, with epochs nobody is behind of.
LEMMA SeedsOK ==
    ASSUME NEW n \in Nodes, NEW ep \in [Nodes -> Nat], NEW gone
    PROVE  ListOK(n, SeedPeers(n)) /\ First(SeedPeers(n)) /\ Behind(SeedPeers(n), ep, gone)
<1>1. PICK seeds : seeds = Seeds[n] /\ seeds \in Seq(Nodes) /\ \A i \in DOMAIN seeds : seeds[i] # n
  BY Zenon, GossipAssumption
<1>2. \A i \in DOMAIN seeds : seeds[i] \in Nodes
  BY <1>1
<1>3. PICK ps : ps = SeedPeers(n) /\ ps = [i \in DOMAIN seeds |-> NewSeed(seeds[i])]
  BY Zenon, <1>1 DEF SeedPeers
<1>4. \A a \in Nodes : /\ NewSeed(a) \in Peer /\ NewSeed(a).addr = a /\ NewSeed(a).epoch = 0
                       /\ NewSeed(a).state = "Seed" /\ ~NewSeed(a).heard
  <2>1. [k \in Kinds |-> 0] \in [Kinds -> GenerationId]
    BY DEF GenerationId
  <2>. QED
    BY Zenon, <2>1 DEF NewSeed, Peer
<1>5. /\ DOMAIN ps = DOMAIN seeds
      /\ \A i \in DOMAIN ps : /\ ps[i] \in Peer /\ ps[i].addr = seeds[i] /\ ps[i].epoch = 0
                              /\ ps[i].state = "Seed" /\ ~ps[i].heard
  <2>1. DOMAIN ps = DOMAIN seeds /\ \A i \in DOMAIN seeds : ps[i] = NewSeed(seeds[i])
    BY Zenon, <1>3
  <2>2. ASSUME NEW i \in DOMAIN ps
        PROVE  /\ ps[i] \in Peer /\ ps[i].addr = seeds[i] /\ ps[i].epoch = 0
               /\ ps[i].state = "Seed" /\ ~ps[i].heard
    <3>1. PICK a \in Nodes : a = seeds[i] /\ ps[i] = NewSeed(a)
      BY Zenon, <1>2, <2>1
    <3>. QED
      BY Zenon, <1>4, <3>1
  <2>. QED
    BY Zenon, <2>1, <2>2
<1>6. ps \in Seq(Peer)
  <2>1. ps \in [DOMAIN seeds -> Peer]
    BY Zenon, <1>3, <1>5
  <2>. QED
    BY SMTT(30), <1>1, <2>1
<1>7. ListOK(n, ps) /\ First(ps)
  BY Zenon, <1>1, <1>5, <1>6 DEF ListOK, First
<1>8. \A a \in Nodes : 0 <= ep[a]
  <2>1. \A x \in Nat : 0 <= x
    OBVIOUS
  <2>. QED
    BY Zenon, <2>1
<1>9. Behind(ps, ep, gone)
  BY Zenon, <1>2, <1>5, <1>8 DEF Behind
<1>. QED
  BY Zenon, <1>3, <1>7, <1>9

LEMMA StopStep ==
    ASSUME GossipInv, NEW n \in Nodes, Stop(n)
    PROVE  GossipInv'
<1>1. faults' \in Nat /\ steps' \in Nat
  BY Zenon, StepsOK DEF Stop, GossipInv
<1>2. /\ epoch' \in [Nodes -> Nat] /\ last_pinged' \in [Nodes -> Nat]
      /\ gen' \in [Nodes -> [Kinds -> GenerationId]]
  <2>1. 0 \in Nat /\ NeverPinged \in Nat /\ 0 \in GenerationId
    BY DEF NeverPinged, GenerationId
  <2>. QED
    BY Zenon, <2>1 DEF Stop, GossipInv, OthersOK
<1>3. up' \subseteq Nodes /\ stopped' = stopped \cup {n} /\ stopped' \subseteq Nodes
      /\ reloads' \in [Nodes -> SUBSET Task]
  BY Zenon DEF Stop, GossipInv, OthersOK
<1>4. OthersOK'
  BY Zenon, <1>1, <1>2, <1>3 DEF Stop, GossipInv, OthersOK
<1>5. \A a \in Nodes \ stopped' : epoch[a] <= epoch'[a]
  <2>1. \A a \in Nodes \ stopped' : epoch'[a] = epoch[a] /\ epoch[a] \in Nat
    BY Zenon, <1>3 DEF Stop, GossipInv, OthersOK
  <2>2. \A x \in Nat : x <= x
    OBVIOUS
  <2>. QED
    BY Zenon, <2>1, <2>2
<1>6. ASSUME NEW p \in net' PROVE p \in net \/ PacketOK(p, epoch', stopped')
  <2>1. PICK s : s = <<StatusOfNode(n, epoch[n])>>
    BY Zenon
  <2>2. s \in Seq(PeerStatus) /\ s # <<>> /\ Behind(s, epoch', stopped')
    <3>1. epoch[n] \in Nat
      BY Zenon DEF GossipInv, OthersOK
    <3>2. n \in stopped'
      BY Zenon, <1>3
    <3>. QED
      BY Zenon, <2>1, <3>1, <3>2, StatusOK, OwnStatusBehind DEF GossipInv
  <2>3. \A i \in DOMAIN peers[n] : peers[n][i].addr \in Nodes
    <3>1. peers[n] \in Seq(Peer)
      BY Zenon DEF GossipInv, ListsOK
    <3>2. \A i \in DOMAIN peers[n] : peers[n][i] \in Peer
      BY <3>1
    <3>. QED
      BY Zenon, <3>2 DEF Peer
  <2>4. ASSUME p \notin net
        PROVE  \E i \in DOMAIN peers[n] : p = Packet(peers[n][i].addr, "Leave", s)
    <3>. DEFINE farewell == {Packet(peers[n][i].addr, "Leave", s) :
                               i \in {j \in DOMAIN peers[n] : ~IsOffline(peers[n][j])}}
    <3>1. PICK out : net' \in Sent(net, out) /\ (out = farewell \/ out = {})
      BY Zenon, <2>1 DEF Stop
    <3>2. p \in farewell
      BY Zenon, <2>4, <3>1, SentOnly
    <3>. QED
      BY Zenon, <3>2
  <2>5. \A a \in Nodes : PacketOK(Packet(a, "Leave", s), epoch', stopped')
    BY Zenon, <2>2 DEF PacketOK, Packet
  <2>. QED
    BY Zenon, <2>3, <2>4, <2>5
<1>7. ListOK(n, SeedPeers(n)) /\ First(SeedPeers(n)) /\ Behind(SeedPeers(n), epoch', stopped')
  BY Zenon, <1>2, SeedsOK
<1>8. ListsOK' /\ PacketsOK'
  BY Zenon, <1>3, <1>4, <1>5, <1>6, <1>7, ListsKept DEF Stop, GossipInv
<1>. QED
  BY Zenon, <1>4, <1>8 DEF GossipInv

-----------------------------------------------------------------------------
(* Packets that arrive.                                                    *)

LEMMA KeptCounts ==
    ASSUME NEW p, NEW kept \in SUBSET {p}
    PROVE  Cardinality(kept) \in Nat
<1>1. IsFiniteSet({p})
  BY Zenon, FS_Singleton
<1>2. IsFiniteSet(kept)
  BY Zenon, <1>1, FS_Subset
<1>. QED
  BY Zenon, <1>2, FS_CardinalityType

LEMMA LeaveStep ==
    ASSUME GossipInv, NEW p \in net, NEW n \in Nodes, HandleLeave(n, p)
    PROVE  GossipInv'
<1>. DEFINE from == p.list[1]
            old == peers[n]
            same == {i \in DOMAIN old : old[i].addr = from.addr}
            k == Min(same)
            ps == [old EXCEPT ![k] = [@ EXCEPT !.state = "Left", !.epoch = from.epoch]]
<1>1. PICK kept \in SUBSET {p} : Steps(Cardinality(kept), 0) /\ net' = (net \ {p}) \cup kept
  BY Zenon DEF HandleLeave
<1>2. faults' \in Nat /\ steps' \in Nat
  BY Zenon, <1>1, KeptCounts, StepsOK DEF GossipInv
<1>3. OthersOK'
  BY Zenon, <1>2 DEF HandleLeave, GossipInv, OthersOK
<1>4. epoch' = epoch /\ stopped' = stopped
  BY Zenon DEF HandleLeave
<1>5. \A a \in Nodes \ stopped' : epoch[a] <= epoch'[a]
  BY <1>4 DEF GossipInv, OthersOK
<1>6. \A q \in net' : q \in net
  BY Zenon, <1>1
<1>7. old \in Seq(Peer) /\ ListOK(n, old) /\ First(old) /\ Behind(old, epoch, stopped)
  BY Zenon DEF GossipInv, ListsOK
<1>8. \A i \in DOMAIN old : old[i] \in Peer
  BY SMTT(30), <1>7
<1>9. from \in PeerStatus /\ (from.addr \notin stopped => from.epoch <= epoch[from.addr])
  <2>1. PICK list : /\ list = p.list /\ list \in Seq(PeerStatus) /\ list # <<>>
                    /\ Behind(list, epoch, stopped)
    BY Zenon DEF GossipInv, PacketsOK, PacketOK
  <2>2. 1 \in DOMAIN list /\ list[1] \in PeerStatus
    BY <2>1
  <2>. QED
    BY Zenon, <2>1, <2>2 DEF Behind
<1>10. CASE same = {}
  <2>1. peers' = peers
    BY Zenon, <1>10 DEF HandleLeave
  <2>2. ListsOK' /\ PacketsOK'
    BY Zenon, <1>3, <1>4, <1>5, <1>6, <2>1, ListsKept DEF GossipInv
  <2>. QED
    BY Zenon, <1>3, <2>2 DEF GossipInv
<1>11. CASE same # {}
  <2>1. peers' = [peers EXCEPT ![n] = ps]
    BY Zenon, <1>11 DEF HandleLeave
  <2>2. k \in same /\ \A y \in same : k <= y
    <3>1. same \in SUBSET Nat
      BY <1>7
    <3>. HIDE DEF same
    <3>. QED
      BY Zenon, <1>11, <3>1, Least
  <2>3. k \in DOMAIN old /\ old[k].addr = from.addr
    BY Zenon, <2>2
  <2>4. PICK new : new = [old[k] EXCEPT !.state = "Left", !.epoch = from.epoch]
    BY Zenon
  <2>4a. new \in Peer /\ new.addr = old[k].addr /\ new.state = "Left" /\ new.epoch = from.epoch
    <3>1. PICK x \in Peer, e \in Nat : x = old[k] /\ e = from.epoch
      BY Zenon, <1>8, <1>9, <2>3 DEF PeerStatus
    <3>2. new = [x EXCEPT !.state = "Left", !.epoch = e]
      BY Zenon, <2>4, <3>1
    <3>3. new \in Peer /\ new.addr = x.addr /\ new.state = "Left" /\ new.epoch = e
      <4>. HIDE DEF from, k, old
      <4>. QED
        BY Zenon, <3>2 DEF Peer
    <3>. QED
      BY Zenon, <3>1, <3>3
  <2>5. /\ ps \in Seq(Peer) /\ DOMAIN ps = DOMAIN old /\ ps[k] = new
        /\ \A i \in DOMAIN old : i # k => ps[i] = old[i]
    <3>1. ps = [old EXCEPT ![k] = new]
      BY Zenon, <2>4
    <3>. HIDE DEF from, k, old, ps
    <3>. QED
      BY <1>7, <2>3, <2>4, <2>4a, <3>1
  <2>6. \A i \in DOMAIN old : ps[i].addr = old[i].addr
    BY Zenon, <2>4, <2>4a, <2>5
  <2>7. \A i \in DOMAIN old : old[i].addr = from.addr => k <= i
    BY Zenon, <2>2
  <2>. HIDE DEF from, k, old, ps
  <2>8. ListOK(n, ps)
    <3>1. new.addr # n /\ new.state # "Seed"
      BY Zenon, <1>7, <2>3, <2>4, <2>4a DEF ListOK
    <3>2. ASSUME NEW i \in DOMAIN ps
          PROVE  ps[i].addr # n /\ (ps[i].state = "Seed" => ~ps[i].heard)
      BY Zenon, <1>7, <2>5, <3>1 DEF ListOK
    <3>. QED
      BY Zenon, <2>5, <3>2 DEF ListOK
  <2>9. First(ps)
    BY Zenon, <1>7, <2>3, <2>5, <2>6, <2>7 DEF First
  <2>10. Behind(ps, epoch', stopped')
    BY Zenon, <1>4, <1>7, <1>9, <2>3, <2>4, <2>4a, <2>5 DEF Behind
  <2>11. ListsOK' /\ PacketsOK'
    BY Zenon, <1>3, <1>4, <1>5, <1>6, <2>1, <2>8, <2>9, <2>10, ListsKept DEF GossipInv
  <2>. QED
    BY Zenon, <1>3, <2>11 DEF GossipInv
<1>. QED
  BY Zenon, <1>10, <1>11

LEMMA ReloadsOK ==
    ASSUME NEW changed \in SUBSET Kinds
    PROVE  ReloadAsked(changed) \subseteq Task
<1>1. ASSUME NEW kind \in Kinds
      PROVE  [by |-> "peer", kind |-> kind, at |-> "read", got |-> {}, orphan |-> FALSE] \in Task
  BY DEF Task
<1>2. "config" \in Kinds /\ "lists" \in Kinds
  BY Zenon DEF Kinds
<1>. QED
  BY Zenon, <1>1, <1>2 DEF ReloadAsked

LEMMA PingStep ==
    ASSUME GossipInv, NEW p \in net, p.kind \in {"Ping", "Pong"}, NEW n \in Nodes, HandlePing(n, p)
    PROVE  GossipInv'
<1>. DEFINE Pong(ps, e) == IF p.kind = "Ping" /\ ps # <<>>
                           THEN {Packet(ps[1].addr, "Pong", BuildPeerStatus(n, e, ps))} ELSE {}
<1>0. PICK counts \in BOOLEAN, kept \in SUBSET {p} :
        \E merged, ps, e :
          /\ merged = MergeAll(n, p.list, counts) /\ ps = WithoutSeeds(merged) /\ e = epoch[n] + 1
          /\ Steps(Cardinality(kept), 1)
          /\ epoch' = [epoch EXCEPT ![n] = e]
          /\ peers' = [peers EXCEPT ![n] = ps]
          /\ net' \in Sent((net \ {p}) \cup kept, Pong(ps, e))
          /\ reloads' = [reloads EXCEPT ![n] = @ \cup ReloadAsked(merged.changed)]
          /\ disturbed' = disturbed \cup Overlap(n, ReloadAsked(merged.changed))
  BY Zenon DEF HandlePing
<1>1. PICK merged, ps, e :
        /\ merged = MergeAll(n, p.list, counts) /\ ps = WithoutSeeds(merged) /\ e = epoch[n] + 1
        /\ Steps(Cardinality(kept), 1)
        /\ epoch' = [epoch EXCEPT ![n] = e]
        /\ peers' = [peers EXCEPT ![n] = ps]
        /\ net' \in Sent((net \ {p}) \cup kept, Pong(ps, e))
        /\ reloads' = [reloads EXCEPT ![n] = @ \cup ReloadAsked(merged.changed)]
        /\ disturbed' = disturbed \cup Overlap(n, ReloadAsked(merged.changed))
  BY Zenon, <1>0
<1>2. faults' \in Nat /\ steps' \in Nat
  BY Zenon, <1>1, KeptCounts, StepsOK DEF GossipInv
<1>3. MergeOK(n, merged, epoch, stopped)
  <2>1. p.list \in Seq(PeerStatus) /\ Behind(p.list, epoch, stopped)
    BY Zenon DEF GossipInv, PacketsOK, PacketOK
  <2>2. ListOK(n, peers[n]) /\ First(peers[n]) /\ Behind(peers[n], epoch, stopped)
    BY Zenon DEF GossipInv, ListsOK
  <2>. QED
    BY Zenon, <1>1, <2>1, <2>2, MergeAllOK
<1>4. ListOK(n, ps) /\ First(ps) /\ Behind(ps, epoch, stopped)
  BY Zenon, <1>1, <1>3, WithoutSeedsOK
<1>5. epoch[n] \in Nat /\ e \in Nat /\ epoch[n] <= e
  <2>1. epoch[n] \in Nat
    BY Zenon DEF GossipInv, OthersOK
  <2>. QED
    BY <1>1, <2>1
<1>6. epoch' \in [Nodes -> Nat] /\ epoch'[n] = e
  BY Zenon, <1>1, <1>5 DEF GossipInv, OthersOK
<1>7. reloads' \in [Nodes -> SUBSET Task] /\ disturbed' \subseteq Nodes
  <2>1. merged.changed \in SUBSET Kinds
    BY Zenon, <1>3 DEF MergeOK, Merging
  <2>. QED
    BY Zenon, <1>1, <2>1, ReloadsOK DEF Overlap, GossipInv, OthersOK
<1>8. OthersOK'
  BY Zenon, <1>2, <1>6, <1>7 DEF HandlePing, GossipInv, OthersOK
<1>9. stopped' = stopped
  BY Zenon DEF HandlePing
<1>10. \A a \in Nodes : epoch[a] <= epoch'[a]
  <2>1. \A a \in Nodes : a = n \/ epoch'[a] = epoch[a]
    BY Zenon, <1>1 DEF GossipInv, OthersOK
  <2>2. \A a \in Nodes : epoch[a] \in Nat
    BY Zenon DEF GossipInv, OthersOK
  <2>. QED
    BY SMTT(30), <1>5, <1>6, <2>1, <2>2
<1>11. \A i \in DOMAIN ps : ps[i].addr \in Nodes /\ ps[i].epoch \in Nat
  <2>1. \A i \in DOMAIN ps : ps[i] \in Peer
    BY <1>4 DEF ListOK
  <2>. QED
    BY Zenon, <2>1 DEF Peer
<1>12. Behind(ps, epoch', stopped')
  BY Zenon, <1>4, <1>6, <1>9, <1>10, <1>11, BehindLater DEF GossipInv, OthersOK
<1>13. ASSUME NEW q \in net' PROVE q \in net \/ PacketOK(q, epoch', stopped')
  <2>1. q \in net \/ q \in Pong(ps, e)
    <3>1. PICK sofar, out : /\ sofar = (net \ {p}) \cup kept /\ out = Pong(ps, e)
                            /\ net' \in Sent(sofar, out)
      BY Zenon, <1>1
    <3>2. net' \subseteq sofar \cup out
      BY SMTT(30), <3>1, SentOnly
    <3>. HIDE DEF Pong
    <3>3. q \in sofar \/ q \in out
      BY Zenon, <3>2
    <3>. QED
      BY Zenon, <3>1, <3>3
  <2>2. CASE q \in Pong(ps, e)
    <3>1. PICK list : /\ list = BuildPeerStatus(n, e, ps) /\ list \in Seq(PeerStatus)
                      /\ list # <<>> /\ Behind(list, epoch', stopped')
      <4>1. ps \in Seq(Peer) /\ e <= epoch'[n]
        BY SMTT(30), <1>4, <1>5, <1>6 DEF ListOK
      <4>. QED
        BY Zenon, <1>5, <1>12, <4>1, BuildOK DEF GossipInv
    <3>2. ps # <<>> /\ q = Packet(ps[1].addr, "Pong", list)
      BY Zenon, <2>2, <3>1
    <3>3. ps[1].addr \in Nodes
      <4>1. 1 \in DOMAIN ps
        BY SMTT(30), <1>4, <3>2 DEF ListOK
      <4>. QED
        BY Zenon, <1>11, <4>1
    <3>. QED
      BY Zenon, <3>1, <3>2, <3>3 DEF PacketOK, Packet
  <2>. QED
    BY Zenon, <2>1, <2>2
<1>14. ListsOK' /\ PacketsOK'
  BY Zenon, <1>1, <1>4, <1>8, <1>9, <1>10, <1>12, <1>13, ListsKept DEF GossipInv
<1>. QED
  BY Zenon, <1>8, <1>14 DEF GossipInv

-----------------------------------------------------------------------------
(* Pinging: the verdicts change states only, and never make or unmake a seed. *)

LEMMA CheckedOK ==
    ASSUME NEW n, NEW old, NEW verdict, NEW ep, NEW gone,
           ListOK(n, old), First(old), Behind(old, ep, gone),
           \A i \in DOMAIN verdict : verdict[i] \in {"fine", "suspect", "convict"}
    PROVE  /\ ListOK(n, Checked(old, verdict)) /\ First(Checked(old, verdict))
           /\ Behind(Checked(old, verdict), ep, gone)
           /\ DOMAIN Checked(old, verdict) = DOMAIN old
<1>. DEFINE ps == Checked(old, verdict)
<1>1. /\ DOMAIN ps = DOMAIN old
      /\ \A i \in DOMAIN old : ps[i] = IF i \in DOMAIN verdict
                                       THEN CheckHeartbeat(old[i], verdict[i]) ELSE old[i]
  BY Zenon DEF Checked
<1>2. old \in Seq(Peer) /\ \A i \in DOMAIN old : old[i] \in Peer
  BY DEF ListOK
<1>3. ASSUME NEW i \in DOMAIN old
      PROVE  /\ ps[i] \in Peer /\ ps[i].addr = old[i].addr /\ ps[i].epoch = old[i].epoch
             /\ ps[i].heard = old[i].heard /\ (ps[i].state = "Seed" <=> old[i].state = "Seed")
  <2>1. old[i] \in Peer /\ (old[i].state = "Seed" => ~old[i].heard)
    BY Zenon, <1>2 DEF ListOK
  <2>2. CASE i \in DOMAIN verdict
    <3>1. PICK x, v : x = old[i] /\ v = verdict[i]
      BY Zenon
    <3>1a. ps[i] = CheckHeartbeat(x, v) /\ v \in {"fine", "suspect", "convict"}
      <4>. HIDE DEF ps
      <4>. QED
        BY Zenon, <1>1, <2>2, <3>1
    <3>2. /\ CheckHeartbeat(x, v) \in Peer
          /\ CheckHeartbeat(x, v).addr = x.addr /\ CheckHeartbeat(x, v).epoch = x.epoch
          /\ CheckHeartbeat(x, v).heard = x.heard
          /\ CheckHeartbeat(x, v).state = "Seed" <=> x.state = "Seed"
      BY ZenonT(40), <2>1, <3>1, <3>1a, CheckOK
    <3>. HIDE DEF ps
    <3>. QED
      BY Zenon, <3>1, <3>1a, <3>2
  <2>3. CASE i \notin DOMAIN verdict
    BY Zenon, <1>1, <2>1, <2>3
  <2>. QED
    BY Zenon, <2>2, <2>3
<1>4. ps \in Seq(Peer)
  <2>1. ps \in [DOMAIN old -> Peer]
    BY Zenon, <1>1, <1>3 DEF Checked
  <2>. QED
    BY <1>2, <2>1
<1>. HIDE DEF ps
<1>5. ListOK(n, ps)
  BY Zenon, <1>1, <1>3, <1>4 DEF ListOK
<1>6. First(ps)
  BY Zenon, <1>1, <1>3 DEF First
<1>7. Behind(ps, ep, gone)
  BY Zenon, <1>1, <1>3 DEF Behind
<1>. QED
  BY Zenon, <1>1, <1>5, <1>6, <1>7 DEF ps

LEMMA PingPeersStep ==
    ASSUME GossipInv, NEW n \in Nodes, PingPeers(n)
    PROVE  GossipInv'
<1>. DEFINE old == peers[n]
            total == Len(old)
            judged == {i \in DOMAIN old : ~IsOffline(old[i]) /\ old[i].heard}
            Ps(verdict) == Checked(old, verdict)
            Alive(verdict) == Cardinality({i \in judged : verdict[i] # "convict"})
            Due(verdict) ==
                {k \in 1..total : Pingable(Ps(verdict)[PlaceAfter(n, k, total) + 1], Alive(verdict))}
            Then(verdict) == IF Due(verdict) = {} THEN total ELSE Min(Due(verdict))
            Target(verdict) == Ps(verdict)[PlaceAfter(n, Then(verdict), total) + 1]
            E(verdict) == IF Due(verdict) # {} /\ Target(verdict).state \in {"Alive", "Suspected"}
                          THEN epoch[n] + 1 ELSE epoch[n]
            List(verdict) == IF Target(verdict).state = "Seed" THEN <<StatusOfNode(n, E(verdict))>>
                             ELSE BuildPeerStatus(n, E(verdict), Ps(verdict))
<1>0. PICK verdict \in [judged -> {"fine", "suspect", "convict"}] :
        /\ Steps(Cardinality({i \in judged : verdict[i] # "fine"}), 1)
        /\ peers' = [peers EXCEPT ![n] = Ps(verdict)]
        /\ last_pinged' = [last_pinged EXCEPT ![n] = PlaceAfter(n, Then(verdict), total)]
        /\ epoch' = [epoch EXCEPT ![n] = E(verdict)]
        /\ net' \in IF Due(verdict) = {} THEN {net}
                    ELSE Sent(net, {Packet(Target(verdict).addr, "Ping", List(verdict))})
  BY Zenon DEF PingPeers
<1>. HIDE DEF judged
<1>1. PICK ps, due, turn, place, e, out :
        /\ ps = Checked(old, verdict)
        /\ due \subseteq 1..total
        /\ turn = IF due = {} THEN total ELSE Min(due)
        /\ place = PlaceAfter(n, turn, total)
        /\ e = epoch[n] \/ e = epoch[n] + 1
        /\ \/ out = {Packet(ps[place + 1].addr, "Ping", <<StatusOfNode(n, e)>>)}
           \/ out = {Packet(ps[place + 1].addr, "Ping", BuildPeerStatus(n, e, ps))}
        /\ peers' = [peers EXCEPT ![n] = ps]
        /\ last_pinged' = [last_pinged EXCEPT ![n] = place]
        /\ epoch' = [epoch EXCEPT ![n] = e]
        /\ net' = net \/ net' \in Sent(net, out)
  <2>1. PICK ps : ps = Ps(verdict)
    BY Zenon
  <2>2. PICK due : due = Due(verdict) /\ due \subseteq 1..total
    BY Zenon
  <2>3. PICK turn : turn = Then(verdict) /\ turn = IF due = {} THEN total ELSE Min(due)
    BY Zenon, <2>2
  <2>4. PICK place : place = PlaceAfter(n, turn, total)
    BY Zenon
  <2>5. PICK target : target = ps[place + 1] /\ target = Target(verdict)
    BY Zenon, <2>1, <2>3, <2>4
  <2>6. PICK e : e = E(verdict) /\ (e = epoch[n] \/ e = epoch[n] + 1)
    BY Zenon
  <2>7. PICK out : /\ out = {Packet(target.addr, "Ping", List(verdict))}
                   /\ \/ out = {Packet(target.addr, "Ping", <<StatusOfNode(n, e)>>)}
                      \/ out = {Packet(target.addr, "Ping", BuildPeerStatus(n, e, ps))}
    <3>1. List(verdict) = <<StatusOfNode(n, e)>> \/ List(verdict) = BuildPeerStatus(n, e, ps)
      BY Zenon, <2>1, <2>6
    <3>. HIDE DEF List
    <3>. QED
      BY Zenon, <3>1
  <2>. HIDE DEF Ps, Due, Then, Target, E, List
  <2>8. net' = net \/ net' \in Sent(net, out)
    BY Zenon, <1>0, <2>5, <2>7
  <2>9. /\ ps = Checked(old, verdict)
        /\ peers' = [peers EXCEPT ![n] = ps]
        /\ last_pinged' = [last_pinged EXCEPT ![n] = place]
        /\ epoch' = [epoch EXCEPT ![n] = e]
    BY Zenon, <1>0, <2>1, <2>3, <2>4, <2>6 DEF Ps
  <2>10. \/ out = {Packet(ps[place + 1].addr, "Ping", <<StatusOfNode(n, e)>>)}
         \/ out = {Packet(ps[place + 1].addr, "Ping", BuildPeerStatus(n, e, ps))}
    BY Zenon, <2>5, <2>7
  <2>. QED
    BY Zenon, <2>2, <2>3, <2>4, <2>6, <2>8, <2>9, <2>10
<1>2. stopped' = stopped /\ total > 0
  BY Zenon DEF PingPeers
<1>3. old \in Seq(Peer) /\ ListOK(n, old) /\ First(old) /\ Behind(old, epoch, stopped)
  BY Zenon DEF GossipInv, ListsOK
<1>4. total \in Nat /\ DOMAIN old = 1..total
  BY SMTT(30), <1>3
<1>5. faults' \in Nat /\ steps' \in Nat
  <2>1. IsFiniteSet(1..total)
    BY SMTT(30), <1>4, FS_Interval
  <2>2. PICK doubted : doubted = {i \in judged : verdict[i] # "fine"} /\ doubted \subseteq 1..total
    BY Zenon, <1>4 DEF judged
  <2>3. Cardinality(doubted) \in Nat
    BY Zenon, <2>1, <2>2, FS_Subset, FS_CardinalityType
  <2>. QED
    BY Zenon, <1>0, <2>2, <2>3, StepsOK DEF GossipInv
<1>6. turn \in Nat
  <2>1. CASE due = {}
    BY Zenon, <1>1, <1>4, <2>1
  <2>2. CASE due # {}
    <3>1. due \in SUBSET Nat
      BY SMTT(30), <1>1, <1>4
    <3>. QED
      BY Zenon, <1>1, <2>2, <3>1, Least
  <2>. QED
    BY Zenon, <2>1, <2>2
<1>. HIDE DEF total, old
<1>7. place \in Nat /\ place + 1 \in DOMAIN old
  BY Zenon, <1>1, <1>2, <1>4, <1>6, PlaceOK DEF GossipInv
<1>8. epoch[n] \in Nat /\ e \in Nat /\ epoch[n] <= e
  <2>1. epoch[n] \in Nat
    BY Zenon DEF GossipInv, OthersOK
  <2>. QED
    BY SMTT(30), <1>1, <2>1
<1>9. epoch' \in [Nodes -> Nat] /\ epoch'[n] = e
  BY Zenon, <1>1, <1>8 DEF GossipInv, OthersOK
<1>10. last_pinged' \in [Nodes -> Nat]
  BY Zenon, <1>1, <1>7 DEF GossipInv, OthersOK
<1>11. OthersOK'
  BY Zenon, <1>5, <1>9, <1>10 DEF PingPeers, GossipInv, OthersOK
<1>12. \A a \in Nodes : epoch[a] <= epoch'[a]
  <2>1. \A a \in Nodes : a = n \/ epoch'[a] = epoch[a]
    BY Zenon, <1>1 DEF GossipInv, OthersOK
  <2>2. \A a \in Nodes : epoch[a] \in Nat
    BY Zenon DEF GossipInv, OthersOK
  <2>. QED
    BY SMTT(30), <1>8, <1>9, <2>1, <2>2
<1>13. ListOK(n, ps) /\ First(ps) /\ Behind(ps, epoch, stopped) /\ DOMAIN ps = DOMAIN old
  BY ZenonT(40), <1>0, <1>1, <1>3, CheckedOK
<1>14. \A i \in DOMAIN ps : ps[i].addr \in Nodes /\ ps[i].epoch \in Nat
  <2>1. \A i \in DOMAIN ps : ps[i] \in Peer
    BY <1>13 DEF ListOK
  <2>. QED
    BY Zenon, <2>1 DEF Peer
<1>15. Behind(ps, epoch', stopped')
  BY Zenon, <1>2, <1>9, <1>12, <1>13, <1>14, BehindLater DEF GossipInv, OthersOK
<1>16. ASSUME NEW q \in net' PROVE q \in net \/ PacketOK(q, epoch', stopped')
  <2>1. q \in net \/ q \in out
    BY Zenon, <1>1, SentOnly
  <2>2. PICK a \in Nodes : a = ps[place + 1].addr
    BY Zenon, <1>7, <1>13, <1>14
  <2>3. ASSUME NEW list \in Seq(PeerStatus), list # <<>>, Behind(list, epoch', stopped')
        PROVE  PacketOK(Packet(a, "Ping", list), epoch', stopped')
    BY Zenon, <2>3 DEF PacketOK, Packet
  <2>4. e <= epoch'[n] /\ ps \in Seq(Peer)
    BY SMTT(30), <1>8, <1>9, <1>13 DEF ListOK
  <2>5. PacketOK(Packet(a, "Ping", <<StatusOfNode(n, e)>>), epoch', stopped')
    BY Zenon, <1>8, <2>3, <2>4, StatusOK, OwnStatusBehind DEF GossipInv
  <2>6. PacketOK(Packet(a, "Ping", BuildPeerStatus(n, e, ps)), epoch', stopped')
    BY Zenon, <1>8, <1>15, <2>3, <2>4, BuildOK DEF GossipInv
  <2>7. ASSUME q \in out
        PROVE  \/ q = Packet(a, "Ping", <<StatusOfNode(n, e)>>)
               \/ q = Packet(a, "Ping", BuildPeerStatus(n, e, ps))
    BY Zenon, <1>1, <2>2, <2>7
  <2>. QED
    BY Zenon, <2>1, <2>5, <2>6, <2>7
<1>17. ListsOK' /\ PacketsOK'
  BY Zenon, <1>1, <1>2, <1>11, <1>12, <1>13, <1>15, <1>16, ListsKept DEF GossipInv
<1>. QED
  BY Zenon, <1>11, <1>17 DEF GossipInv

-----------------------------------------------------------------------------
(* Theorems *)

LEMMA GossipInit == Init => GossipInv
<1>. SUFFICES ASSUME Init PROVE GossipInv
  OBVIOUS
<1>1. 0 \in Nat /\ NeverPinged \in Nat /\ 0 \in GenerationId
  BY DEF NeverPinged, GenerationId
<1>2. OthersOK
  BY Zenon, <1>1 DEF Init, OthersOK
<1>3. ASSUME NEW n \in Nodes
      PROVE  ListOK(n, peers[n]) /\ First(peers[n]) /\ Behind(peers[n], epoch, stopped)
  <2>1. peers[n] = SeedPeers(n)
    BY Zenon DEF Init
  <2>. QED
    BY Zenon, <1>2, <2>1, SeedsOK DEF OthersOK
<1>4. peers \in [Nodes -> Seq(Peer)]
  <2>1. \A n \in Nodes : SeedPeers(n) \in Seq(Peer)
    BY Zenon, <1>2, SeedsOK DEF ListOK, OthersOK
  <2>. QED
    BY Zenon, <2>1 DEF Init
<1>5. PacketsOK
  BY Zenon DEF Init, PacketsOK
<1>. QED
  BY Zenon, <1>2, <1>3, <1>4, <1>5 DEF GossipInv, ListsOK

LEMMA GossipNext == GossipInv /\ [Next]_vars => GossipInv'
<1>. SUFFICES ASSUME GossipInv, [Next]_vars PROVE GossipInv'
  OBVIOUS
<1>1. CASE UNCHANGED vars
  BY Zenon, <1>1 DEF vars, GossipInv, OthersOK, ListsOK, PacketsOK
<1>2. ASSUME NEW p \in net, Receive(p) PROVE GossipInv'
  <2>1. p.to \in Nodes
    BY Zenon, <1>2 DEF GossipInv, PacketsOK, PacketOK
  <2>. QED
    BY Zenon, <1>2, <2>1, PingStep, LeaveStep DEF Receive
<1>. QED
  BY Zenon, <1>1, <1>2, LoseStep, SettingsStep, PingPeersStep, StopStep, StartStep, ManageStep,
     BanStep, WriteStep, ReadStep, StoreStep, FailStep DEF Next

THEOREM GossipInductive == Spec => []GossipInv
BY Zenon, GossipInit, GossipNext, PTL DEF Spec

\* Peers, packets, counters and tasks keep their types whatever the nodes, the seeds and
\* the bounds: in particular handle_ping finds a first status in every packet it is given.
THEOREM GossipTypes == Spec => []TypeOK
<1>1. GossipInv => TypeOK
  BY Zenon DEF GossipInv, OthersOK, ListsOK, PacketsOK, PacketOK, TypeOK
<1>. QED
  BY <1>1, GossipInductive, PTL

\* handle_ping and handle_leave never make a node list itself, or list an address twice with
\* more than a seed, whatever the packets and in whatever order they arrive.
THEOREM PeersListedOnce == Spec => []ListsNoPeerTwice
<1>1. ASSUME GossipInv PROVE ListsNoPeerTwice
  <2>1. \A n \in Nodes : ListOK(n, peers[n]) /\ Distinct(peers[n])
    BY Zenon, <1>1, FirstDistinct DEF GossipInv, ListsOK
  <2>. QED
    BY Zenon, <2>1 DEF ListOK, Distinct, ListsNoPeerTwice
<1>. QED
  BY <1>1, GossipInductive, PTL

\* No list and no packet gives a node that has not stopped an epoch its own Gossiper::epoch has
\* not reached: epochs only come from the node itself, through any chain of build_peer_status.
THEOREM NobodyAhead == Spec => []NeverAhead
<1>1. ASSUME GossipInv PROVE NeverAhead
  BY Zenon, <1>1 DEF GossipInv, ListsOK, PacketsOK, PacketOK, Behind, NeverAhead
<1>. QED
  BY <1>1, GossipInductive, PTL

-----------------------------------------------------------------------------
(* Announcements: what a list says of the peers that were heard.           *)

\* A list has counted heartbeats of m, and knows it with generation g.
Hears(ps, m) == \E i \in DOMAIN ps : ps[i].addr = m /\ ps[i].heard

HearsWith(ps, m, k, g) == \E i \in DOMAIN ps : ps[i].addr = m /\ ps[i].heard /\ ps[i].gen[k] = g

\* Peers that were heard stay in the list as heard, and a kind of generation that moved is
\* in changed.
Carried(old, new, changed) ==
    \A j \in DOMAIN old : old[j].heard =>
        \E i \in DOMAIN new : /\ new[i].addr = old[j].addr /\ new[i].heard
                              /\ \A k \in Kinds : new[i].gen[k] = old[j].gen[k] \/ k \in changed

LEMMA CarriedOn ==
    ASSUME NEW old, NEW mid, NEW new, NEW before, NEW changed, before \subseteq changed,
           Carried(old, mid, before), Carried(mid, new, changed)
    PROVE  Carried(old, new, changed)
<1>. SUFFICES ASSUME NEW j \in DOMAIN old, old[j].heard
              PROVE  \E i \in DOMAIN new : /\ new[i].addr = old[j].addr /\ new[i].heard
                       /\ \A k \in Kinds : new[i].gen[k] = old[j].gen[k] \/ k \in changed
  BY Zenon DEF Carried
<1>1. PICK h \in DOMAIN mid : /\ mid[h].addr = old[j].addr /\ mid[h].heard
                              /\ \A k \in Kinds : mid[h].gen[k] = old[j].gen[k] \/ k \in before
  BY Zenon DEF Carried
<1>2. PICK i \in DOMAIN new : /\ new[i].addr = mid[h].addr /\ new[i].heard
                              /\ \A k \in Kinds : new[i].gen[k] = mid[h].gen[k] \/ k \in changed
  BY Zenon, <1>1 DEF Carried
<1>3. \A k \in Kinds : new[i].gen[k] = old[j].gen[k] \/ k \in changed
  BY Zenon, <1>1, <1>2
<1>. QED
  BY Zenon, <1>1, <1>2, <1>3

\* As no address has two entries that were heard, a generation a list knows is one it knew
\* before or one that moved.
LEMMA CarriedHears ==
    ASSUME NEW n, NEW old, NEW new, NEW changed, Carried(old, new, changed),
           ListOK(n, new), First(new), NEW m, Hears(old, m)
    PROVE  /\ Hears(new, m)
           /\ \A k \in Kinds : \A g : HearsWith(new, m, k, g) => HearsWith(old, m, k, g) \/ k \in changed
<1>1. PICK j \in DOMAIN old : old[j].addr = m /\ old[j].heard
  BY Zenon DEF Hears
<1>2. PICK i \in DOMAIN new : /\ new[i].addr = m /\ new[i].heard
                              /\ \A k \in Kinds : new[i].gen[k] = old[j].gen[k] \/ k \in changed
  BY Zenon, <1>1 DEF Carried
<1>3. Distinct(new)
  BY Zenon, FirstDistinct DEF ListOK
<1>4. ASSUME NEW k \in Kinds, NEW g, HearsWith(new, m, k, g), k \notin changed
      PROVE  HearsWith(old, m, k, g)
  <2>1. PICK h \in DOMAIN new : new[h].addr = m /\ new[h].heard /\ new[h].gen[k] = g
    BY Zenon, <1>4 DEF HearsWith
  <2>2. h = i
    BY Zenon, <1>2, <1>3, <2>1 DEF Distinct, ListOK
  <2>3. old[j].gen[k] = g
    BY Zenon, <1>2, <1>4, <2>1, <2>2
  <2>. QED
    BY Zenon, <1>1, <2>3 DEF HearsWith
<1>. QED
  BY Zenon, <1>2, <1>4 DEF Hears

\* A peer that was heard stays heard, and takes over the generations of the status.
LEMMA UpdatedHeard ==
    ASSUME NEW p \in Peer, NEW s \in PeerStatus, NEW direct \in BOOLEAN, NEW counts \in BOOLEAN, p.heard
    PROVE  /\ UpdateHeartbeat(p, direct, counts).heard
           /\ Updated(p, s, direct, counts).heard /\ Updated(p, s, direct, counts).gen = s.gen
<1>1. PICK u \in Peer : u = UpdateHeartbeat(p, direct, counts)
  BY Zenon, HeartbeatOK
<1>2. u.heard
  <2>1. CASE p.state \in {"Seed", "Offline"} \/ (p.state = "Left" /\ direct)
    BY Zenon, <1>1, <2>1 DEF UpdateHeartbeat, Peer
  <2>2. CASE ~(p.state \in {"Seed", "Offline"} \/ (p.state = "Left" /\ direct))
    <3>1. PICK t : u = [p EXCEPT !.state = t, !.heard = @ \/ counts]
      BY Zenon, <1>1, <2>2 DEF UpdateHeartbeat
    <3>2. PICK h : h = (p.heard \/ counts) /\ h
      BY Zenon
    <3>3. u = [p EXCEPT !.state = t, !.heard = h]
      BY Zenon, <3>1, <3>2
    <3>4. u.heard = h
      BY Zenon, <3>3 DEF Peer
    <3>. QED
      BY Zenon, <3>2, <3>4
  <2>. QED
    BY Zenon, <2>1, <2>2
<1>3. Updated(p, s, direct, counts) = [u EXCEPT !.epoch = s.epoch, !.gen = s.gen]
  BY Zenon, <1>1 DEF Updated
<1>. QED
  BY Zenon, <1>1, <1>2, <1>3 DEF Peer

\* One status merged: what moved on a peer that was heard is noticed.
LEMMA MergeCarries ==
    ASSUME NEW n, NEW ep, NEW gone, NEW acc, MergeOK(n, acc, ep, gone),
           NEW status \in PeerStatus, NEW direct \in BOOLEAN, NEW counts \in BOOLEAN,
           NEW next, next = Merge(n, acc, status, direct, counts)
    PROVE  acc.changed \subseteq next.changed /\ Carried(acc.peers, next.peers, next.changed)
<1>. DEFINE same == Entries(acc.peers, status.addr)
            at   == IF same = {} THEN Len(acc.peers) + 1 ELSE Min(same)
            met  == acc.met \/ \E i \in 1..(at - 1) : acc.peers[i].state = "Seed"
<1>1. PICK ps \in Seq(Peer) : ps = acc.peers
  BY Zenon DEF MergeOK, Merging
<1>2. acc \in Merging
  BY Zenon DEF MergeOK
<1>3. Carried(ps, ps, acc.changed)
  BY Zenon DEF Carried
<1>4. CASE next = acc \/ next = [acc EXCEPT !.met = met]
  <2>1. next.peers = ps /\ next.changed = acc.changed
    <3>. HIDE DEF met
    <3>. QED
      BY Zenon, <1>1, <1>2, <1>4 DEF Merging
  <2>. QED
    BY Zenon, <1>1, <1>3, <2>1
<1>5. CASE status.addr # n /\ same = {}
  <2>1. PICK p : p = Discovered(status)
    BY Zenon
  <2>2. next = [acc EXCEPT !.peers = Append(acc.peers, p), !.met = met]
    BY Zenon, <1>5, <2>1 DEF Merge
  <2>. HIDE DEF met
  <2>3. next.peers = Append(ps, p) /\ next.changed = acc.changed
    BY Zenon, <1>1, <1>2, <2>2 DEF Merging
  <2>4. \A i \in DOMAIN ps : i \in DOMAIN Append(ps, p) /\ Append(ps, p)[i] = ps[i]
    OBVIOUS
  <2>5. \A i \in DOMAIN ps : i \in DOMAIN next.peers /\ next.peers[i] = ps[i]
    BY Zenon, <2>3, <2>4
  <2>6. Carried(ps, next.peers, next.changed)
    BY Zenon, <2>5 DEF Carried
  <2>. QED
    BY Zenon, <1>1, <2>3, <2>6
<1>6. CASE status.addr # n /\ same # {} /\ (status.epoch > acc.peers[at].epoch \/ direct)
  <2>1. same \in SUBSET Nat
    BY SMTT(30), <1>1 DEF Entries
  <2>2. at \in DOMAIN ps /\ ps[at].addr = status.addr
    <3>1. at \in same
      BY Zenon, <1>6, <2>1, Least
    <3>. QED
      BY Zenon, <1>1, <3>1 DEF Entries
  <2>3. next = [peers |-> [acc.peers EXCEPT ![at] = Updated(@, status, direct, counts)],
                changed |-> acc.changed \cup Noticed(acc.peers[at], status, direct, counts),
                met |-> met]
    BY Zenon, <1>6 DEF Merge
  <2>. HIDE DEF at, met, same
  <2>4. PICK local \in Peer : local = ps[at]
    BY SMTT(30), <2>2
  <2>5. PICK p : p = Updated(local, status, direct, counts)
    BY Zenon
  <2>6. PICK qs, changed : /\ qs = [ps EXCEPT ![at] = p]
                           /\ changed = acc.changed \cup Noticed(local, status, direct, counts)
    BY Zenon
  <2>6a. next = [peers |-> qs, changed |-> changed, met |-> met]
    BY Zenon, <1>1, <2>3, <2>4, <2>5, <2>6
  <2>7. next.peers = qs /\ next.changed = changed
    BY SMTT(30), <2>6a
  <2>8. /\ DOMAIN next.peers = DOMAIN ps /\ next.peers[at] = p
        /\ \A i \in DOMAIN ps : i # at => next.peers[i] = ps[i]
    BY Zenon, <2>2, <2>6, <2>7
  <2>9. p.addr = local.addr
    BY Zenon, <2>5, UpdatedOK
  <2>10. ASSUME local.heard
         PROVE  p.heard /\ \A k \in Kinds : p.gen[k] = local.gen[k] \/ k \in next.changed
    <3>1. p.heard /\ p.gen = status.gen /\ UpdateHeartbeat(local, direct, counts).heard
      <4>1. /\ Updated(local, status, direct, counts).heard
            /\ Updated(local, status, direct, counts).gen = status.gen
            /\ UpdateHeartbeat(local, direct, counts).heard
        BY SMTT(30), <2>10, UpdatedHeard
      <4>. QED
        BY Zenon, <2>5, <4>1
    <3>2. \A k \in Kinds : local.gen[k] # status.gen[k] => k \in next.changed
      BY Zenon, <2>6, <2>7, <3>1 DEF Noticed
    <3>. QED
      BY Zenon, <3>1, <3>2
  <2>11. Carried(ps, next.peers, next.changed)
    BY Zenon, <2>4, <2>8, <2>9, <2>10 DEF Carried
  <2>. QED
    BY Zenon, <1>1, <2>6, <2>7, <2>11
<1>7. \/ next = acc \/ next = [acc EXCEPT !.met = met]
      \/ status.addr # n /\ same = {}
      \/ status.addr # n /\ same # {} /\ (status.epoch > acc.peers[at].epoch \/ direct)
  BY Zenon DEF Merge
<1>. QED
  BY Zenon, <1>4, <1>5, <1>6, <1>7

\* A whole packet.
LEMMA MergeAllCarries ==
    ASSUME NEW n, NEW ep, NEW gone, NEW list \in Seq(PeerStatus), NEW counts \in BOOLEAN,
           ListOK(n, peers[n]), First(peers[n]), Behind(peers[n], ep, gone),
           Behind(list, ep, gone)
    PROVE  Carried(peers[n], MergeAll(n, list, counts).peers, MergeAll(n, list, counts).changed)
<1>. DEFINE U == MergeUpto(n, list, counts)
            Good(i) == Carried(peers[n], U[i].peers, U[i].changed)
            bad == {i \in 0..Len(list) : ~Good(i)}
<1>1. /\ U[0] = [peers |-> peers[n], changed |-> {}, met |-> FALSE]
      /\ \A i \in 1..Len(list) : U[i] = Turn(n, U[i - 1], list, i, counts)
  BY Zenon, MergeUptoDef
<1>2. \A i \in 0..Len(list) : MergeOK(n, U[i], ep, gone)
  BY Zenon, MergeUptoOK
<1>. HIDE DEF U
<1>3. Good(0)
  <2>1. U[0].peers = peers[n]
    BY SMTT(30), <1>1
  <2>. QED
    BY Zenon, <2>1 DEF Carried
<1>4. ASSUME NEW i \in 1..Len(list), Good(i - 1) PROVE Good(i)
  <2>1. i - 1 \in 0..Len(list) /\ i \in DOMAIN list /\ list[i] \in PeerStatus /\ (i = 1) \in BOOLEAN
    BY SMTT(30)
  <2>2. PICK acc, next : acc = U[i - 1] /\ next = U[i] /\ MergeOK(n, acc, ep, gone)
    BY Zenon, <1>2, <2>1
  <2>2a. PICK status \in PeerStatus : status = list[i]
    BY Zenon, <2>1
  <2>2b. PICK direct \in BOOLEAN : direct = (i = 1)
    BY Zenon, <2>1
  <2>2c. next = Merge(n, acc, status, direct, counts)
    BY Zenon, <1>1, <2>2, <2>2a, <2>2b DEF Turn
  <2>3. acc.changed \subseteq next.changed /\ Carried(acc.peers, next.peers, next.changed)
    BY SMTT(30), <2>2, <2>2c, MergeCarries
  <2>4. Carried(peers[n], acc.peers, acc.changed)
    BY Zenon, <1>4, <2>2
  <2>5. Carried(peers[n], next.peers, next.changed)
    BY Zenon, <2>3, <2>4, CarriedOn
  <2>. QED
    BY Zenon, <2>2, <2>5
<1>. HIDE DEF Good
<1>5. bad = {}
  <2>. SUFFICES ASSUME bad # {} PROVE FALSE
    OBVIOUS
  <2>1. PICK i \in bad : \A y \in bad : i <= y
    <3>1. bad \in SUBSET Nat
      BY SMTT(30)
    <3>. QED
      BY Zenon, <3>1, Least
  <2>2. i \in 0..Len(list) /\ i # 0
    BY Zenon, <1>3, <2>1
  <2>3. i \in 1..Len(list) /\ i - 1 \in 0..Len(list) /\ ~(i <= i - 1)
    BY SMTT(30), <2>2
  <2>4. Good(i - 1)
    BY Zenon, <2>1, <2>3
  <2>. QED
    BY Zenon, <1>4, <2>1, <2>3, <2>4
<1>6. Len(list) \in 0..Len(list)
  OBVIOUS
<1>7. Good(Len(list))
  BY Zenon, <1>5, <1>6
<1>. QED
  BY Zenon, <1>7 DEF MergeAll, Good, U

\* Every element of a set of places has a rank, and is the only one of that rank.
LEMMA NthOnto ==
    ASSUME NEW len \in Nat, NEW S \in SUBSET (1..len), NEW x \in S
    PROVE  \E k \in 1..Cardinality(S) : Nth(S, k) = x
<1>. DEFINE Upto(i) == {j \in S : j <= i}
            k == Cardinality(Upto(x))
<1>1. IsFiniteSet(1..len)
  BY SMTT(30), FS_Interval
<1>2. IsFiniteSet(S) /\ Cardinality(S) \in Nat
  BY Zenon, <1>1, FS_Subset, FS_CardinalityType
<1>3. \A i : /\ Upto(i) \subseteq S /\ IsFiniteSet(Upto(i)) /\ Cardinality(Upto(i)) \in Nat
             /\ Cardinality(Upto(i)) <= Cardinality(S)
  <2>1. \A i : Upto(i) \in SUBSET S
    BY Zenon
  <2>. QED
    BY Zenon, <1>2, <2>1, FS_Subset, FS_CardinalityType
<1>4. \A j \in S : j \in Nat
  BY SMTT(30)
<1>5. ASSUME NEW y \in S, NEW z \in S, y < z PROVE Cardinality(Upto(y)) < Cardinality(Upto(z))
  <2>1. ~(z <= y) /\ z <= z /\ \A j \in S : j <= y => j <= z
    BY SMTT(30), <1>4, <1>5
  <2>2. Upto(y) \subseteq Upto(z) /\ Upto(y) # Upto(z)
    BY Zenon, <1>5, <2>1
  <2>3. IsFiniteSet(Upto(z))
    BY Zenon, <1>3
  <2>4. Cardinality(Upto(y)) <= Cardinality(Upto(z))
    BY Zenon, <2>2, <2>3, FS_Subset
  <2>5. Cardinality(Upto(y)) # Cardinality(Upto(z))
    BY Zenon, <2>2, <2>3, FS_Subset
  <2>. HIDE DEF Upto
  <2>6. Cardinality(Upto(y)) \in Nat /\ Cardinality(Upto(z)) \in Nat
    BY Zenon, <1>3
  <2>. QED
    BY SMTT(30), <2>4, <2>5, <2>6
<1>6. k # 0
  <2>1. x <= x
    BY SMTT(30), <1>4
  <2>2. x \in Upto(x)
    BY Zenon, <2>1
  <2>3. IsFiniteSet(Upto(x)) /\ Upto(x) # {}
    BY Zenon, <1>3, <2>2
  <2>. HIDE DEF Upto
  <2>. QED
    BY Zenon, <2>3, FS_EmptySet
<1>7. k \in 1..Cardinality(S)
  <2>1. k \in Nat /\ k <= Cardinality(S)
    BY Zenon, <1>3
  <2>. HIDE DEF k
  <2>. QED
    BY SMTT(30), <1>2, <1>6, <2>1
<1>. HIDE DEF k
<1>8. PICK y \in S : y = Nth(S, k) /\ Cardinality(Upto(y)) = k
  BY Zenon, <1>7, NthOf
<1>9. y = x
  <2>1. \A a, b \in Nat : a = b => ~(a < b)
    OBVIOUS
  <2>2. Cardinality(Upto(x)) = k /\ \A i : Cardinality(Upto(i)) \in Nat
    BY Zenon, <1>3 DEF k
  <2>. HIDE DEF Upto
  <2>3. ~(x < y) /\ ~(y < x)
    BY Zenon, <1>5, <1>8, <2>1, <2>2
  <2>4. x \in Nat /\ y \in Nat
    BY Zenon, <1>4
  <2>. QED
    BY SMTT(30), <2>3, <2>4
<1>. QED
  BY Zenon, <1>7, <1>8, <1>9

\* Dropping the seeds drops no peer that was heard.
LEMMA WithoutSeedsCarries ==
    ASSUME NEW n, NEW ep, NEW gone, NEW acc, MergeOK(n, acc, ep, gone)
    PROVE  Carried(acc.peers, WithoutSeeds(acc), acc.changed)
<1>1. PICK ps \in Seq(Peer) : ps = acc.peers /\ \A i \in DOMAIN ps : ps[i].state = "Seed" => ~ps[i].heard
  BY Zenon DEF MergeOK, ListOK
<1>2. CASE ~acc.met
  BY Zenon, <1>2 DEF WithoutSeeds, Carried
<1>3. CASE acc.met
  <2>1. PICK S : S = NonSeeds(ps)
    BY Zenon
  <2>2. PICK qs : qs = WithoutSeeds(acc) /\ qs = [k \in 1..Cardinality(S) |-> ps[Nth(S, k)]]
    BY Zenon, <1>1, <1>3, <2>1 DEF WithoutSeeds
  <2>3. Len(ps) \in Nat /\ DOMAIN ps = 1..Len(ps)
    OBVIOUS
  <2>4. S \in SUBSET (1..Len(ps))
    BY Zenon, <2>1, <2>3 DEF NonSeeds
  <2>5. ASSUME NEW j \in DOMAIN ps, ps[j].heard PROVE \E i \in DOMAIN qs : qs[i] = ps[j]
    <3>1. j \in S
      BY Zenon, <1>1, <2>1, <2>5 DEF NonSeeds
    <3>2. PICK k \in 1..Cardinality(S) : Nth(S, k) = j
      BY Zenon, <2>3, <2>4, <3>1, NthOnto
    <3>. QED
      BY Zenon, <2>2, <3>2
  <2>6. Carried(ps, qs, acc.changed)
    BY Zenon, <2>5 DEF Carried
  <2>. QED
    BY Zenon, <1>1, <2>2, <2>6
<1>. QED
  BY Zenon, <1>2, <1>3

\* The verdicts of the failure detector change neither what was heard nor a generation.
LEMMA CheckedCarries ==
    ASSUME NEW n, NEW old, NEW verdict, ListOK(n, old)
    PROVE  Carried(old, Checked(old, verdict), {})
<1>. DEFINE ps == Checked(old, verdict)
<1>1. /\ DOMAIN ps = DOMAIN old
      /\ \A i \in DOMAIN old : ps[i] = IF i \in DOMAIN verdict
                                       THEN CheckHeartbeat(old[i], verdict[i]) ELSE old[i]
  BY Zenon DEF Checked
<1>. HIDE DEF ps
<1>2. \A i \in DOMAIN old : old[i] \in Peer
  BY SMTT(30) DEF ListOK
<1>3. ASSUME NEW p \in Peer, NEW v
      PROVE  /\ CheckHeartbeat(p, v).addr = p.addr /\ CheckHeartbeat(p, v).heard = p.heard
             /\ CheckHeartbeat(p, v).gen = p.gen
  <2>1. CheckHeartbeat(p, v) = p \/ \E s : CheckHeartbeat(p, v) = [p EXCEPT !.state = s]
    BY Zenon DEF CheckHeartbeat
  <2>2. ASSUME NEW s
        PROVE  LET q == [p EXCEPT !.state = s]
               IN  q.addr = p.addr /\ q.heard = p.heard /\ q.gen = p.gen
    BY Zenon DEF Peer
  <2>. QED
    BY Zenon, <2>1, <2>2
<1>4. \A i \in DOMAIN old : ps[i].addr = old[i].addr /\ ps[i].heard = old[i].heard /\ ps[i].gen = old[i].gen
  <2>. TAKE i \in DOMAIN old
  <2>1. PICK p \in Peer : p = old[i]
    BY Zenon, <1>2
  <2>2. PICK v : v = verdict[i]
    BY Zenon
  <2>3. ps[i] = p \/ ps[i] = CheckHeartbeat(p, v)
    BY Zenon, <1>1, <2>1, <2>2
  <2>. QED
    BY SMTT(30), <1>3, <2>1, <2>3
<1>5. Carried(old, ps, {})
  BY Zenon, <1>1, <1>4 DEF Carried
<1>. QED
  BY Zenon, <1>5 DEF ps

-----------------------------------------------------------------------------
(* What a node does about an announcement.                                 *)

\* Only bans are written before they are stored, and they concern the lists.
TasksOK(T) ==
    \A t \in T : (t.at = "write" => t.by = "ban") /\ (t.by = "ban" => t.kind = "lists")

\* A node on which nothing overlapped has one reload at a time, of the core in use.
OneReload(T) ==
    /\ \A t, u \in T : IsReload(t) /\ IsReload(u) => t = u
    /\ \A t \in T : IsReload(t) => ~t.orphan

\* A reload that has read the settings has read the changes in c.
ReadsAll(T, c) == \A t \in T : IsReload(t) /\ t.at = "store" => c \subseteq t.got

\* A reload that a peer's generation of kind k asked for, and that will load the changes in c.
Loads(t, k, c) ==
    /\ t.by = "peer"
    /\ t.kind = "config" \/ k = "lists"
    /\ t.at = "read" \/ c \subseteq t.got

Loaded(T, loaded, k, c) == c \subseteq loaded \/ \E t \in T : Loads(t, k, c)

\* The last announcement w of node n, of kind k, at a node with the peers ps, the tasks T and
\* the core loaded: once the node knows it, the changes are there or on their way.
Heeds(ps, T, loaded, calm, n, k, w) ==
    /\ Hears(ps, n)
    /\ calm /\ HearsWith(ps, n, k, w.gen) => ReadsAll(T, w.covers) /\ Loaded(T, loaded, k, w.covers)

Announcement == [gen : GenerationId, audience : SUBSET Nodes, covers : SUBSET Changes]

\* Only changes in the settings store are announced, those of the lists apart.
ToldOK ==
    /\ told \in [Nodes -> [Kinds -> Announcement]]
    /\ \A n \in Nodes, k \in Kinds : /\ told[n][k].covers \subseteq settings
                                     /\ k = "lists" => told[n][k].covers \subseteq ListChanges

NodeOK(a) == TasksOK(reloads[a]) /\ (a \notin disturbed => OneReload(reloads[a]))

HeedsAll(a) ==
    \A n \in Nodes, k \in Kinds :
        a \in told[n][k].audience =>
            Heeds(peers[a], reloads[a], core[a], a \notin disturbed, n, k, told[n][k])

\* The inductive invariant, with GossipInv.
AnnounceInv == ToldOK /\ \A a \in Nodes : NodeOK(a) /\ HeedsAll(a)

LEMMA AnnounceInit == Init => AnnounceInv
<1>. SUFFICES ASSUME Init PROVE AnnounceInv
  BY Zenon
<1>1. \A n \in Nodes, k \in Kinds : told[n][k] = [gen |-> 0, audience |-> {}, covers |-> {}]
  BY Zenon DEF Init, NothingTold
<1>2. PICK w : w = [gen |-> 0, audience |-> {}, covers |-> {}]
  BY Zenon
<1>3. w \in Announcement /\ w.audience = {} /\ w.covers = {}
  BY SMTT(30), <1>2 DEF Announcement, GenerationId
<1>4. told = [n \in Nodes |-> [k \in Kinds |-> w]]
  BY Zenon, <1>2 DEF Init, NothingTold
<1>5. ToldOK
  BY Zenon, <1>3, <1>4 DEF ToldOK
<1>6. \A a \in Nodes : reloads[a] = {}
  BY Zenon DEF Init
<1>7. ASSUME NEW a \in Nodes PROVE NodeOK(a) /\ HeedsAll(a)
  BY Zenon, <1>3, <1>4, <1>6 DEF NodeOK, HeedsAll, TasksOK, OneReload
<1>. QED
  BY Zenon, <1>5, <1>7 DEF AnnounceInv

\* A step that announces nothing, and touches the nodes that are not the same as before in
\* a way that keeps the invariant.
Same(a) == peers'[a] = peers[a] /\ reloads'[a] = reloads[a] /\ core'[a] = core[a]

LEMMA AnnounceKept ==
    ASSUME AnnounceInv, told' = told, settings \subseteq settings', disturbed \subseteq disturbed',
           \A a \in Nodes : Same(a) \/ (NodeOK(a)' /\ HeedsAll(a)')
    PROVE  AnnounceInv'
<1>1. ToldOK'
  BY Zenon DEF AnnounceInv, ToldOK
<1>2. ASSUME NEW a \in Nodes, Same(a) PROVE NodeOK(a)' /\ HeedsAll(a)'
  <2>1. a \notin disturbed' => a \notin disturbed
    BY Zenon
  <2>2. NodeOK(a)'
    BY Zenon, <1>2, <2>1 DEF AnnounceInv, NodeOK, Same
  <2>3. HeedsAll(a)'
    BY Zenon, <1>2, <2>1 DEF AnnounceInv, HeedsAll, Same, Heeds
  <2>. QED
    BY Zenon, <2>2, <2>3
<1>. QED
  BY Zenon, <1>1, <1>2 DEF AnnounceInv

\* A step that only changes the list of one node.
LEMMA AnnounceList ==
    ASSUME GossipInv, GossipInv', AnnounceInv, NEW n \in Nodes, NEW ps,
           peers' = [peers EXCEPT ![n] = ps], Carried(peers[n], ps, {}),
           UNCHANGED <<told, settings, disturbed, reloads, core>>
    PROVE  AnnounceInv'
<1>1. peers'[n] = ps /\ \A a \in Nodes : a # n => peers'[a] = peers[a]
  BY Zenon DEF GossipInv, ListsOK
<1>2. ListOK(n, ps) /\ First(ps)
  BY Zenon, <1>1 DEF GossipInv, ListsOK
<1>3. NodeOK(n)'
  BY Zenon DEF AnnounceInv, NodeOK
<1>4. HeedsAll(n)'
  <2>. SUFFICES ASSUME NEW m \in Nodes, NEW k \in Kinds, n \in told[m][k].audience
                PROVE  Heeds(ps, reloads[n], core[n], n \notin disturbed, m, k, told[m][k])
    BY Zenon, <1>1 DEF HeedsAll
  <2>1. Heeds(peers[n], reloads[n], core[n], n \notin disturbed, m, k, told[m][k])
    BY Zenon DEF AnnounceInv, HeedsAll
  <2>2. Hears(peers[n], m)
    BY Zenon, <2>1 DEF Heeds
  <2>3. Hears(ps, m) /\ \A g : HearsWith(ps, m, k, g) => HearsWith(peers[n], m, k, g)
    BY SMTT(30), <1>2, <2>2, CarriedHears
  <2>. QED
    BY Zenon, <2>1, <2>3 DEF Heeds
<1>5. \A a \in Nodes : a # n => Same(a)
  BY Zenon, <1>1 DEF Same
<1>. QED
  BY Zenon, <1>3, <1>4, <1>5, AnnounceKept

LEMMA AnnouncePing ==
    ASSUME GossipInv, GossipInv', AnnounceInv, NEW n \in Nodes, PingPeers(n)
    PROVE  AnnounceInv'
<1>. DEFINE judged == {i \in DOMAIN peers[n] : ~IsOffline(peers[n][i]) /\ peers[n][i].heard}
<1>1. \E verdict \in [judged -> {"fine", "suspect", "convict"}] :
         peers' = [peers EXCEPT ![n] = Checked(peers[n], verdict)]
  BY Zenon DEF PingPeers
<1>2. PICK verdict : peers' = [peers EXCEPT ![n] = Checked(peers[n], verdict)]
  BY Zenon, <1>1
<1>3. ListOK(n, peers[n])
  BY Zenon DEF GossipInv, ListsOK
<1>4. Carried(peers[n], Checked(peers[n], verdict), {})
  BY Zenon, <1>3, CheckedCarries
<1>5. UNCHANGED <<told, settings, disturbed, reloads, core>>
  BY Zenon DEF PingPeers
<1>. QED
  BY Zenon, <1>2, <1>4, <1>5, AnnounceList

LEMMA AnnounceLeave ==
    ASSUME GossipInv, GossipInv', AnnounceInv, NEW n \in Nodes, NEW p, HandleLeave(n, p)
    PROVE  AnnounceInv'
<1>. DEFINE old == peers[n]
            from == p.list[1]
            same == {i \in DOMAIN old : old[i].addr = from.addr}
<1>1. UNCHANGED <<told, settings, disturbed, reloads, core>>
  BY Zenon DEF HandleLeave
<1>2. CASE same = {}
  <2>1. peers' = peers
    BY Zenon, <1>2 DEF HandleLeave
  <2>2. \A a \in Nodes : Same(a)
    BY Zenon, <1>1, <2>1 DEF Same
  <2>. QED
    BY Zenon, <1>1, <2>2, AnnounceKept
<1>3. CASE same # {}
  <2>1. PICK at, e : peers' = [peers EXCEPT ![n][at] = [@ EXCEPT !.state = "Left", !.epoch = e]]
    BY Zenon, <1>3 DEF HandleLeave
  <2>2. PICK ps : ps = [old EXCEPT ![at] = [@ EXCEPT !.state = "Left", !.epoch = e]]
    BY Zenon
  <2>3. peers' = [peers EXCEPT ![n] = ps]
    BY Zenon, <2>1, <2>2
  <2>4. \A i \in DOMAIN old : old[i] \in Peer
    BY DEF GossipInv, ListsOK, ListOK
  <2>5. DOMAIN ps = DOMAIN old /\ \A i \in DOMAIN old :
          ps[i] = old[i] \/ ps[i] = [old[i] EXCEPT !.state = "Left", !.epoch = e]
    BY Zenon, <2>2
  <2>6. ASSUME NEW x \in Peer, NEW y, y = [x EXCEPT !.state = "Left", !.epoch = e]
        PROVE  y.addr = x.addr /\ y.heard = x.heard /\ y.gen = x.gen
    BY Zenon, <2>6 DEF Peer
  <2>. HIDE DEF old
  <2>7. \A i \in DOMAIN old : ps[i].addr = old[i].addr /\ ps[i].heard = old[i].heard /\ ps[i].gen = old[i].gen
    <3>. TAKE i \in DOMAIN old
    <3>1. PICK x \in Peer : x = old[i]
      BY Zenon, <2>4
    <3>2. PICK y : y = ps[i]
      BY Zenon
    <3>3. y = x \/ y = [x EXCEPT !.state = "Left", !.epoch = e]
      BY Zenon, <2>5, <3>1, <3>2
    <3>4. y.addr = x.addr /\ y.heard = x.heard /\ y.gen = x.gen
      BY Zenon, <2>6, <3>3
    <3>. QED
      BY Zenon, <3>1, <3>2, <3>4
  <2>8. Carried(old, ps, {})
    BY Zenon, <2>5, <2>7 DEF Carried
  <2>. QED
    BY Zenon, <1>1, <2>3, <2>8, AnnounceList DEF old
<1>. QED
  BY Zenon, <1>2, <1>3

\* handle_ping: a node that learns the generation announced asks for a reload, and is alone
\* with it or disturbed.
LEMMA AnnounceHandle ==
    ASSUME GossipInv, GossipInv', AnnounceInv, NEW p \in net, NEW n \in Nodes, HandlePing(n, p)
    PROVE  AnnounceInv'
<1>0. PICK counts \in BOOLEAN :
        \E merged, ps, new :
          /\ merged = MergeAll(n, p.list, counts) /\ ps = WithoutSeeds(merged)
          /\ new = ReloadAsked(merged.changed)
          /\ peers' = [peers EXCEPT ![n] = ps]
          /\ reloads' = [reloads EXCEPT ![n] = @ \cup new]
          /\ disturbed' = disturbed \cup Overlap(n, new)
  BY Zenon DEF HandlePing
<1>1. PICK merged, ps, new :
        /\ merged = MergeAll(n, p.list, counts) /\ ps = WithoutSeeds(merged)
        /\ new = ReloadAsked(merged.changed)
        /\ peers' = [peers EXCEPT ![n] = ps]
        /\ reloads' = [reloads EXCEPT ![n] = @ \cup new]
        /\ disturbed' = disturbed \cup Overlap(n, new)
  BY Zenon, <1>0
<1>2. UNCHANGED <<told, settings, core>>
  BY Zenon DEF HandlePing
<1>3. Carried(peers[n], ps, merged.changed)
  <2>1. p.list \in Seq(PeerStatus) /\ Behind(p.list, epoch, stopped)
    BY Zenon DEF GossipInv, PacketsOK, PacketOK
  <2>2. ListOK(n, peers[n]) /\ First(peers[n]) /\ Behind(peers[n], epoch, stopped)
    BY Zenon DEF GossipInv, ListsOK
  <2>3. MergeOK(n, merged, epoch, stopped)
    BY Zenon, <1>1, <2>1, <2>2, MergeAllOK
  <2>4. Carried(peers[n], merged.peers, merged.changed)
    BY Zenon, <1>1, <2>1, <2>2, MergeAllCarries
  <2>5. Carried(merged.peers, ps, merged.changed)
    BY Zenon, <1>1, <2>3, WithoutSeedsCarries
  <2>. QED
    BY Zenon, <2>4, <2>5, CarriedOn
<1>4. peers'[n] = ps /\ \A a \in Nodes : a # n => peers'[a] = peers[a]
  BY Zenon, <1>1 DEF GossipInv, ListsOK
<1>5. ListOK(n, ps) /\ First(ps)
  BY Zenon, <1>4 DEF GossipInv, ListsOK
<1>6. reloads'[n] = reloads[n] \cup new /\ \A a \in Nodes : a # n => reloads'[a] = reloads[a]
  BY Zenon, <1>1 DEF GossipInv, OthersOK
<1>7. \A a \in Nodes : a # n => Same(a)
  BY Zenon, <1>2, <1>4, <1>6 DEF Same
<1>8. \A t \in new : /\ t.by = "peer" /\ t.at = "read" /\ t.orphan = FALSE
                     /\ \A k \in merged.changed : k \in Kinds => t.kind = "config" \/ k = "lists"
  BY SMTT(30), <1>1 DEF ReloadAsked, Kinds
<1>9. \A t, u \in new : t = u
  BY Zenon, <1>1 DEF ReloadAsked
<1>10. merged.changed # {} => new # {}
  BY Zenon, <1>1 DEF ReloadAsked
<1>11. ASSUME n \notin disturbed', new # {} PROVE \A t \in reloads[n] : ~IsReload(t)
  BY Zenon, <1>1, <1>11 DEF Overlap
<1>12. n \notin disturbed' => n \notin disturbed
  BY Zenon, <1>1
<1>13. \A t \in new : IsReload(t) /\ ~t.orphan /\ t.at # "store" /\ t.at # "write"
  BY Zenon, <1>8 DEF IsReload
<1>14. NodeOK(n)'
  <2>1. TasksOK(reloads'[n])
    BY Zenon, <1>6, <1>8, <1>13 DEF AnnounceInv, NodeOK, TasksOK, IsReload
  <2>2. ASSUME n \notin disturbed' PROVE OneReload(reloads'[n])
    <3>1. OneReload(reloads[n])
      BY Zenon, <1>12, <2>2 DEF AnnounceInv, NodeOK
    <3>. QED
      BY Zenon, <1>6, <1>9, <1>11, <1>13, <2>2, <3>1 DEF OneReload
  <2>. QED
    BY Zenon, <2>1, <2>2 DEF NodeOK
<1>15. HeedsAll(n)'
  <2>. SUFFICES ASSUME NEW m \in Nodes, NEW k \in Kinds, n \in told[m][k].audience
                PROVE  Heeds(ps, reloads'[n], core[n], n \notin disturbed', m, k, told[m][k])
    BY Zenon, <1>2, <1>4 DEF HeedsAll
  <2>1. PICK w : w = told[m][k]
    BY Zenon
  <2>2. Heeds(peers[n], reloads[n], core[n], n \notin disturbed, m, k, w)
    BY Zenon, <2>1 DEF AnnounceInv, HeedsAll
  <2>3. Hears(ps, m) /\ \A g : HearsWith(ps, m, k, g) => HearsWith(peers[n], m, k, g) \/ k \in merged.changed
    BY Zenon, <1>3, <1>5, <2>2, CarriedHears DEF Heeds
  <2>4. ASSUME n \notin disturbed', HearsWith(ps, m, k, w.gen)
        PROVE  ReadsAll(reloads'[n], w.covers) /\ Loaded(reloads'[n], core[n], k, w.covers)
    <3>1. CASE k \in merged.changed
      <4>1. PICK t \in new : TRUE
        BY Zenon, <1>10, <3>1
      <4>2. Loads(t, k, w.covers)
        BY Zenon, <1>8, <3>1, <4>1 DEF Loads
      <4>3. \A u \in reloads[n] : ~IsReload(u)
        BY Zenon, <1>11, <2>4, <4>1
      <4>. QED
        BY Zenon, <1>6, <1>13, <4>1, <4>2, <4>3 DEF ReadsAll, Loaded
    <3>2. CASE HearsWith(peers[n], m, k, w.gen)
      <4>1. ReadsAll(reloads[n], w.covers) /\ Loaded(reloads[n], core[n], k, w.covers)
        BY Zenon, <1>12, <2>2, <2>4, <3>2 DEF Heeds
      <4>. QED
        BY Zenon, <1>6, <1>13, <4>1 DEF ReadsAll, Loaded
    <3>. QED
      BY Zenon, <2>3, <2>4, <3>1, <3>2
  <2>. QED
    BY Zenon, <2>1, <2>3, <2>4 DEF Heeds
<1>16. disturbed \subseteq disturbed' /\ settings \subseteq settings'
  BY Zenon, <1>1, <1>2
<1>. QED
  BY Zenon, <1>2, <1>7, <1>14, <1>15, <1>16, AnnounceKept

\* A step that changes the tasks and the core of one node, and announces nothing.
LEMMA AnnounceTasks ==
    ASSUME GossipInv, AnnounceInv, NEW n \in Nodes, NEW T, NEW loaded,
           peers' = peers, told' = told, settings \subseteq settings', disturbed \subseteq disturbed',
           reloads' = [reloads EXCEPT ![n] = T], core' = [core EXCEPT ![n] = loaded],
           TasksOK(T), n \notin disturbed' => OneReload(T),
           \A k \in Kinds : \A c \in SUBSET settings :
               /\ n \notin disturbed' /\ (k = "lists" => c \subseteq ListChanges)
               /\ ReadsAll(reloads[n], c) /\ Loaded(reloads[n], core[n], k, c)
               => ReadsAll(T, c) /\ Loaded(T, loaded, k, c)
    PROVE  AnnounceInv'
<1>1. /\ reloads'[n] = T /\ core'[n] = loaded
      /\ \A a \in Nodes : a # n => reloads'[a] = reloads[a] /\ core'[a] = core[a]
  BY Zenon DEF GossipInv, OthersOK
<1>2. \A a \in Nodes : a # n => Same(a)
  BY Zenon, <1>1 DEF Same
<1>3. NodeOK(n)'
  BY Zenon, <1>1 DEF NodeOK
<1>4. HeedsAll(n)'
  <2>. SUFFICES ASSUME NEW m \in Nodes, NEW k \in Kinds, n \in told[m][k].audience
                PROVE  Heeds(peers[n], T, loaded, n \notin disturbed', m, k, told[m][k])
    BY Zenon, <1>1 DEF HeedsAll
  <2>1. Heeds(peers[n], reloads[n], core[n], n \notin disturbed, m, k, told[m][k])
    BY Zenon DEF AnnounceInv, HeedsAll
  <2>2. PICK c \in SUBSET settings : c = told[m][k].covers /\ (k = "lists" => c \subseteq ListChanges)
    BY Zenon DEF AnnounceInv, ToldOK
  <2>3. n \notin disturbed' => n \notin disturbed
    BY Zenon
  <2>. QED
    BY Zenon, <2>1, <2>2, <2>3 DEF Heeds
<1>. QED
  BY Zenon, <1>2, <1>3, <1>4, AnnounceKept

\* A reload or a ban begins.
LEMMA AnnounceStarted ==
    ASSUME GossipInv, AnnounceInv, NEW n \in Nodes, NEW t, Started(n, t),
           t.at = "write" => t.by = "ban", t.by = "ban" => t.kind = "lists", ~t.orphan,
           IsReload(t) => t.got = settings,
           NEW loaded, core[n] \subseteq loaded, core' = [core EXCEPT ![n] = loaded],
           UNCHANGED <<peers, told, settings>>
    PROVE  AnnounceInv'
<1>. DEFINE T == reloads[n] \cup {t}
<1>1. reloads' = [reloads EXCEPT ![n] = T]
  BY Zenon DEF Started
<1>2. disturbed \subseteq disturbed' /\ settings \subseteq settings'
  BY Zenon DEF Started
<1>3. TasksOK(T)
  BY Zenon DEF AnnounceInv, NodeOK, TasksOK
<1>4. ASSUME n \notin disturbed' PROVE OneReload(T)
  <2>1. OneReload(reloads[n])
    BY Zenon, <1>2, <1>4 DEF AnnounceInv, NodeOK
  <2>2. IsReload(t) => \A u \in reloads[n] : ~IsReload(u)
    BY Zenon, <1>4 DEF Started, Overlap
  <2>. QED
    BY Zenon, <2>1, <2>2 DEF OneReload
<1>5. ASSUME NEW k \in Kinds, NEW c \in SUBSET settings,
             ReadsAll(reloads[n], c), Loaded(reloads[n], core[n], k, c)
      PROVE  ReadsAll(T, c) /\ Loaded(T, loaded, k, c)
  <2>1. ReadsAll(T, c)
    BY Zenon, <1>5 DEF ReadsAll
  <2>2. Loaded(T, loaded, k, c)
    BY Zenon, <1>5 DEF Loaded
  <2>. QED
    BY Zenon, <2>1, <2>2
<1>. HIDE DEF T
<1>. QED
  BY Zenon, <1>1, <1>2, <1>3, <1>4, <1>5, AnnounceTasks

LEMMA AnnounceManage ==
    ASSUME GossipInv, AnnounceInv, NEW n \in Nodes, NEW kind \in Kinds, ManageReload(n, kind)
    PROVE  AnnounceInv'
<1>1. PICK t : /\ t = [by |-> "admin", kind |-> kind, at |-> "store", got |-> settings, orphan |-> FALSE]
               /\ Started(n, t)
  BY Zenon DEF ManageReload
<1>2. t.by = "admin" /\ t.at = "store" /\ t.got = settings /\ ~t.orphan
  BY Zenon, <1>1
<1>3. core' = [core EXCEPT ![n] = core[n]]
  BY Zenon DEF ManageReload, GossipInv, OthersOK
<1>4. (t.at = "write" => t.by = "ban") /\ (t.by = "ban" => t.kind = "lists")
  BY Zenon, <1>2
<1>. QED
  BY Zenon, <1>1, <1>2, <1>3, <1>4, AnnounceStarted DEF ManageReload

LEMMA AnnounceBan ==
    ASSUME GossipInv, AnnounceInv, NEW n \in Nodes, NEW c \in ListChanges, Fail2Ban(n, c)
    PROVE  AnnounceInv'
<1>1. PICK t : /\ t = [by |-> "ban", kind |-> "lists", at |-> "write", got |-> {c}, orphan |-> FALSE]
               /\ Started(n, t)
  BY Zenon DEF Fail2Ban
<1>2. t.by = "ban" /\ t.kind = "lists" /\ ~t.orphan
  BY Zenon, <1>1
<1>3. ~IsReload(t)
  BY Zenon, <1>2 DEF IsReload
<1>4. PICK loaded : loaded = core[n] \cup {c} /\ core' = [core EXCEPT ![n] = loaded]
  BY Zenon DEF Fail2Ban
<1>. QED
  BY Zenon, <1>1, <1>2, <1>3, <1>4, AnnounceStarted DEF Fail2Ban

\* A task moves on: a reload reads what is in the settings store now.
LEMMA AnnounceMoved ==
    ASSUME GossipInv, AnnounceInv, NEW n \in Nodes, NEW t \in reloads[n], NEW next,
           Moved(n, t, next), next.at = "store", next.by = t.by, next.kind = t.kind,
           next.orphan = t.orphan, IsReload(t) => next.got = settings,
           UNCHANGED <<peers, core, told, disturbed>>, settings \subseteq settings'
    PROVE  AnnounceInv'
<1>. DEFINE T == (reloads[n] \ {t}) \cup {next}
<1>1. reloads' = [reloads EXCEPT ![n] = T]
  BY Zenon DEF Moved
<1>2. core' = [core EXCEPT ![n] = core[n]] /\ disturbed \subseteq disturbed'
  BY Zenon DEF GossipInv, OthersOK
<1>3. TasksOK(T)
  <2>1. next.at # "write"
    BY Zenon
  <2>. QED
    BY Zenon, <2>1 DEF AnnounceInv, NodeOK, TasksOK
<1>4. IsReload(next) <=> IsReload(t)
  BY Zenon DEF IsReload
<1>5. ASSUME n \notin disturbed' PROVE OneReload(T)
  <2>1. OneReload(reloads[n])
    BY Zenon, <1>2, <1>5 DEF AnnounceInv, NodeOK
  <2>. QED
    BY Zenon, <1>4, <2>1 DEF OneReload
<1>6. ASSUME NEW k \in Kinds, NEW c \in SUBSET settings,
             ReadsAll(reloads[n], c), Loaded(reloads[n], core[n], k, c)
      PROVE  ReadsAll(T, c) /\ Loaded(T, core[n], k, c)
  <2>1. ReadsAll(T, c)
    BY Zenon, <1>4, <1>6 DEF ReadsAll
  <2>2. ASSUME Loads(t, k, c) PROVE Loads(next, k, c)
    <3>1. t.by = "peer"
      BY Zenon, <2>2 DEF Loads
    <3>2. IsReload(t)
      BY Zenon, <3>1 DEF IsReload
    <3>. QED
      BY Zenon, <2>2, <3>2 DEF Loads
  <2>3. Loaded(T, core[n], k, c)
    BY Zenon, <1>6, <2>2 DEF Loaded
  <2>. QED
    BY Zenon, <2>1, <2>3
<1>. HIDE DEF T
<1>. QED
  BY Zenon, <1>1, <1>2, <1>3, <1>5, <1>6, AnnounceTasks

LEMMA AnnounceWrite ==
    ASSUME GossipInv, AnnounceInv, NEW n \in Nodes, NEW t \in reloads[n], WriteBan(n, t)
    PROVE  AnnounceInv'
<1>1. t \in Task
  BY Zenon DEF GossipInv, OthersOK
<1>2. PICK next : next = [t EXCEPT !.at = "store"] /\ Moved(n, t, next)
  BY Zenon DEF WriteBan
<1>3. next.at = "store" /\ next.by = t.by /\ next.kind = t.kind /\ next.orphan = t.orphan
  BY Zenon, <1>1, <1>2 DEF Task
<1>4. ~IsReload(t)
  BY Zenon DEF WriteBan, AnnounceInv, NodeOK, TasksOK, IsReload
<1>5. UNCHANGED <<peers, core, told, disturbed>> /\ settings \subseteq settings'
  BY Zenon DEF WriteBan
<1>. QED
  BY Zenon, <1>2, <1>3, <1>4, <1>5, AnnounceMoved

LEMMA AnnounceRead ==
    ASSUME GossipInv, AnnounceInv, NEW n \in Nodes, NEW t \in reloads[n], ReadSettings(n, t)
    PROVE  AnnounceInv'
<1>1. t \in Task
  BY Zenon DEF GossipInv, OthersOK
<1>2. PICK next : next = [t EXCEPT !.at = "store", !.got = settings] /\ Moved(n, t, next)
  BY Zenon DEF ReadSettings
<1>3. /\ next.at = "store" /\ next.by = t.by /\ next.kind = t.kind /\ next.orphan = t.orphan
      /\ next.got = settings
  BY Zenon, <1>1, <1>2 DEF Task
<1>4. UNCHANGED <<peers, core, told, disturbed>> /\ settings \subseteq settings'
  BY Zenon DEF ReadSettings
<1>. QED
  BY Zenon, <1>2, <1>3, <1>4, AnnounceMoved

LEMMA AnnounceFails ==
    ASSUME GossipInv, AnnounceInv, NEW n \in Nodes, NEW t \in reloads[n], TaskFails(n, t)
    PROVE  AnnounceInv'
<1>. DEFINE T == reloads[n] \ {t}
<1>1. reloads' = [reloads EXCEPT ![n] = T] /\ core' = [core EXCEPT ![n] = core[n]]
  BY Zenon DEF TaskFails, GossipInv, OthersOK
<1>2. /\ disturbed \subseteq disturbed' /\ settings \subseteq settings' /\ (t.by = "peer" => n \in disturbed')
      /\ peers' = peers /\ told' = told
  BY Zenon DEF TaskFails
<1>3. TasksOK(T) /\ (n \notin disturbed' => OneReload(T))
  BY Zenon, <1>2 DEF AnnounceInv, NodeOK, TasksOK, OneReload
<1>4. ASSUME NEW k \in Kinds, NEW c \in SUBSET settings, n \notin disturbed',
             ReadsAll(reloads[n], c), Loaded(reloads[n], core[n], k, c)
      PROVE  ReadsAll(T, c) /\ Loaded(T, core[n], k, c)
  <2>1. ~Loads(t, k, c)
    BY Zenon, <1>2, <1>4 DEF Loads
  <2>2. ReadsAll(T, c)
    BY Zenon, <1>4 DEF ReadsAll
  <2>3. Loaded(T, core[n], k, c)
    BY Zenon, <1>4, <2>1 DEF Loaded
  <2>. QED
    BY Zenon, <2>2, <2>3
<1>. HIDE DEF T
<1>. QED
  BY Zenon, <1>1, <1>2, <1>3, <1>4, AnnounceTasks

LEMMA AnnounceStart ==
    ASSUME GossipInv, AnnounceInv, NEW n \in Nodes, Start(n)
    PROVE  AnnounceInv'
<1>1. reloads' = [reloads EXCEPT ![n] = reloads[n]] /\ core' = [core EXCEPT ![n] = settings]
  BY Zenon DEF Start, GossipInv, OthersOK
<1>2. UNCHANGED <<peers, told, settings, disturbed>>
  BY Zenon DEF Start
<1>3. TasksOK(reloads[n]) /\ (n \notin disturbed' => OneReload(reloads[n]))
  BY Zenon, <1>2 DEF AnnounceInv, NodeOK
<1>4. \A k \in Kinds : \A c \in SUBSET settings : Loaded(reloads[n], settings, k, c)
  BY Zenon DEF Loaded
<1>. QED
  BY Zenon, <1>1, <1>2, <1>3, <1>4, AnnounceTasks

\* A node that is bound to notice a generation does not know it yet.
LEMMA AudienceUnaware ==
    ASSUME GossipInv, NEW n \in Nodes, NEW k \in Kinds, NEW g, NEW a \in Audience(n, k, g)
    PROVE  a \in Nodes /\ Hears(peers[a], n) /\ ~HearsWith(peers[a], n, k, g)
<1>1. PICK i \in DOMAIN peers[a] : peers[a][i].addr = n /\ peers[a][i].heard /\ peers[a][i].gen[k] # g
  BY Zenon DEF Audience
<1>2. a \in Nodes
  BY Zenon DEF Audience
<1>3. ListOK(a, peers[a]) /\ Distinct(peers[a])
  BY Zenon, <1>2, FirstDistinct DEF GossipInv, ListsOK
<1>4. ASSUME HearsWith(peers[a], n, k, g) PROVE FALSE
  <2>1. PICK j \in DOMAIN peers[a] : peers[a][j].addr = n /\ peers[a][j].heard /\ peers[a][j].gen[k] = g
    BY Zenon, <1>4 DEF HearsWith
  <2>2. j = i
    BY Zenon, <1>1, <1>3, <2>1 DEF Distinct, ListOK
  <2>. QED
    BY Zenon, <1>1, <2>1, <2>2
<1>. QED
  BY Zenon, <1>1, <1>2, <1>4 DEF Hears

\* The tasks that are left once t is done, and what they still load.
LEMMA StoredTasks ==
    ASSUME GossipInv, AnnounceInv, NEW n \in Nodes, NEW t \in reloads[n], t.at = "store",
           NEW T, T = {[o EXCEPT !.orphan = @ \/ (t.kind = "config" /\ o.at # "read")] :
                         o \in reloads[n] \ {t}}
    PROVE  /\ TasksOK(T)
           /\ n \notin disturbed =>
                /\ OneReload(T)
                /\ \A k \in Kinds : \A c : 
                     /\ k = "lists" => c \subseteq ListChanges
                     /\ ReadsAll(reloads[n], c) /\ Loaded(reloads[n], core[n], k, c)
                     => ReadsAll(T, c) /\ Loaded(T, StoredCore(n, t), k, c)
<1>1. \A o \in reloads[n] : o \in Task
  BY Zenon DEF GossipInv, OthersOK
<1>2. ASSUME NEW o \in Task, NEW b, NEW u, u = [o EXCEPT !.orphan = @ \/ b]
      PROVE  u.at = o.at /\ u.by = o.by /\ u.kind = o.kind
  BY Zenon, <1>2 DEF Task
<1>3. ASSUME NEW u \in T PROVE \E o \in reloads[n] \ {t} : u.at = o.at /\ u.by = o.by /\ u.kind = o.kind
  <2>1. PICK o \in reloads[n] \ {t} : u = [o EXCEPT !.orphan = @ \/ (t.kind = "config" /\ o.at # "read")]
    BY Zenon, <1>3
  <2>2. PICK b : b = (t.kind = "config" /\ o.at # "read")
    BY Zenon
  <2>3. u = [o EXCEPT !.orphan = @ \/ b]
    BY Zenon, <2>1, <2>2
  <2>4. u.at = o.at /\ u.by = o.by /\ u.kind = o.kind
    BY SMTT(30), <1>1, <1>2, <2>3
  <2>. QED
    BY Zenon, <2>4
<1>4. TasksOK(reloads[n])
  BY Zenon DEF AnnounceInv, NodeOK
<1>5. TasksOK(T)
  <2>. SUFFICES ASSUME NEW u \in T
                PROVE  (u.at = "write" => u.by = "ban") /\ (u.by = "ban" => u.kind = "lists")
    BY Zenon DEF TasksOK
  <2>1. PICK o \in reloads[n] : u.at = o.at /\ u.by = o.by /\ u.kind = o.kind
    BY Zenon, <1>3
  <2>. QED
    BY Zenon, <1>4, <2>1 DEF TasksOK
<1>6. ASSUME n \notin disturbed, IsReload(t), NEW u \in T PROVE ~IsReload(u)
  <2>1. OneReload(reloads[n])
    BY Zenon, <1>6 DEF AnnounceInv, NodeOK
  <2>. QED
    BY Zenon, <1>3, <1>6, <2>1 DEF OneReload, IsReload
<1>7. ASSUME n \notin disturbed, IsReload(t), NEW k \in Kinds, NEW c, k = "lists" => c \subseteq ListChanges,
             ReadsAll(reloads[n], c), Loaded(reloads[n], core[n], k, c)
      PROVE  c \subseteq StoredCore(n, t)
  <2>1. c \subseteq t.got
    BY Zenon, <1>7 DEF ReadsAll
  <2>2. OneReload(reloads[n])
    BY Zenon, <1>7 DEF AnnounceInv, NodeOK
  <2>3. CASE t.kind = "config"
    BY Zenon, <2>1, <2>3 DEF StoredCore
  <2>4. CASE t.kind # "config"
    <3>1. StoredCore(n, t) = (core[n] \ ListChanges) \cup (t.got \cap ListChanges)
      BY Zenon, <1>7, <2>2, <2>4 DEF StoredCore, OneReload, IsReload
    <3>2. c \subseteq core[n] \/ c \subseteq ListChanges
      <4>. SUFFICES ASSUME NEW u \in reloads[n], Loads(u, k, c) PROVE c \subseteq ListChanges
        BY Zenon, <1>7 DEF Loaded
      <4>1. u.by = "peer" /\ (u.kind = "config" \/ k = "lists")
        BY Zenon DEF Loads
      <4>2. IsReload(u)
        BY Zenon, <4>1 DEF IsReload
      <4>3. u = t
        BY Zenon, <1>7, <2>2, <4>2 DEF OneReload
      <4>. QED
        BY Zenon, <1>7, <2>4, <4>1, <4>3
    <3>. QED
      BY Zenon, <2>1, <3>1, <3>2
  <2>. QED
    BY Zenon, <2>3, <2>4
<1>8. CASE IsReload(t)
  <2>1. n \notin disturbed => OneReload(T)
    BY Zenon, <1>6, <1>8 DEF OneReload
  <2>2. n \notin disturbed => \A c : ReadsAll(T, c)
    BY Zenon, <1>6, <1>8 DEF ReadsAll
  <2>. QED
    BY Zenon, <1>5, <1>7, <1>8, <2>1, <2>2 DEF Loaded
<1>9. CASE ~IsReload(t)
  <2>1. t.by = "ban" /\ t.kind = "lists"
    BY Zenon, <1>4, <1>9 DEF IsReload, TasksOK
  <2>2. t.by # "peer" /\ t.kind # "config"
    BY Zenon, <2>1
  <2>3. StoredCore(n, t) = core[n]
    BY Zenon, <2>1, <2>2 DEF StoredCore
  <2>4. ASSUME NEW o \in Task, NEW b, ~b PROVE [o EXCEPT !.orphan = @ \/ b] = o
    <3>1. o.orphan \in BOOLEAN
      BY Zenon DEF Task
    <3>2. (o.orphan \/ b) = o.orphan
      BY Zenon, <2>4, <3>1
    <3>3. [o EXCEPT !.orphan = o.orphan] = o
      BY Zenon DEF Task
    <3>. QED
      BY Zenon, <3>2, <3>3
  <2>5. \A o \in reloads[n] : [o EXCEPT !.orphan = @ \/ (t.kind = "config" /\ o.at # "read")] = o
    BY Zenon, <1>1, <2>2, <2>4
  <2>6. T = reloads[n] \ {t}
    <3>. DEFINE F(o) == [o EXCEPT !.orphan = @ \/ (t.kind = "config" /\ o.at # "read")]
    <3>1. T = {F(o) : o \in reloads[n] \ {t}} /\ \A o \in reloads[n] : F(o) = o
      BY Zenon, <2>5
    <3>. HIDE DEF F
    <3>. QED
      BY Zenon, <3>1
  <2>7. n \notin disturbed => OneReload(T)
    BY Zenon, <2>6 DEF AnnounceInv, NodeOK, OneReload
  <2>8. \A c : ReadsAll(reloads[n], c) => ReadsAll(T, c)
    BY Zenon, <2>6 DEF ReadsAll
  <2>9. \A k, c : ~Loads(t, k, c)
    BY Zenon, <2>2 DEF Loads
  <2>10. \A k, c : Loaded(reloads[n], core[n], k, c) => Loaded(T, StoredCore(n, t), k, c)
    BY Zenon, <2>3, <2>6, <2>9 DEF Loaded
  <2>. QED
    BY Zenon, <1>5, <2>7, <2>8, <2>10
<1>. QED
  BY Zenon, <1>8, <1>9

\* A task is done, and announced unless a peer asked for it.
LEMMA AnnounceStore ==
    ASSUME GossipInv, GossipInv', AnnounceInv, NEW n \in Nodes, NEW t \in reloads[n], StoreCore(n, t)
    PROVE  AnnounceInv'
<1>. DEFINE T == {[o EXCEPT !.orphan = @ \/ (t.kind = "config" /\ o.at # "read")] :
                    o \in reloads[n] \ {t}}
            kept == t.by = "peer" \/ t.orphan
            g == StoredGen(n, t)[t.kind]
            d == StoredCore(n, t) \cap settings
            c == IF t.kind = "config" THEN d ELSE d \cap ListChanges
            w == [gen |-> g, audience |-> Audience(n, t.kind, g), covers |-> c]
<1>1. t.at = "store" /\ UNCHANGED <<peers, settings, disturbed>>
  BY Zenon DEF StoreCore
<1>2. reloads' = [reloads EXCEPT ![n] = T] /\ core' = [core EXCEPT ![n] = StoredCore(n, t)]
  BY Zenon DEF StoreCore
<1>3. told' = [told EXCEPT ![n] = IF kept THEN told[n] ELSE [told[n] EXCEPT ![t.kind] = w]]
  BY Zenon DEF StoreCore, Told
<1>4. t.kind \in Kinds /\ g \in GenerationId
  <2>1. t \in Task
    BY Zenon DEF GossipInv, OthersOK
  <2>2. t.kind \in Kinds
    BY Zenon, <2>1 DEF Task
  <2>3. gen'[n] = StoredGen(n, t) /\ gen'[n] \in [Kinds -> GenerationId]
    BY Zenon DEF StoreCore, GossipInv, OthersOK
  <2>. QED
    BY Zenon, <2>2, <2>3
<1>5. c \subseteq settings /\ (t.kind = "lists" => c \subseteq ListChanges)
  BY Zenon, <1>4 DEF Kinds
<1>6. w.gen = g /\ w.audience = Audience(n, t.kind, g) /\ w.covers = c /\ w \in Announcement
  <2>. HIDE DEF g, c
  <2>1. Audience(n, t.kind, g) \subseteq Nodes
    BY Zenon DEF Audience
  <2>2. c \subseteq Changes
    BY Zenon, <1>5 DEF GossipInv, OthersOK
  <2>. QED
    BY Zenon, <1>4, <2>1, <2>2 DEF Announcement
<1>. HIDE DEF T, g, c, w, kept
<1>7. told \in [Nodes -> [Kinds -> Announcement]]
  BY Zenon DEF AnnounceInv, ToldOK
<1>8. told' \in [Nodes -> [Kinds -> Announcement]]
  BY Zenon, <1>3, <1>4, <1>6, <1>7
<1>9. ASSUME NEW m \in Nodes, NEW k \in Kinds
      PROVE  told'[m][k] = told[m][k] \/ (m = n /\ k = t.kind /\ told'[m][k] = w)
  BY Zenon, <1>3, <1>7
<1>10. ToldOK'
  <2>1. ASSUME NEW m \in Nodes, NEW k \in Kinds
        PROVE  told'[m][k].covers \subseteq settings /\ (k = "lists" => told'[m][k].covers \subseteq ListChanges)
    <3>1. CASE told'[m][k] = told[m][k]
      BY Zenon, <3>1 DEF AnnounceInv, ToldOK
    <3>2. CASE k = t.kind /\ told'[m][k] = w
      BY Zenon, <1>5, <1>6, <3>2
    <3>. QED
      BY Zenon, <1>9, <3>1, <3>2
  <2>. QED
    BY Zenon, <1>1, <1>8, <2>1 DEF ToldOK
<1>11. /\ TasksOK(T)
       /\ n \notin disturbed =>
            /\ OneReload(T)
            /\ \A k \in Kinds : \A e : 
                 /\ k = "lists" => e \subseteq ListChanges
                 /\ ReadsAll(reloads[n], e) /\ Loaded(reloads[n], core[n], k, e)
                 => ReadsAll(T, e) /\ Loaded(T, StoredCore(n, t), k, e)
  BY Zenon, <1>1, StoredTasks DEF T
<1>12. /\ reloads'[n] = T /\ core'[n] = StoredCore(n, t)
       /\ \A a \in Nodes : a # n => reloads'[a] = reloads[a] /\ core'[a] = core[a]
  BY Zenon, <1>2 DEF GossipInv, OthersOK
<1>13. ASSUME NEW a \in Nodes PROVE NodeOK(a)'
  <2>1. CASE a = n
    BY Zenon, <1>1, <1>11, <1>12, <2>1 DEF NodeOK
  <2>2. CASE a # n
    BY Zenon, <1>1, <1>12, <2>2 DEF AnnounceInv, NodeOK
  <2>. QED
    BY Zenon, <2>1, <2>2
<1>14. ASSUME NEW a \in Nodes, NEW m \in Nodes, NEW k \in Kinds, told'[m][k] = told[m][k], a \in told[m][k].audience
       PROVE  Heeds(peers[a], reloads'[a], core'[a], a \notin disturbed, m, k, told[m][k])
  <2>1. Heeds(peers[a], reloads[a], core[a], a \notin disturbed, m, k, told[m][k])
    BY Zenon, <1>14 DEF AnnounceInv, HeedsAll
  <2>2. PICK e : e = told[m][k].covers /\ (k = "lists" => e \subseteq ListChanges)
    BY Zenon DEF AnnounceInv, ToldOK
  <2>3. CASE a = n
    BY Zenon, <1>11, <1>12, <2>1, <2>2, <2>3 DEF Heeds
  <2>4. CASE a # n
    BY Zenon, <1>12, <2>1, <2>4
  <2>. QED
    BY Zenon, <2>3, <2>4
<1>15. ASSUME NEW a \in Audience(n, t.kind, g)
       PROVE  Heeds(peers[a], reloads'[a], core'[a], a \notin disturbed, n, t.kind, w)
  <2>1. Hears(peers[a], n) /\ ~HearsWith(peers[a], n, t.kind, g)
    BY Zenon, <1>4, AudienceUnaware
  <2>. QED
    BY Zenon, <1>6, <2>1 DEF Heeds
<1>16. ASSUME NEW a \in Nodes PROVE HeedsAll(a)'
  <2>. SUFFICES ASSUME NEW m \in Nodes, NEW k \in Kinds, a \in told'[m][k].audience
                PROVE  Heeds(peers[a], reloads'[a], core'[a], a \notin disturbed, m, k, told'[m][k])
    BY Zenon, <1>1 DEF HeedsAll
  <2>1. CASE told'[m][k] = told[m][k]
    BY Zenon, <1>14, <2>1
  <2>2. CASE m = n /\ k = t.kind /\ told'[m][k] = w
    BY Zenon, <1>6, <1>15, <2>2
  <2>. QED
    BY Zenon, <1>9, <2>1, <2>2
<1>. QED
  BY Zenon, <1>10, <1>13, <1>16 DEF AnnounceInv

\* A node that stops is no longer bound to notice anything.
LEMMA AnnounceStop ==
    ASSUME GossipInv, AnnounceInv, NEW n \in Nodes, Stop(n)
    PROVE  AnnounceInv'
<1>1. UNCHANGED <<settings, core, disturbed>>
  BY Zenon DEF Stop
<1>2. \A a \in Nodes : a # n => peers'[a] = peers[a] /\ reloads'[a] = reloads[a]
  BY Zenon DEF Stop, GossipInv, OthersOK, ListsOK
<1>3. reloads'[n] = {}
  BY Zenon DEF Stop, GossipInv, OthersOK
<1>4. told \in [Nodes -> [Kinds -> Announcement]]
  BY Zenon DEF AnnounceInv, ToldOK
<1>5. told' = [m \in Nodes |-> [k \in Kinds |-> [told[m][k] EXCEPT !.audience = @ \ {n}]]]
  BY Zenon DEF Stop
<1>6. ASSUME NEW x \in Announcement, NEW y, y = [x EXCEPT !.audience = @ \ {n}]
      PROVE  /\ y \in Announcement /\ y.gen = x.gen /\ y.covers = x.covers
             /\ y.audience = x.audience \ {n}
  BY Zenon, <1>6 DEF Announcement
<1>7. ASSUME NEW m \in Nodes, NEW k \in Kinds
      PROVE  /\ told'[m][k] \in Announcement
             /\ told'[m][k].gen = told[m][k].gen /\ told'[m][k].covers = told[m][k].covers
             /\ told'[m][k].audience = told[m][k].audience \ {n}
  <2>1. PICK x \in Announcement : x = told[m][k]
    BY Zenon, <1>4
  <2>2. PICK y : y = told'[m][k]
    BY Zenon
  <2>3. y = [x EXCEPT !.audience = @ \ {n}]
    BY Zenon, <1>5, <2>1, <2>2
  <2>. QED
    BY SMTT(30), <1>6, <2>1, <2>2, <2>3
<1>8. told' \in [Nodes -> [Kinds -> Announcement]]
  <2>1. \A m \in Nodes : told'[m] \in [Kinds -> Announcement]
    BY Zenon, <1>5, <1>7
  <2>. QED
    BY Zenon, <1>5, <2>1
<1>9. ToldOK'
  BY ZenonT(40), <1>1, <1>7, <1>8 DEF AnnounceInv, ToldOK
<1>10. ASSUME NEW a \in Nodes PROVE NodeOK(a)'
  BY Zenon, <1>1, <1>2, <1>3 DEF AnnounceInv, NodeOK, TasksOK, OneReload
<1>11. ASSUME NEW a \in Nodes, NEW m \in Nodes, NEW k \in Kinds, a \in told'[m][k].audience
       PROVE  Heeds(peers'[a], reloads'[a], core'[a], a \notin disturbed', m, k, told'[m][k])
  <2>0. told'[m][k].audience = told[m][k].audience \ {n}
    BY Zenon, <1>7
  <2>1. a # n /\ a \in told[m][k].audience
    BY Zenon, <1>11, <2>0
  <2>2. Heeds(peers[a], reloads[a], core[a], a \notin disturbed, m, k, told[m][k])
    BY Zenon, <2>1 DEF AnnounceInv, HeedsAll
  <2>. QED
    BY Zenon, <1>1, <1>2, <1>7, <2>1, <2>2 DEF Heeds
<1>12. ASSUME NEW a \in Nodes PROVE HeedsAll(a)'
  BY Zenon, <1>11 DEF HeedsAll
<1>. QED
  BY Zenon, <1>9, <1>10, <1>12 DEF AnnounceInv

LEMMA AnnounceNext == GossipInv /\ GossipInv' /\ AnnounceInv /\ [Next]_vars => AnnounceInv'
<1>. SUFFICES ASSUME GossipInv, GossipInv', AnnounceInv, [Next]_vars PROVE AnnounceInv'
  OBVIOUS
<1>1. ASSUME UNCHANGED <<peers, reloads, core, told, disturbed>>, settings \subseteq settings'
      PROVE  AnnounceInv'
  <2>1. \A a \in Nodes : Same(a)
    BY Zenon, <1>1 DEF Same
  <2>. QED
    BY Zenon, <1>1, <2>1, AnnounceKept
<1>2. CASE UNCHANGED vars
  BY Zenon, <1>1, <1>2 DEF vars
<1>3. ASSUME NEW p \in net, Receive(p) PROVE AnnounceInv'
  <2>1. p.to \in Nodes
    BY Zenon, <1>3 DEF GossipInv, PacketsOK, PacketOK
  <2>. QED
    BY Zenon, <1>3, <2>1, AnnounceHandle, AnnounceLeave DEF Receive
<1>4. ASSUME NEW p \in net, Lose(p) PROVE AnnounceInv'
  BY Zenon, <1>1, <1>4 DEF Lose
<1>5. ASSUME NEW c \in Changes, ChangeSettings(c) PROVE AnnounceInv'
  BY Zenon, <1>1, <1>5 DEF ChangeSettings
<1>. QED
  BY Zenon, <1>2, <1>3, <1>4, <1>5, AnnouncePing, AnnounceStop, AnnounceStart, AnnounceManage,
     AnnounceBan, AnnounceWrite, AnnounceRead, AnnounceStore, AnnounceFails DEF Next

\* An announced change of the settings is loaded by every node that learns the generation it was
\* announced with, if it had counted heartbeats of the announcer: handle_ping records the new
\* generation and asks for the reload in one go, and the reload reads the settings afterwards.
THEOREM AnnouncementsAreLoaded == Spec => []AnnouncedIsLoaded
<1>1. ASSUME AnnounceInv PROVE AnnouncedIsLoaded
  <2>. SUFFICES ASSUME NEW n \in Nodes, NEW k \in Kinds, NEW a \in told[n][k].audience \ disturbed,
                       NEW i \in DOMAIN peers[a], peers[a][i].addr = n, peers[a][i].heard,
                       peers[a][i].gen[k] = told[n][k].gen,
                       \A t \in reloads[a] : ~IsReload(t)
                PROVE  told[n][k].covers \subseteq core[a]
    BY Zenon DEF AnnouncedIsLoaded
  <2>1. a \in Nodes
    <3>1. told[n][k] \in Announcement
      BY Zenon, <1>1 DEF AnnounceInv, ToldOK
    <3>. QED
      BY Zenon, <3>1 DEF Announcement
  <2>2. Heeds(peers[a], reloads[a], core[a], a \notin disturbed, n, k, told[n][k])
    BY Zenon, <1>1, <2>1 DEF AnnounceInv, HeedsAll
  <2>3. HearsWith(peers[a], n, k, told[n][k].gen)
    BY Zenon DEF HearsWith
  <2>4. Loaded(reloads[a], core[a], k, told[n][k].covers)
    BY Zenon, <2>2, <2>3 DEF Heeds
  <2>5. \A t \in reloads[a] : t.by # "peer"
    BY DEF IsReload
  <2>. QED
    BY Zenon, <2>4, <2>5 DEF Loaded, Loads
<1>. QED
  BY <1>1, AnnounceInit, AnnounceNext, GossipInductive, PTL DEF Spec
=============================================================================
