------------------------------- MODULE Gossip -------------------------------
(***************************************************************************)
(* The gossip service of crates/jmap/src/services/gossip: how the nodes of *)
(* a cluster find each other from their seed nodes, tell a peer that is    *)
(* gone from one that is slow, and pass on that the settings have changed. *)
(*                                                                         *)
(* A packet carries the status of its sender (first) and of every peer the *)
(* sender knows; UDP may lose, reorder and duplicate it.  The accrual      *)
(* failure detector is a nondeterministic verdict on a peer that has been  *)
(* heard (hb_sum > 0): its arithmetic on arrival times is left out.        *)
(*                                                                         *)
(* The settings are a set of changes.  A node runs with the changes its    *)
(* core was built from; its two generation counters (config_version, and   *)
(* blocked_ips.version of the core) tell the peers to reload.  Reloading   *)
(* queues after a peer is gone (request_reload) only sends an event to the *)
(* queue and the housekeeper, modelled in QueueManager and IndexQueue.     *)
(***************************************************************************)
EXTENDS Naturals, Sequences, FiniteSets, FiniteSetsExt

CONSTANTS
    Nodes,          \* the advertised addresses
    Seeds,          \* cluster.seed-nodes of every node, as parsed
    Changes,        \* changes an administrator or fail2ban makes to the settings
    ListChanges,    \* those of them that concern server.blocked-ip
    Managed,        \* the nodes that are asked to reload, and that ban addresses
    MaxPackets,     \* bound: packets in flight
    MaxRequests,    \* bound: reloads an administrator asks for, and bans
    MaxFaults,      \* bound: doubts, repeated packets, failed tasks and stops
    MaxSteps        \* bound: pings, packets handled and faults together

ASSUME GossipAssumption ==
    /\ ListChanges \subseteq Changes
    /\ Managed \subseteq Nodes
    /\ Seeds \in [Nodes -> Seq(Nodes)]
    /\ \A n \in Nodes : \A i \in DOMAIN Seeds[n] : Seeds[n][i] # n

VARIABLES
    up,             \* the nodes that run
    epoch,          \* Gossiper::epoch
    peers,          \* Gossiper::peers, in the order of the Vec
    last_pinged,    \* Gossiper::last_peer_pinged, counted from 0
    gen,            \* the generation counters of each node
    settings,       \* the changes in the settings store
    core,           \* the changes each node's core was built from
    reloads,        \* the reload tasks and requests under way on each node
    net,            \* the packets in flight
    requests,       \* counts the reloads asked for and the bans
    faults,         \* counts peers doubted, packets repeated, tasks failed, stops
    steps,          \* counts pings, packets handled and faults
    stopped,        \* the nodes that have stopped, running again or not
    told,           \* what the last announcement of each node covers, for whom
    disturbed       \* nodes on which a reload failed or two of them overlapped

vars == <<up, epoch, peers, last_pinged, gen, settings, core, reloads, net,
          requests, faults, steps, stopped, told, disturbed>>

-----------------------------------------------------------------------------
(* Peers and packets *)

Kinds == {"config", "lists"}
GenerationId == 0..255
NeverPinged == 1000     \* stands for u32::MAX, the initial last_peer_pinged

PeerStatus == [addr : Nodes, epoch : Nat, gen : [Kinds -> GenerationId]]
Peer == [addr : Nodes, epoch : Nat, gen : [Kinds -> GenerationId],
         state : {"Seed", "Alive", "Suspected", "Offline", "Left"},
         heard : BOOLEAN]

\* A configured seed node.
NewSeed(a) == [addr |-> a, epoch |-> 0, gen |-> [k \in Kinds |-> 0],
               state |-> "Seed", heard |-> FALSE]

\* A peer first met in somebody's packet: alive, no heartbeat counted yet.
Discovered(s) == [addr |-> s.addr, epoch |-> s.epoch, gen |-> s.gen,
                  state |-> "Alive", heard |-> FALSE]

IsOffline(p) == p.state \in {"Offline", "Left"}

\* Mutant: the whole entry goes over the wire, not its status.
StatusOfPeerWhole(p) == p

StatusOfPeer(p) == [addr |-> p.addr, epoch |-> p.epoch, gen |-> p.gen]

StatusOfNode(n, e) == [addr |-> n, epoch |-> e, gen |-> gen[n]]

\* build_peer_status: the node itself first, then every peer it lists.
BuildPeerStatus(n, e, ps) ==
    <<StatusOfNode(n, e)>> \o [i \in DOMAIN ps |-> StatusOfPeer(ps[i])]

Packet(to, kind, list) == [to |-> to, kind |-> kind, list |-> list]

\* Sending over UDP: as many packets of "out" are in flight as there is room.
Sent(sofar, out) ==
    IF Cardinality(sofar \cup out) <= MaxPackets THEN {sofar \cup out}
    ELSE {sofar \cup s : s \in {r \in SUBSET out : Cardinality(sofar \cup r) = MaxPackets}}

\* f faults and s pings or packets handled, within the bounds.
Steps(f, s) ==
    /\ faults + f <= MaxFaults
    /\ steps + f + s <= MaxSteps
    /\ faults' = faults + f
    /\ steps' = steps + f + s

-----------------------------------------------------------------------------
(* Heartbeats *)

\* A heartbeat of a peer: stale ones only bring it back, others count.  A
\* heartbeat within the same millisecond as the last adds nothing to hb_sum.
UpdateHeartbeat(p, direct, counts) ==
    IF p.state \in {"Seed", "Offline"} \/ (p.state = "Left" /\ direct)
    THEN [p EXCEPT !.state = "Alive"]
    ELSE [p EXCEPT !.state = IF @ = "Suspected" THEN "Alive" ELSE @,
                   !.heard = @ \/ counts]

\* The failure detector's verdict on a peer, when it has heard it at all.
CheckHeartbeat(p, verdict) ==
    IF ~p.heard \/ verdict = "fine" THEN p
    ELSE [p EXCEPT !.state = IF verdict = "convict" THEN "Offline" ELSE "Suspected"]

-----------------------------------------------------------------------------
(* Pinging *)

Checked(ps, verdict) ==
    [i \in DOMAIN ps |-> IF i \in DOMAIN verdict THEN CheckHeartbeat(ps[i], verdict[i])
                                                 ELSE ps[i]]

\* last_peer_pinged starts at u32::MAX: the remainder 2^32 - 1 leaves.
LastPinged(n, total) ==
    IF last_pinged[n] = NeverPinged
    THEN ((65536 % total) * (65536 % total) + total - 1) % total
    ELSE last_pinged[n]

\* The place k steps on from the peer pinged last, counted from 0.
PlaceAfter(n, k, total) == (LastPinged(n, total) + k) % total

\* Offline peers are probed when nobody is left alive; peers that left never.
Pingable(p, alive) ==
    p.state \in {"Seed", "Alive", "Suspected"} \/ (p.state = "Offline" /\ alive = 0)

\* ping_peers: judge every peer that is not offline, then ping the next one
\* in turn.  A seed learns about this node only.
PingPeers(n) ==
    LET judged == {i \in DOMAIN peers[n] : ~IsOffline(peers[n][i]) /\ peers[n][i].heard}
        total  == Len(peers[n])
    IN
    /\ n \in up
    /\ total > 0
    /\ \E verdict \in [judged -> {"fine", "suspect", "convict"}] :
         LET ps      == Checked(peers[n], verdict)
             alive   == Cardinality({i \in judged : verdict[i] # "convict"})
             due     == {k \in 1..total : Pingable(ps[PlaceAfter(n, k, total) + 1], alive)}
             turn    == IF due = {} THEN total ELSE Min(due)
             target  == ps[PlaceAfter(n, turn, total) + 1]
             e       == IF due # {} /\ target.state \in {"Alive", "Suspected"}
                        THEN epoch[n] + 1 ELSE epoch[n]
             list    == IF target.state = "Seed" THEN <<StatusOfNode(n, e)>>
                                                 ELSE BuildPeerStatus(n, e, ps)
         IN
         /\ Steps(Cardinality({i \in judged : verdict[i] # "fine"}), 1)
         /\ peers' = [peers EXCEPT ![n] = ps]
         /\ last_pinged' = [last_pinged EXCEPT ![n] = PlaceAfter(n, turn, total)]
         /\ epoch' = [epoch EXCEPT ![n] = e]
         /\ net' \in IF due = {} THEN {net} ELSE Sent(net, {Packet(target.addr, "Ping", list)})
    /\ UNCHANGED <<up, gen, settings, core, reloads, requests, stopped, told, disturbed>>

-----------------------------------------------------------------------------
(* Receiving *)

\* Mutant: only peers that are not offline are looked up.
EntriesHealthy(ps, addr) == {i \in DOMAIN ps : ~IsOffline(ps[i]) /\ ps[i].addr = addr}

\* The entries of an address in a list, seeds left aside.
Entries(ps, addr) == {i \in DOMAIN ps : ps[i].state # "Seed" /\ ps[i].addr = addr}

\* Mutant: an epoch is counted instead of taken from the status.
UpdatedCounting(p, status, direct, counts) ==
    [UpdateHeartbeat(p, direct, counts) EXCEPT !.epoch = @ + 1, !.gen = status.gen]

\* An entry after a status of its address was taken over.
Updated(p, status, direct, counts) ==
    [UpdateHeartbeat(p, direct, counts) EXCEPT !.epoch = status.epoch, !.gen = status.gen]

\* Mutant: generations are only compared in what a peer says of itself.
NoticedDirect(p, status, direct, counts) ==
    {k \in Kinds : /\ direct
                   /\ UpdateHeartbeat(p, direct, counts).heard
                   /\ p.gen[k] # status.gen[k]}

\* The kinds of generation that moved, on a peer that was heard.
Noticed(p, status, direct, counts) ==
    {k \in Kinds : UpdateHeartbeat(p, direct, counts).heard /\ p.gen[k] # status.gen[k]}

\* What one status of a packet does: acc.peers is the list so far, acc.changed
\* the kinds noticed, acc.met says that a seed was passed on the way to the
\* entry of that address.
Merge(n, acc, status, direct, counts) ==
    LET same  == Entries(acc.peers, status.addr)
        at    == IF same = {} THEN Len(acc.peers) + 1 ELSE Min(same)
        local == acc.peers[at]
        met   == acc.met \/ \E i \in 1..(at - 1) : acc.peers[i].state = "Seed"
    IN
    CASE status.addr = n -> acc
      [] status.addr # n /\ same = {} ->
           [acc EXCEPT !.peers = Append(@, Discovered(status)), !.met = met]
      [] status.addr # n /\ same # {} /\ (status.epoch > local.epoch \/ direct) ->
           [peers   |-> [acc.peers EXCEPT ![at] = Updated(@, status, direct, counts)],
            changed |-> acc.changed \cup Noticed(local, status, direct, counts),
            met     |-> met]
      [] OTHER -> [acc EXCEPT !.met = met]

\* The statuses of a packet applied in turn; the first is the sender's own.
MergeUpto(n, list, counts) ==
    LET Upto[i \in 0..Len(list)] ==
            IF i = 0 THEN [peers |-> peers[n], changed |-> {}, met |-> FALSE]
                     ELSE Merge(n, Upto[i - 1], list[i], i = 1, counts)
    IN  Upto

MergeAll(n, list, counts) == MergeUpto(n, list, counts)[Len(list)]

\* The k-th smallest of a set of places.
Nth(S, k) == CHOOSE i \in S : Cardinality({j \in S : j <= i}) = k

NonSeeds(ps) == {i \in DOMAIN ps : ps[i].state # "Seed"}

\* Once a seed was passed all of them are dropped.
WithoutSeeds(merged) ==
    LET ps == merged.peers
    IN  IF merged.met
        THEN [k \in 1..Cardinality(NonSeeds(ps)) |-> ps[Nth(NonSeeds(ps), k)]]
        ELSE ps

\* A reload a peer's new generation asks for: of everything when its
\* configuration changed, of the blocked addresses otherwise.
ReloadAsked(changed) ==
    IF changed = {} THEN {}
    ELSE {[by |-> "peer", kind |-> IF "config" \in changed THEN "config" ELSE "lists",
           at |-> "read", got |-> {}, orphan |-> FALSE]}

IsReload(t) == t.by # "ban"

\* Two reloads on one node are a disturbance: the older may be stored last.
Overlap(n, new) ==
    IF new # {} /\ \E t \in reloads[n] : IsReload(t) THEN {n} ELSE {}

\* handle_ping on a Ping or a Pong; a Ping is answered to the first peer.
HandlePing(n, p) ==
    /\ \E counts \in BOOLEAN, kept \in SUBSET {p} :
         LET merged == MergeAll(n, p.list, counts)
             ps     == WithoutSeeds(merged)
             e      == epoch[n] + 1
             pong   == IF p.kind = "Ping" /\ ps # <<>>
                       THEN {Packet(ps[1].addr, "Pong", BuildPeerStatus(n, e, ps))} ELSE {}
             new    == ReloadAsked(merged.changed)
         IN
         /\ Steps(Cardinality(kept), 1)
         /\ epoch' = [epoch EXCEPT ![n] = e]
         /\ peers' = [peers EXCEPT ![n] = ps]
         /\ net' \in Sent((net \ {p}) \cup kept, pong)
         /\ reloads' = [reloads EXCEPT ![n] = @ \cup new]
         /\ disturbed' = disturbed \cup Overlap(n, new)
    /\ UNCHANGED <<up, last_pinged, gen, settings, core, requests, stopped, told>>

\* handle_leave: the first entry of that address is marked, a seed included.
HandleLeave(n, p) ==
    LET from == p.list[1]
        same == {i \in DOMAIN peers[n] : peers[n][i].addr = from.addr}
    IN
    /\ peers' = IF same = {} THEN peers
                ELSE [peers EXCEPT ![n][Min(same)] =
                        [@ EXCEPT !.state = "Left", !.epoch = from.epoch]]
    /\ \E kept \in SUBSET {p} : Steps(Cardinality(kept), 0) /\ net' = (net \ {p}) \cup kept
    /\ UNCHANGED <<up, epoch, last_pinged, gen, settings, core, reloads, requests, stopped,
                   told, disturbed>>

Receive(p) ==
    /\ p.to \in up
    /\ \/ p.kind \in {"Ping", "Pong"} /\ HandlePing(p.to, p)
       \/ p.kind = "Leave" /\ HandleLeave(p.to, p)

\* UDP drops a packet, or its addressee is not running.
Lose(p) ==
    /\ net' = net \ {p}
    /\ UNCHANGED <<up, epoch, peers, last_pinged, gen, settings, core, reloads,
                   requests, faults, steps, stopped, told, disturbed>>

-----------------------------------------------------------------------------
(* Settings *)

\* A change is written to the settings store: nobody reloads yet.
ChangeSettings(c) ==
    /\ c \notin settings
    /\ settings' = settings \cup {c}
    /\ UNCHANGED <<up, epoch, peers, last_pinged, gen, core, reloads, net, requests, faults, steps, stopped,
                   told, disturbed>>

Started(n, t) ==
    /\ n \in up \cap Managed
    /\ requests < MaxRequests
    /\ requests' = requests + 1
    /\ reloads' = [reloads EXCEPT ![n] = @ \cup {t}]
    /\ disturbed' = disturbed \cup IF IsReload(t) THEN Overlap(n, {t}) ELSE {}

\* An administrator asks a node to reload everything or the blocked addresses:
\* the settings are read before the answer is stored.
ManageReload(n, kind) ==
    /\ Started(n, [by |-> "admin", kind |-> kind, at |-> "store", got |-> settings,
                   orphan |-> FALSE])
    /\ UNCHANGED <<up, epoch, peers, last_pinged, gen, settings, core, net, faults, steps, stopped, told>>

\* fail2ban blocks an address: first in memory ...
Fail2Ban(n, c) ==
    /\ c \in ListChanges \ (settings \cup core[n])
    /\ Started(n, [by |-> "ban", kind |-> "lists", at |-> "write", got |-> {c},
                   orphan |-> FALSE])
    /\ core' = [core EXCEPT ![n] = @ \cup {c}]
    /\ UNCHANGED <<up, epoch, peers, last_pinged, gen, settings, net, faults, steps, stopped, told>>

Moved(n, t, next) == reloads' = [reloads EXCEPT ![n] = (@ \ {t}) \cup {next}]

\* ... then in the settings store ...
WriteBan(n, t) ==
    /\ t.at = "write"
    /\ settings' = settings \cup t.got
    /\ Moved(n, t, [t EXCEPT !.at = "store"])
    /\ UNCHANGED <<up, epoch, peers, last_pinged, gen, core, net, requests, faults, steps, stopped, told, disturbed>>

\* A reload a peer asked for loads the core and reads the settings.
ReadSettings(n, t) ==
    /\ t.at = "read"
    /\ Moved(n, t, [t EXCEPT !.at = "store", !.got = settings])
    /\ UNCHANGED <<up, epoch, peers, last_pinged, gen, settings, core, net, requests, faults, steps, stopped,
                   told, disturbed>>

\* The core after a task is done: a reload of everything replaces it, a reload
\* of the blocked addresses and a ban touch the core they started from.
StoredCore(n, t) ==
    IF t.kind = "config" THEN t.got
    ELSE IF t.by = "ban" \/ t.orphan THEN core[n]
    ELSE (core[n] \ ListChanges) \cup (t.got \cap ListChanges)

\* The counters after it: a new core starts its lists at generation 0, and
\* only what an administrator or fail2ban did is announced.
StoredGen(n, t) ==
    LET kept == IF t.kind = "config" THEN [gen[n] EXCEPT !["lists"] = 0] ELSE gen[n]
    IN  IF t.by = "peer" \/ t.orphan THEN kept
        ELSE [kept EXCEPT ![t.kind] = (@ + 1) % 256]

\* Who is bound to notice generation g of n: the nodes that have counted
\* heartbeats of n and know it with another generation.
Audience(n, k, g) ==
    {a \in Nodes : \E i \in DOMAIN peers[a] : /\ peers[a][i].addr = n
                                              /\ peers[a][i].heard
                                              /\ peers[a][i].gen[k] # g}

Told(n, t) ==
    LET g == StoredGen(n, t)[t.kind]
        c == StoredCore(n, t) \cap settings
    IN  IF t.by = "peer" \/ t.orphan THEN told[n]
        ELSE [told[n] EXCEPT ![t.kind] =
                [gen |-> g, audience |-> Audience(n, t.kind, g),
                 covers |-> IF t.kind = "config" THEN c ELSE c \cap ListChanges]]

\* A task is done: the other tasks of the node now work on a core that a
\* reload of everything has replaced.
StoreCore(n, t) ==
    /\ t.at = "store"
    /\ core' = [core EXCEPT ![n] = StoredCore(n, t)]
    /\ gen' = [gen EXCEPT ![n] = StoredGen(n, t)]
    /\ told' = [told EXCEPT ![n] = Told(n, t)]
    /\ reloads' = [reloads EXCEPT ![n] =
                     {[o EXCEPT !.orphan = @ \/ (t.kind = "config" /\ o.at # "read")] :
                         o \in reloads[n] \ {t}}]
    /\ UNCHANGED <<up, epoch, peers, last_pinged, settings, net, requests, faults, steps, stopped, disturbed>>

\* The settings cannot be read, written or parsed.
TaskFails(n, t) ==
    /\ Steps(1, 0)
    /\ reloads' = [reloads EXCEPT ![n] = @ \ {t}]
    /\ disturbed' = disturbed \cup IF t.by = "peer" THEN {n} ELSE {}
    /\ UNCHANGED <<up, epoch, peers, last_pinged, gen, settings, core, net, requests, stopped, told>>

-----------------------------------------------------------------------------
(* Nodes that stop and start *)

SeedPeers(n) == [i \in DOMAIN Seeds[n] |-> NewSeed(Seeds[n][i])]

NothingTold == [k \in Kinds |-> [gen |-> 0, audience |-> {}, covers |-> {}]]

\* A node stops, by a crash or with broadcast_leave; its memory is gone.
Stop(n) ==
    LET farewell == {Packet(peers[n][i].addr, "Leave", <<StatusOfNode(n, epoch[n])>>) :
                        i \in {j \in DOMAIN peers[n] : ~IsOffline(peers[n][j])}}
    IN
    /\ n \in up
    /\ Steps(1, 0)
    /\ up' = up \ {n}
    /\ stopped' = stopped \cup {n}
    /\ \E leave \in BOOLEAN : net' \in Sent(net, IF leave THEN farewell ELSE {})
    /\ epoch' = [epoch EXCEPT ![n] = 0]
    /\ peers' = [peers EXCEPT ![n] = SeedPeers(n)]
    /\ last_pinged' = [last_pinged EXCEPT ![n] = NeverPinged]
    /\ gen' = [gen EXCEPT ![n] = [k \in Kinds |-> 0]]
    /\ reloads' = [reloads EXCEPT ![n] = {}]
    /\ told' = [m \in Nodes |-> [k \in Kinds |-> [told[m][k] EXCEPT !.audience = @ \ {n}]]]
    /\ UNCHANGED <<settings, core, requests, disturbed>>

Start(n) ==
    /\ n \notin up
    /\ up' = up \cup {n}
    /\ core' = [core EXCEPT ![n] = settings]
    /\ UNCHANGED <<epoch, peers, last_pinged, gen, settings, reloads, net, requests, faults, steps, stopped,
                   told, disturbed>>

Init ==
    /\ up = Nodes
    /\ epoch = [n \in Nodes |-> 0]
    /\ peers = [n \in Nodes |-> SeedPeers(n)]
    /\ last_pinged = [n \in Nodes |-> NeverPinged]
    /\ gen = [n \in Nodes |-> [k \in Kinds |-> 0]]
    /\ settings = {}
    /\ core = [n \in Nodes |-> {}]
    /\ reloads = [n \in Nodes |-> {}]
    /\ net = {}
    /\ requests = 0
    /\ faults = 0
    /\ steps = 0
    /\ stopped = {}
    /\ told = [n \in Nodes |-> NothingTold]
    /\ disturbed = {}

Next ==
    \/ \E p \in net : Receive(p) \/ Lose(p)
    \/ \E c \in Changes : ChangeSettings(c)
    \/ \E n \in Nodes :
         \/ PingPeers(n) \/ Stop(n) \/ Start(n)
         \/ \E k \in Kinds : ManageReload(n, k)
         \/ \E c \in ListChanges : Fail2Ban(n, c)
         \/ \E t \in reloads[n] :
              WriteBan(n, t) \/ ReadSettings(n, t) \/ StoreCore(n, t) \/ TaskFails(n, t)

Spec == Init /\ [][Next]_vars

-----------------------------------------------------------------------------
(* Properties *)

Task == [by : {"peer", "admin", "ban"}, kind : Kinds, at : {"read", "write", "store"},
         got : SUBSET Changes, orphan : BOOLEAN]

TypeOK ==
    /\ up \subseteq Nodes
    /\ epoch \in [Nodes -> Nat]
    /\ peers \in [Nodes -> Seq(Peer)]
    /\ last_pinged \in [Nodes -> Nat]
    /\ gen \in [Nodes -> [Kinds -> GenerationId]]
    /\ settings \subseteq Changes
    /\ core \in [Nodes -> SUBSET Changes]
    /\ \A n \in Nodes : reloads[n] \subseteq Task
    /\ \A p \in net : /\ p.to \in Nodes /\ p.kind \in {"Ping", "Pong", "Leave"}
                      /\ p.list \in Seq(PeerStatus) /\ p.list # <<>>
    /\ requests \in Nat
    /\ faults \in Nat
    /\ steps \in Nat
    /\ stopped \subseteq Nodes
    /\ disturbed \subseteq Nodes

\* A node never lists itself, and lists no address twice once it is more than
\* a seed: ping_peers counts and pings the entries of the list, handle_ping
\* updates the first that matches.
ListsNoPeerTwice ==
    \A n \in Nodes : \A i, j \in DOMAIN peers[n] :
        /\ peers[n][i].addr # n
        /\ (/\ peers[n][i].addr = peers[n][j].addr
            /\ peers[n][i].state # "Seed"
            /\ peers[n][j].state # "Seed") => i = j

\* Nobody is ahead of a node about itself: whatever is lost, repeated, held up
\* or passed on by others, no entry and no packet gives a node that never
\* stopped a later epoch than its own.  It is what lets handle_ping take an
\* indirect status with a later epoch for a sign of life: a node that is gone
\* runs out of them.
NeverAhead ==
    \A n \in Nodes \ stopped :
        /\ \A m \in Nodes : \A i \in DOMAIN peers[m] :
              peers[m][i].addr = n => peers[m][i].epoch <= epoch[n]
        /\ \A p \in net : \A i \in DOMAIN p.list :
              p.list[i].addr = n => p.list[i].epoch <= epoch[n]

\* A change that a node announces is loaded by everybody who hears of it: a
\* node that had counted heartbeats of the announcer, and now knows it with
\* the generation announced, runs with the changes announced as soon as no
\* reload of it is under way, whoever told it and in whatever order, unless
\* one of its reloads failed or two of them overlapped.
AnnouncedIsLoaded ==
    \A n \in Nodes, k \in Kinds :
        \A a \in told[n][k].audience \ disturbed :
            (/\ \E i \in DOMAIN peers[a] : /\ peers[a][i].addr = n
                                           /\ peers[a][i].heard
                                           /\ peers[a][i].gen[k] = told[n][k].gen
             /\ \A t \in reloads[a] : ~IsReload(t))
            => told[n][k].covers \subseteq core[a]
=============================================================================
