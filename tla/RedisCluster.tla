---------------------------- MODULE RedisCluster ----------------------------
(***************************************************************************)
(* Redis Cluster (src/cluster.c of the bundled Redis 3.0): every node has  *)
(* its own table of who serves which slot, under which configuration       *)
(* epoch. A slave is elected by the masters, or takes over on command, and *)
(* the tables follow through the headers of the packets.                   *)
(*                                                                         *)
(* The set of nodes is fixed and they know each other. There is no clock:  *)
(* a master may be flagged FAIL at any time, and a timeout may be over at  *)
(* any time. A PING or PONG, and the UPDATE it may cause, is handled when  *)
(* it is sent or never; requests for votes and votes are handled later, or *)
(* never. What a handler marks with CLUSTER_TODO_SAVE_CONFIG is on disk    *)
(* before its replies leave, so one action does both. No slot is being     *)
(* imported, and CLUSTER SETSLOT is not used.                              *)
(***************************************************************************)
EXTENDS Integers, FiniteSets, Functions, FiniteSetsExt

CONSTANTS
    Node, Slot,
    None,           \* NULL
    Rank,           \* node IDs are compared byte by byte: their order
    FirstMaster,    \* whom each node replicates at first; None: a master
    FirstOwner,     \* who serves each slot at first
    FirstEpoch,     \* the configuration epochs of the masters
    MaxEpoch,       \* bound: no election beyond this epoch
    MaxFaults       \* bound: restarts, and promotions by TAKEOVER or by an
                    \* election already won, all together

MasterNodes == {n \in Node : FirstMaster[n] = None}

ASSUME ClusterAssumption ==
    /\ IsFiniteSet(Node) /\ IsFiniteSet(Slot) /\ None \notin Node
    /\ Rank \in [Node -> Nat] /\ IsInjective(Rank)
    /\ FirstMaster \in [Node -> MasterNodes \cup {None}]
    /\ FirstOwner \in [Slot -> MasterNodes]
    /\ FirstEpoch \in [MasterNodes -> Nat]
    /\ {MaxEpoch, MaxFaults} \subseteq Nat

VARIABLES
    view,       \* the configuration as each node has it in memory
    disk,       \* nodes.conf of each node
    election,   \* the election each node holds as a slave
    net,        \* requests for votes, and votes, on their way
    restarts, takeovers,    \* counted for the bounds
    votes,      \* ghost: votes given, <<voter, epoch, slave>>
    wins        \* ghost: elections won, <<slave, epoch>>

ghosts == <<restarts, takeovers, votes, wins>>
vars == <<view, disk, election, net, ghosts>>

Epoch == Nat

View == [owner : [Slot -> Node \cup {None}], epoch : [Node -> Epoch],
         master : [Node -> Node \cup {None}],
         current : Epoch, lastVote : Epoch]

Election == [epoch : Epoch, sent : BOOLEAN, count : Nat]
\* Mutant: the count starts below zero.
NoElectionBelow == [epoch |-> 0, sent |-> FALSE, count |-> -1]

NoElection == [epoch |-> 0, sent |-> FALSE, count |-> 0]

Message == [type : {"request", "ack"}, from : Node, to : Node,
            current : Epoch, config : Epoch, claims : SUBSET Slot]

-----------------------------------------------------------------------------
(* One node's table *)

IsMaster(v, n) == v.master[n] = None
SlotsOf(v, n) == {j \in Slot : v.owner[j] = n}
MasterOf(v, n) == IF IsMaster(v, n) THEN n ELSE v.master[n]
MaxConfigEpoch(v) == Max(Range(v.epoch))
Assign(v, slots, n) ==
    [v EXCEPT !.owner = [j \in Slot |-> IF j \in slots THEN n ELSE @[j]]]

\* clusterUpdateState: the masters that serve a slot, and what is needed.
Size(v) == Cardinality({n \in Node : IsMaster(v, n) /\ SlotsOf(v, n) # {}})
NeededQuorum(v) == Size(v) \div 2 + 1

\* clusterUpdateSlotsConfigWith: slots go to a claim under a newer epoch. Who
\* has lost the last slot, its own or its master's, becomes a slave of the
\* new owner.
UpdateSlotsConfigWith(v, me, sender, config, slots) ==
    LET current == MasterOf(v, me)
        taken == {j \in slots : /\ v.owner[j] # sender
                                /\ \/ v.owner[j] = None
                                   \/ v.epoch[v.owner[j]] < config}
        w == Assign(v, taken, sender)
        lost == (\E j \in taken : v.owner[j] = current) /\ SlotsOf(w, current) = {}
    IN IF sender = me THEN v
       ELSE IF lost THEN [w EXCEPT !.master[me] = sender] ELSE w

\* clusterBumpConfigEpochWithoutConsensus
BumpConfigEpoch(v, me) ==
    IF v.epoch[me] = 0 \/ v.epoch[me] # Max({MaxConfigEpoch(v), v.current})
    THEN [v EXCEPT !.current = @ + 1, !.epoch[me] = v.current + 1]
    ELSE v

\* clusterFailoverReplaceYourMaster
ReplaceYourMaster(v, me) ==
    Assign([v EXCEPT !.master[me] = None], SlotsOf(v, v.master[me]), me)

\* Mutant: nothing is done about it.
HandleCollisionNot(v, me, sender, config) == v

\* clusterHandleConfigEpochCollision: of two masters the smaller ID moves.
HandleCollision(v, me, sender, config) ==
    IF /\ IsMaster(v, me) /\ IsMaster(v, sender)
       /\ config = v.epoch[me] /\ v.epoch[sender] = v.epoch[me]
       /\ Rank[sender] > Rank[me]
    THEN [v EXCEPT !.current = @ + 1, !.epoch[me] = v.current + 1]
    ELSE v

-----------------------------------------------------------------------------
(* Packets *)

\* clusterBuildMessageHdr: a slave sends its master's epoch and slots.
Header(n) ==
    LET v == view[n]
        m == MasterOf(v, n)
    IN [from |-> n, master |-> v.master[n], current |-> v.current,
        config |-> v.epoch[m], claims |-> SlotsOf(v, m)]

\* Mutant: the current epoch of the sender is not looked at.
SeeEpochsNoCurrent(v, h) ==
    [v EXCEPT !.epoch[h.from] = IF h.config > @ THEN h.config ELSE @]

\* What the header of any packet teaches.
SeeEpochs(v, h) ==
    [v EXCEPT !.current = IF h.current > @ THEN h.current ELSE @,
              !.epoch[h.from] = IF h.config > @ THEN h.config ELSE @]

\* A master that has become a slave loses its slots in the table.
SwitchRole(v, h) ==
    LET lost == IF h.master # None /\ IsMaster(v, h.from)
                THEN SlotsOf(v, h.from) ELSE {}
    IN [Assign(v, lost, None) EXCEPT !.master[h.from] = h.master]

\* Does the sender, or its master, claim other slots than the table has?
Dirty(v, h) == SlotsOf(v, MasterOf(v, h.from)) # h.claims

\* A PING or PONG, received by me: role and slots, and then the epochs.
Claimed(v, me, h) ==
    LET v1 == SwitchRole(SeeEpochs(v, h), h)
    IN IF Dirty(v1, h) /\ IsMaster(v1, h.from)
       THEN UpdateSlotsConfigWith(v1, me, h.from, h.config, h.claims)
       ELSE v1

ProcessPing(v, me, h) ==
    HandleCollision(Claimed(v, me, h), me, h.from, h.config)

\* The owners a sender of outdated claims is told of: one in an UPDATE.
Newer(v, me, h) ==
    LET w == Claimed(v, me, h)
    IN IF Dirty(SwitchRole(SeeEpochs(v, h), h), h)
       THEN {w.owner[j] : j \in {k \in h.claims :
                /\ w.owner[k] \notin {h.from, None}
                /\ w.epoch[w.owner[k]] > h.config}}
       ELSE {}

\* Mutant: the owner stays what it was in the table.
ProcessUpdateKeepRole(v, me, u) ==
    IF v.epoch[u.about] >= u.config THEN v
    ELSE UpdateSlotsConfigWith([v EXCEPT !.epoch[u.about] = u.config],
                               me, u.about, u.config, u.slots)

\* An UPDATE about a node whose epoch is newer makes it a master here.
ProcessUpdate(v, me, u) ==
    IF v.epoch[u.about] >= u.config THEN v
    ELSE UpdateSlotsConfigWith([v EXCEPT !.epoch[u.about] = u.config,
                                         !.master[u.about] = None],
                               me, u.about, u.config, u.slots)

\* The files when n goes on with v: all but a new current epoch is saved.
Stored(d, n, v) ==
    [d EXCEPT ![n] =
       IF [v EXCEPT !.current = 0] = [view[n] EXCEPT !.current = 0]
       THEN @ ELSE v]

\* s sends a PING or PONG to t; t may answer with an UPDATE.
Ping(s, t) ==
    LET h == Header(s)
        v == ProcessPing(view[t], t, h)
    IN /\ \/ /\ view' = [view EXCEPT ![t] = v]
             /\ disk' = Stored(disk, t, v)
          \/ \E about \in Newer(view[t], t, h) :
                LET sent == Claimed(view[t], t, h)
                    u == [about |-> about, config |-> sent.epoch[about],
                          slots |-> SlotsOf(sent, about)]
                    back == [from |-> t, current |-> sent.current,
                             config |-> sent.epoch[MasterOf(sent, t)]]
                    w == ProcessUpdate(SeeEpochs(view[s], back), s, u)
                IN /\ view' = [view EXCEPT ![t] = v, ![s] = w]
                   /\ disk' = Stored(Stored(disk, t, v), s, w)
       /\ UNCHANGED <<election, net, ghosts>>

-----------------------------------------------------------------------------
(* Elections *)

CanFailover(v, n) ==
    ~IsMaster(v, n) /\ SlotsOf(v, v.master[n]) # {}

\* The retry time has elapsed: a new election is planned.
ScheduleElection(n) ==
    /\ CanFailover(view[n], n)
    /\ election[n].sent \/ election[n].count > 0
    /\ election' = [election EXCEPT ![n].sent = FALSE, ![n].count = 0]
    /\ UNCHANGED <<view, disk, net, ghosts>>

\* The delay is over: clusterRequestFailoverAuth asks every node.
StartElection(n) ==
    LET e == view[n].current + 1
        v == [view[n] EXCEPT !.current = e]
    IN /\ CanFailover(view[n], n)
       /\ ~election[n].sent
       /\ e <= MaxEpoch
       /\ view' = [view EXCEPT ![n] = v]
       /\ disk' = [disk EXCEPT ![n] = v]
       /\ election' = [election EXCEPT ![n].epoch = e, ![n].sent = TRUE]
       /\ net' = net \cup
            {[type |-> "request", from |-> n, to |-> t, current |-> e,
              config |-> Header(n).config, claims |-> Header(n).claims]
                : t \in Node \ {n}}
       /\ UNCHANGED ghosts

\* clusterSendFailoverAuthIfNeeded. The vote itself is not written to disk.
MayVote(v, t, m) ==
    /\ IsMaster(v, t) /\ SlotsOf(v, t) # {}
    /\ m.current >= v.current
    /\ v.lastVote # v.current
    /\ ~IsMaster(v, m.from)
    /\ \A o \in {v.owner[j] : j \in m.claims} \ {None} :
          v.epoch[o] <= m.config

ReceiveRequest(t) ==
    \E m \in net :
       LET v == SeeEpochs(view[t], m)
       IN /\ m.type = "request" /\ m.to = t
          /\ \/ /\ view' = [view EXCEPT ![t] = v]
                /\ net' = net \ {m}
                /\ UNCHANGED votes
             \/ /\ MayVote(v, t, m)
                /\ view' = [view EXCEPT ![t] = [v EXCEPT !.lastVote = v.current]]
                /\ net' = (net \ {m}) \cup
                     {[type |-> "ack", from |-> t, to |-> m.from,
                       current |-> v.current, config |-> v.epoch[t],
                       claims |-> {}]}
                /\ votes' = votes \cup {<<t, v.current, m.from>>}
          /\ disk' = Stored(disk, t, v)
          /\ UNCHANGED <<election, restarts, takeovers, wins>>

\* A vote counts if its epoch is not older than that of the last election.
ReceiveAck(n) ==
    \E m \in net :
       LET v == SeeEpochs(view[n], m)
           counts == /\ IsMaster(v, m.from) /\ SlotsOf(v, m.from) # {}
                     /\ m.current >= election[n].epoch
       IN /\ m.type = "ack" /\ m.to = n
          /\ net' = net \ {m}
          /\ view' = [view EXCEPT ![n] = v]
          /\ disk' = Stored(disk, n, v)
          /\ election' = IF counts THEN [election EXCEPT ![n].count = @ + 1]
                         ELSE election
          /\ UNCHANGED ghosts

Won(n) ==
    LET win == <<n, election[n].epoch>>
    IN /\ wins' = wins \cup {win}
       /\ IF win \in wins
          THEN takeovers + restarts < MaxFaults /\ takeovers' = takeovers + 1
          ELSE UNCHANGED takeovers

\* Mutant: the epoch of the election is not taken as the configuration epoch
\* before the file is written.
ReplaceSavedFirst(n) ==
    LET v == view[n]
        w == ReplaceYourMaster(v, n)
    IN /\ CanFailover(v, n)
       /\ election[n].sent /\ election[n].count >= NeededQuorum(v)
       /\ view' = [view EXCEPT ![n] =
                     [w EXCEPT !.epoch[n] = Max({@, election[n].epoch})]]
       /\ disk' = [disk EXCEPT ![n] = w]
       /\ Won(n)
       /\ UNCHANGED <<election, net, restarts, votes>>

\* The quorum is reached in time. The votes stay counted: a winner that is made
\* a slave again soon may be promoted by the same election.
WinElection(n) ==
    LET v == view[n]
        w == ReplaceYourMaster(
               [v EXCEPT !.epoch[n] = Max({@, election[n].epoch})], n)
    IN /\ CanFailover(v, n)
       /\ election[n].sent /\ election[n].count >= NeededQuorum(v)
       /\ view' = [view EXCEPT ![n] = w]
       /\ disk' = [disk EXCEPT ![n] = w]
       /\ Won(n)
       /\ UNCHANGED <<election, net, restarts, votes>>

\* CLUSTER FAILOVER TAKEOVER
Takeover(n) ==
    LET v == ReplaceYourMaster(BumpConfigEpoch(view[n], n), n)
    IN /\ ~IsMaster(view[n], n)
       /\ takeovers + restarts < MaxFaults
       /\ takeovers' = takeovers + 1
       /\ view' = [view EXCEPT ![n] = v]
       /\ disk' = [disk EXCEPT ![n] = v]
       /\ UNCHANGED <<election, net, restarts, votes, wins>>

\* The process dies and starts from nodes.conf: clusterLoadConfig.
Restart(n) ==
    /\ takeovers + restarts < MaxFaults
    /\ restarts' = restarts + 1
    /\ view' = [view EXCEPT ![n] =
                  [disk[n] EXCEPT !.current = Max({@, MaxConfigEpoch(disk[n])})]]
    /\ election' = [election EXCEPT ![n] = NoElection]
    /\ net' = {m \in net : m.to # n}
    /\ UNCHANGED <<disk, takeovers, votes, wins>>

-----------------------------------------------------------------------------

\* The configuration that redis-trib made, when all nodes know it.
Init ==
    /\ view = [n \in Node |->
                 [owner |-> FirstOwner, master |-> FirstMaster,
                  epoch |-> [m \in Node |->
                     IF FirstMaster[m] = None THEN FirstEpoch[m]
                     ELSE IF m = n THEN 0 ELSE FirstEpoch[FirstMaster[m]]],
                  current |-> Max(Range(FirstEpoch)), lastVote |-> 0]]
    /\ disk = view
    /\ election = [n \in Node |-> NoElection]
    /\ net = {}
    /\ restarts = 0 /\ takeovers = 0 /\ votes = {} /\ wins = {}

Failover(n) ==
    \/ ScheduleElection(n)
    \/ StartElection(n)
    \/ WinElection(n)
    \/ Takeover(n)

Receive(n) == ReceiveRequest(n) \/ ReceiveAck(n)

Next ==
    \/ \E n \in Node : Failover(n) \/ Receive(n) \/ Restart(n)
    \/ \E s \in Node : \E t \in Node \ {s} : Ping(s, t)

Spec == Init /\ [][Next]_vars

\* clusterCron pings every node that it has not heard of for half the node
\* timeout, and the link is made again when it is lost: what s has to tell t
\* is told. (WF_vars(Ping(s, t)), with its ENABLED written out.)
Tells(s, t) == ProcessPing(view[t], t, Header(s)) # view[t]

FairSpec ==
    Spec /\ \A s \in Node : \A t \in Node \ {s} :
              []<>~Tells(s, t) \/ []<><<Ping(s, t)>>_vars

-----------------------------------------------------------------------------
(* Properties *)

TypeOK ==
    /\ view \in [Node -> View]
    /\ disk \in [Node -> View]
    /\ election \in [Node -> Election]
    /\ net \subseteq Message

\* A slot is never bound to a slave: an owner that is told of, by itself or in
\* an UPDATE, is a master by then, and a slave's slots are taken from it.
OwnersAreMasters ==
    \A n \in Node : \A j \in Slot :
       view[n].owner[j] # None => IsMaster(view[n], view[n].owner[j])

\* clusterLoadConfig calls it "something that should never happen": no epoch
\* in a node's table is greater than the current epoch the node knows, and
\* what it asks votes with is new to it.
EpochsBounded ==
    \A n \in Node : /\ MaxConfigEpoch(view[n]) <= view[n].current
                    /\ MaxConfigEpoch(disk[n]) <= view[n].current

\* The configuration epoch of a node grows and survives restarts: a node
\* never serves under an epoch older than one it served under before.
OwnEpochGrows ==
    [][\A n \in Node : view'[n].epoch[n] >= view[n].epoch[n]]_vars

\* clusterHandleConfigEpochCollision relies on this: a slave that wins an
\* election was voted for, in that epoch, by a majority of the masters.
ElectedByMajority ==
    \A w \in wins :
       2 * Cardinality({t \in Node : <<t, w[2], w[1]>> \in votes})
          > Cardinality(MasterNodes)

\* However the elections, takeovers and restarts went, once they are over the
\* tables of all nodes become the same and each slot is served by the node
\* that all of them name.
TablesConverge ==
    <>[](\A s, t \in Node : /\ view[s].owner = view[t].owner
                             /\ None \notin Range(view[s].owner))
=============================================================================
