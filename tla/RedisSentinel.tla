---------------------------- MODULE RedisSentinel ----------------------------
(***************************************************************************)
(* Redis Sentinel (src/sentinel.c of the bundled Redis 3.0): the processes *)
(* that watch the cache server of the shop, elect one of themselves when   *)
(* it is down, promote one of its slaves and agree on the new address.     *)
(*                                                                         *)
(* One master name is watched. A tick of sentinelTimer, the handler of one *)
(* message and the restart of a process are one action each. There is no   *)
(* clock: whatever a timeout allows may happen at any time, and with it    *)
(* the master may be taken for down by enough sentinels at any time. A     *)
(* message is handled at the moment it is sent or never; what an instance  *)
(* answers to INFO is its role at that moment.                             *)
(***************************************************************************)
EXTENDS Integers, FiniteSets, Functions

CONSTANTS
    Sentinel,       \* the sentinel processes
    Instance,       \* addresses of the Redis servers
    FirstMaster,    \* the one that "sentinel monitor" names
    FirstSlaves,    \* the sets of slaves that it may have
    Quorum,         \* the configured quorum
    None,           \* NULL
    MaxFailovers,   \* bound: failovers started, all together
    MaxDisturbances,\* bound: restarts, forced failovers, lost answers and
                    \* files that cannot be written
    MaxTotal        \* bound: both, and the slaves

Epoch == Nat
\* server.runid: a new one at every start, so a sentinel and its starts.
RunId == Sentinel \X Nat

ASSUME SentinelAssumption ==
    /\ IsFiniteSet(Sentinel)
    /\ FirstMaster \in Instance
    /\ FirstSlaves \subseteq SUBSET (Instance \ {FirstMaster})
    /\ Quorum \in 1..Cardinality(Sentinel)
    /\ None \notin Sentinel \cup Instance /\ None \notin RunId
    /\ {MaxFailovers, MaxDisturbances, MaxTotal} \subseteq Nat

VARIABLES
    sen,       \* what each process holds in memory
    disk,      \* its configuration file
    failing,   \* the processes whose file cannot always be written
    starts,    \* how often it was started again
    role,      \* what each instance that there is reports to INFO
    started,   \* how many failovers were started
    disturbed, \* disturbances that are not restarts
    cast       \* ghost: votes given, <<voter, epoch, runid>>

ghosts == <<started, disturbed, cast>>
vars == <<sen, disk, failing, starts, role, ghosts>>

-----------------------------------------------------------------------------

States == {"none", "wait_start", "select_slave", "send_slaveof_noone",
           "wait_promotion", "reconf_slaves"}

\* What s knows of another sentinel.
Peer == [leader : RunId \cup {None}, leader_epoch : Epoch, starts : Nat]
NewPeer(n) == [leader |-> None, leader_epoch |-> 0, starts |-> n]

SentinelState ==
    [current_epoch : Epoch, config_epoch : Epoch, leader_epoch : Epoch,
     leader : RunId \cup {None}, addr : Instance, slaves : SUBSET Instance,
     state : States, failover_epoch : Epoch,
     forced : BOOLEAN, promoted : Instance \cup {None},
     peers : [Sentinel -> Peer]]

Acting == States \ {"none", "wait_start"}

Me(s) == <<s, starts[s]>>
Disturbances ==
    disturbed + FoldFunction(LAMBDA a, b : a + b, 0, starts)
Slaves == DOMAIN role \ {FirstMaster}
InBounds(failovers, disturbances) ==
    /\ failovers <= MaxFailovers /\ disturbances <= MaxDisturbances
    /\ failovers + disturbances + Cardinality(Slaves) <= MaxTotal
Peers(s) == Sentinel \ {s}

\* Mutant: the address follows the choice of the slave, made or not.
CurrentMasterAddressEarly(m) ==
    IF m.state # "none" THEN m.promoted ELSE m.addr

\* The address that is advertised: the promoted slave once it is a master.
CurrentMasterAddress(m) ==
    IF m.state = "reconf_slaves" THEN m.promoted ELSE m.addr

\* Mutant: the slave that has become the master stays listed.
SavedPlain(m) ==
    [current_epoch |-> m.current_epoch, config_epoch |-> m.config_epoch,
     leader_epoch |-> m.leader_epoch, addr |-> CurrentMasterAddress(m),
     slaves |-> m.slaves]

\* The configuration file. The slave that has become the master is listed
\* under the address of the old master.
Saved(m) ==
    LET a == CurrentMasterAddress(m)
    IN [current_epoch |-> m.current_epoch, config_epoch |-> m.config_epoch,
        leader_epoch |-> m.leader_epoch, addr |-> a,
        slaves |-> {IF r = a THEN m.addr ELSE r : r \in m.slaves}]

\* A process that starts from its file; of the vote only the epoch was kept.
Loaded(d, known) ==
    [current_epoch |-> d.current_epoch, config_epoch |-> d.config_epoch,
     leader_epoch |-> d.leader_epoch, leader |-> None, addr |-> d.addr,
     slaves |-> d.slaves, state |-> "none",
     failover_epoch |-> 0, forced |-> FALSE, promoted |-> None,
     peers |-> known]

Blank(slaves) ==
    [current_epoch |-> 0, config_epoch |-> 0, leader_epoch |-> 0,
     addr |-> FirstMaster, slaves |-> slaves]

\* sentinelResetMasterAndChangeAddress: the old address is kept as a slave.
\* The epoch of a failover is read only while it goes on: 0 afterwards.
ChangeAddress(m, a) ==
    [m EXCEPT !.addr = a,
              !.slaves = (@ \ {a}) \cup ({m.addr} \ {a}),
              !.leader = None, !.state = "none", !.failover_epoch = 0,
              !.forced = FALSE, !.promoted = None]

AbortFailover(m) ==
    [m EXCEPT !.state = "none", !.failover_epoch = 0, !.forced = FALSE,
              !.promoted = None]

-----------------------------------------------------------------------------
(* Votes *)

\* sentinelVoteLeader: the vote m gives to x, or gave before.
VoteLeader(m, epoch, x) ==
    LET e == IF epoch > m.current_epoch THEN epoch ELSE m.current_epoch
    IN [m EXCEPT !.current_epoch = e,
                 !.leader = IF m.leader_epoch < epoch /\ e <= epoch
                            THEN x ELSE @,
                 !.leader_epoch = IF @ < epoch /\ e <= epoch THEN e ELSE @]

\* The file is written whenever the vote or the epoch changed. That this fails
\* is logged, and what was to follow goes on.
Flushed(s, m) ==
    {[disk EXCEPT ![s] = Saved(m)]} \cup (IF s \in failing THEN {disk} ELSE {})

\* Mutant: nothing is written.
FlushVoteNever(s, m, v) == {disk}

FlushVote(s, m, v) == IF v = m THEN {disk} ELSE Flushed(s, v)

Cast(s, m) ==
    IF m.leader_epoch > sen[s].leader_epoch
    THEN cast \cup {<<s, m.leader_epoch, m.leader>>} ELSE cast

\* Mutant: votes of any epoch count.
VotesAnyEpoch(s, m, x) ==
    Cardinality({t \in Peers(s) : m.peers[t].leader = x})

\* Votes of the others that count: those of the current epoch.
Votes(s, m, x) ==
    Cardinality({t \in Peers(s) : /\ m.peers[t].leader = x
                                  /\ m.peers[t].leader_epoch = m.current_epoch})

Candidates(s, m) ==
    {m.peers[t].leader : t \in Peers(s)} \ {None}

\* The runids s may vote for itself: most voted by the others, or its own.
Favourites(s, m) ==
    LET voted == {x \in Candidates(s, m) : Votes(s, m, x) > 0}
    IN IF voted = {} THEN {Me(s)}
       ELSE {x \in voted : \A y \in voted : Votes(s, m, x) >= Votes(s, m, y)}

Needed == LET majority == Cardinality(Sentinel) \div 2 + 1
          IN IF majority > Quorum THEN majority ELSE Quorum

\* sentinelGetLeader: does s, having voted as in v, win with the favourite?
Wins(s, v, epoch, favourite) ==
    LET mine == v.leader # None /\ v.leader_epoch = epoch
        best == Votes(s, v, favourite)
        own  == Votes(s, v, v.leader) + 1
    IN IF mine /\ own > best
       THEN v.leader = Me(s) /\ own >= Needed
       ELSE best > 0 /\ favourite = Me(s) /\ best >= Needed

\* What t is known to have voted.
Told(m, t, leader, epoch) ==
    [m EXCEPT !.peers[t] = [leader |-> leader, leader_epoch |-> epoch,
                            starts |-> @.starts]]

\* sentinelAskMasterStateToOtherSentinels with a failover in progress, the
\* command SENTINEL is-master-down-by-addr at t, and its answer: t votes only
\* for the master it watches itself.
AskForVote(s, t) ==
    LET m == sen[t]
        known == m.addr = sen[s].addr
        v == IF known THEN VoteLeader(m, sen[s].current_epoch, Me(s)) ELSE m
    IN /\ sen[s].state # "none"
       /\ sen' = IF known /\ v.leader # None
                 THEN [sen EXCEPT ![t] = v,
                                  ![s] = Told(@, t, v.leader, v.leader_epoch)]
                 ELSE [sen EXCEPT ![t] = v]
       /\ disk' \in FlushVote(t, m, v)
       /\ cast' = Cast(t, v)
       /\ UNCHANGED <<failing, starts, role, started, disturbed>>

\* No answer for five periods: the vote of t is forgotten. An answer that
\* gets lost is one that is forgotten at once.
ForgetReply(s, t) ==
    /\ sen[s].peers[t].leader # None
    /\ InBounds(started, Disturbances + 1)
    /\ disturbed' = disturbed + 1
    /\ sen' = [sen EXCEPT ![s] = Told(@, t, None, 0)]
    /\ UNCHANGED <<disk, failing, starts, role, started, cast>>

-----------------------------------------------------------------------------
(* Failover, as the sentinel that leads it *)

\* sentinelSendSlaveOf: the instances that are reached obey at once.
SendSlaveOf(instances, to) ==
    \E reached \in SUBSET instances :
       role' = [r \in DOMAIN role |-> IF r \in reached THEN to ELSE role[r]]

StartFailover(m) ==
    [m EXCEPT !.state = "wait_start", !.current_epoch = @ + 1,
              !.failover_epoch = m.current_epoch + 1]

\* The tick in wait_start, from the state m: vote, count, go on or give up.
WaitStart(s, m) ==
    \E favourite \in Favourites(s, m) :
       LET v == VoteLeader(m, m.failover_epoch, favourite)
           won == Wins(s, v, m.failover_epoch, favourite)
       IN /\ \E n \in IF won \/ m.forced
                      THEN {[v EXCEPT !.state = "select_slave"]}
                      ELSE {v, AbortFailover(v)} :
                sen' = [sen EXCEPT ![s] = n]
          /\ disk' \in FlushVote(s, m, v)
          /\ cast' = Cast(s, v)
          /\ UNCHANGED <<failing, starts, role, disturbed>>

\* The master is objectively down: the failover starts, and this tick votes.
StartFailoverIfNeeded(s) ==
    /\ sen[s].state = "none"
    /\ InBounds(started + 1, Disturbances)
    /\ started' = started + 1
    /\ WaitStart(s, StartFailover(sen[s]))

FailoverWaitStart(s) ==
    /\ sen[s].state = "wait_start"
    /\ WaitStart(s, sen[s])
    /\ UNCHANGED started

\* SENTINEL FAILOVER: no vote is asked for, and nothing is written yet.
ForceFailover(s) ==
    /\ sen[s].state = "none"
    /\ sen[s].slaves # {}
    /\ InBounds(started + 1, Disturbances + 1)
    /\ started' = started + 1
    /\ sen' = [sen EXCEPT ![s] = [StartFailover(@) EXCEPT !.forced = TRUE]]
    /\ disturbed' = disturbed + 1
    /\ UNCHANGED <<disk, failing, starts, role, cast>>

\* Priority, offset and runid decide among the slaves that are reachable;
\* here any slave may be that one.
FailoverSelectSlave(s) ==
    /\ sen[s].state = "select_slave"
    /\ \/ sen' = [sen EXCEPT ![s] = AbortFailover(@)]
       \/ \E r \in sen[s].slaves :
             sen' = [sen EXCEPT ![s].state = "send_slaveof_noone",
                                ![s].promoted = r]
    /\ UNCHANGED <<disk, failing, starts, role, ghosts>>

FailoverSendSlaveOfNoOne(s) ==
    /\ sen[s].state = "send_slaveof_noone"
    /\ SendSlaveOf({sen[s].promoted}, "master")
    /\ sen' = [sen EXCEPT ![s].state = "wait_promotion"]
    /\ UNCHANGED <<disk, failing, starts, ghosts>>

\* The promoted slave is not reached, or does not become a master in time.
FailoverTimeout(s) ==
    /\ sen[s].state \in {"send_slaveof_noone", "wait_promotion"}
    /\ sen' = [sen EXCEPT ![s] = AbortFailover(@)]
    /\ UNCHANGED <<disk, failing, starts, role, ghosts>>

\* INFO of the promoted slave says master: the new configuration exists.
PromotedSlave(s) ==
    /\ sen[s].state = "wait_promotion"
    /\ role[sen[s].promoted] = "master"
    /\ LET m == [sen[s] EXCEPT !.config_epoch = sen[s].failover_epoch,
                               !.state = "reconf_slaves"]
       IN /\ sen' = [sen EXCEPT ![s] = m]
          /\ disk' \in Flushed(s, m)
    /\ UNCHANGED <<failing, starts, role, started, disturbed, cast>>

\* SLAVEOF to one slave after the other, again if it is not obeyed.
FailoverReconfNextSlave(s) ==
    /\ sen[s].state = "reconf_slaves"
    /\ \E r \in sen[s].slaves \ {sen[s].promoted} : SendSlaveOf({r}, "slave")
    /\ UNCHANGED <<sen, disk, failing, starts, ghosts>>

\* sentinelFailoverDetectEnd and, in the same tick, the switch. Slaves that
\* are down are not waited for. After failover_timeout the command is sent to
\* every slave that is not done and was not sent it.
FailoverDetectEnd(s) ==
    LET m == ChangeAddress(sen[s], sen[s].promoted)
    IN /\ sen[s].state = "reconf_slaves"
       /\ SendSlaveOf(sen[s].slaves, "slave")
       /\ sen' = [sen EXCEPT ![s] = m]
       /\ disk' \in Flushed(s, m)
       /\ UNCHANGED <<failing, starts, ghosts>>

-----------------------------------------------------------------------------
(* A slave that is not what the configuration says *)

MasterLooksSane(m) == role[m.addr] = "master"

\* A slave that reports to be a master is turned back into a slave.
ConvertToSlave(s, r) ==
    /\ r \in sen[s].slaves \ {sen[s].promoted}
    /\ role[r] = "master"
    /\ MasterLooksSane(sen[s])
    /\ SendSlaveOf({r}, "slave")
    /\ UNCHANGED <<sen, disk, failing, starts, ghosts>>

-----------------------------------------------------------------------------
(* Hello messages, crash and restart *)

Hello(s) ==
    [from |-> Me(s), current_epoch |-> sen[s].current_epoch,
     addr |-> CurrentMasterAddress(sen[s]),
     config_epoch |-> sen[s].config_epoch]

\* A sentinel that is seen for the first time replaces the one at its
\* address. A newer configuration is taken, and the master switched if its
\* address is another one. A message that tells nothing new changes nothing.
ProcessHelloMessage(t, s) ==
    LET h == Hello(s)
        m == sen[t]
        new == m.peers[s].starts # h.from[2]
        newer == h.current_epoch > m.current_epoch
        m1 == [m EXCEPT
                 !.peers[s] = IF new THEN NewPeer(h.from[2]) ELSE @,
                 !.current_epoch = IF newer THEN h.current_epoch ELSE @]
        taken == h.config_epoch > m.config_epoch
        m2 == IF taken THEN [m1 EXCEPT !.config_epoch = h.config_epoch] ELSE m1
        switch == taken /\ h.addr # m.addr
        m3 == IF switch THEN ChangeAddress(m2, h.addr) ELSE m2
    IN /\ new \/ newer \/ taken
       /\ sen' = [sen EXCEPT ![t] = m3]
       /\ disk' \in IF switch THEN Flushed(t, m3)
                    ELSE IF new \/ newer THEN Flushed(t, m1) ELSE {disk}
       /\ UNCHANGED <<failing, starts, role, ghosts>>

\* The process ends at any point between two handlers and is started again.
Restart(s) ==
    /\ disk[s] # Blank(Slaves) \/ s \in failing
    /\ InBounds(started, Disturbances + 1)
    /\ LET known == [t \in Sentinel |-> NewPeer(sen[s].peers[t].starts)]
       IN sen' = [sen EXCEPT ![s] = Loaded(disk[s], known)]
    /\ starts' = [starts EXCEPT ![s] = @ + 1]
    /\ UNCHANGED <<disk, failing, role, ghosts>>

\* From now on writing the file may fail: the disk is full, say.
FlushFails(s) ==
    /\ s \notin failing
    /\ InBounds(started, Disturbances + 1)
    /\ disturbed' = disturbed + 1
    /\ failing' = failing \cup {s}
    /\ UNCHANGED <<sen, disk, starts, role, started, cast>>

-----------------------------------------------------------------------------

Init ==
    /\ \E slaves \in FirstSlaves :
          /\ disk = [s \in Sentinel |-> Blank(slaves)]
          /\ sen = [s \in Sentinel |->
                      Loaded(Blank(slaves), [t \in Sentinel |-> NewPeer(0)])]
          /\ role = [r \in {FirstMaster} \cup slaves |->
                        IF r = FirstMaster THEN "master" ELSE "slave"]
    /\ starts = [s \in Sentinel |-> 0] /\ failing = {}
    /\ started = 0 /\ disturbed = 0 /\ cast = {}

Pair(s, t) ==
    \/ AskForVote(s, t)
    \/ ForgetReply(s, t)
    \/ ProcessHelloMessage(s, t)

Tick(s) ==
    \/ StartFailoverIfNeeded(s)
    \/ ForceFailover(s)
    \/ FailoverWaitStart(s)
    \/ FailoverSelectSlave(s)
    \/ FailoverSendSlaveOfNoOne(s)
    \/ FailoverTimeout(s)
    \/ PromotedSlave(s)
    \/ FailoverReconfNextSlave(s)
    \/ FailoverDetectEnd(s)

Next ==
    \/ \E s \in Sentinel : Tick(s) \/ Restart(s) \/ FlushFails(s)
    \/ \E s \in Sentinel : \E t \in Peers(s) : Pair(s, t)
    \/ \E s \in Sentinel, r \in DOMAIN role : ConvertToSlave(s, r)

Spec == Init /\ [][Next]_vars

-----------------------------------------------------------------------------
(* Properties *)

TypeOK ==
    /\ sen \in [Sentinel -> SentinelState]
    /\ disk \in [Sentinel -> [current_epoch : Epoch, config_epoch : Epoch,
                              leader_epoch : Epoch, addr : Instance,
                              slaves : SUBSET Instance]]
    /\ failing \subseteq Sentinel /\ starts \in [Sentinel -> Nat]
    /\ \E slaves \in FirstSlaves :
          role \in [{FirstMaster} \cup slaves -> {"master", "slave"}]
    /\ cast \subseteq Sentinel \X Epoch \X RunId

\* A sentinel votes once in an epoch, also when it was started again between
\* two requests: sentinelVoteLeader writes the file before the vote is sent. It
\* sends the vote as well when that fails.
OneVotePerEpoch ==
    \A v, w \in cast :
       v[1] = w[1] /\ v[2] = w[2] => v[3] = w[3] \/ v[1] \in failing

\* A sentinel that acts as the leader was elected: enough sentinels, a
\* majority and the quorum, voted for it since it started its failover. An
\* answer that came late or was kept from an earlier epoch counts for nothing.
LeaderHasVotes ==
    \A s \in Sentinel :
       sen[s].state \in Acting /\ ~sen[s].forced =>
          Cardinality({v[1] : v \in {w \in cast :
             w[3] = Me(s) /\ w[2] >= sen[s].failover_epoch}}) >= Needed

\* Neither a switch of the master nor a restart in the middle of a failover
\* makes a sentinel forget an instance: the old master stays known as a
\* slave, in memory and in the file.
NoInstanceForgotten ==
    \A s \in Sentinel :
       /\ sen[s].slaves = DOMAIN role \ {sen[s].addr}
       /\ disk[s].slaves = DOMAIN role \ {disk[s].addr}
=============================================================================
