------------------------- MODULE RedisSentinelProofs -------------------------
(***************************************************************************)
(* Proofs about RedisSentinel, for any number of sentinels, instances,     *)
(* failovers, restarts and any quorum: the types, that nobody votes twice  *)
(* in an epoch, that a leader has the votes it needs, that no instance is  *)
(* forgotten, and on what there is one leader in an epoch.                 *)
(***************************************************************************)
EXTENDS RedisSentinel, FiniteSetTheorems, TLAPS

-----------------------------------------------------------------------------
(* What one sentinel holds, and its file, when D are the instances *)

File == [current_epoch : Epoch, config_epoch : Epoch, leader_epoch : Epoch,
         addr : Instance, slaves : SUBSET Instance]

Promoting == {"send_slaveof_noone", "wait_promotion", "reconf_slaves"}

\* Everything that is not the master is a slave, and so is what is promoted.
Good(m, D) == /\ m \in SentinelState
              /\ m.addr \in D /\ m.slaves = D \ {m.addr}
              /\ m.state \in Promoting => m.promoted \in m.slaves

GoodFile(d, D) == d \in File /\ d.addr \in D /\ d.slaves = D \ {d.addr}

LEMMA NoneIsNobody ==
    None \notin Instance /\ None \notin RunId
  BY SentinelAssumption

LEMMA SavedGood ==
    ASSUME NEW D \in SUBSET Instance, NEW m, Good(m, D)
    PROVE  GoodFile(Saved(m), D) /\ Saved(m).leader_epoch = m.leader_epoch
<1> DEFINE a == CurrentMasterAddress(m)
           slaves == {IF r = a THEN m.addr ELSE r : r \in m.slaves}
<1>1. Saved(m) = [current_epoch |-> m.current_epoch, config_epoch |-> m.config_epoch,
                  leader_epoch |-> m.leader_epoch, addr |-> a, slaves |-> slaves]
  BY DEF Saved
<1>2. a \in D /\ (a = m.addr \/ a \in m.slaves)
  BY DEF Good, CurrentMasterAddress, Promoting
<1>3. m.addr \in D /\ m.slaves = D \ {m.addr}
  BY DEF Good
<1> HIDE DEF a
<1>4. slaves = D \ {a}
  <2>1. ASSUME NEW r \in slaves PROVE r \in D \ {a}
    BY <1>2, <1>3
  <2>2. ASSUME NEW r \in D \ {a} PROVE r \in slaves
    <3>1. CASE r = m.addr
      BY <3>1, <2>2, <1>2, <1>3
    <3>2. CASE r # m.addr
      BY <3>2, <2>2, <1>3
    <3> QED
      BY <3>1, <3>2
  <2> QED
    BY <2>1, <2>2
<1> HIDE DEF slaves
<1> QED
  BY <1>1, <1>2, <1>4 DEF GoodFile, File, Good, SentinelState

LEMMA ChangeAddressGood ==
    ASSUME NEW D \in SUBSET Instance, NEW m, Good(m, D), NEW a \in D
    PROVE  LET n == ChangeAddress(m, a)
           IN Good(n, D) /\ n.leader_epoch = m.leader_epoch /\ n.leader = None
                         /\ n.state = "none" /\ n.peers = m.peers
<1>1. m \in SentinelState /\ m.addr \in D /\ m.slaves = D \ {m.addr}
  BY DEF Good
<1>2. (m.slaves \ {a}) \cup ({m.addr} \ {a}) = D \ {a}
  BY <1>1
<1>3. ASSUME NEW slaves \in SUBSET Instance
      PROVE  LET n == [m EXCEPT !.addr = a, !.slaves = slaves, !.leader = None,
                                !.state = "none", !.failover_epoch = 0,
                                !.forced = FALSE, !.promoted = None]
             IN /\ n \in SentinelState /\ n.addr = a /\ n.slaves = slaves
                /\ n.leader_epoch = m.leader_epoch /\ n.leader = None
                /\ n.state = "none" /\ n.peers = m.peers
  BY <1>1 DEF SentinelState, States, Epoch
<1>4. D \ {a} \in SUBSET Instance
  OBVIOUS
<1> DEFINE n == [m EXCEPT !.addr = a, !.slaves = D \ {a}, !.leader = None,
                          !.state = "none", !.failover_epoch = 0,
                          !.forced = FALSE, !.promoted = None]
<1>5. ChangeAddress(m, a) = n
  BY <1>2 DEF ChangeAddress
<1>6. /\ n \in SentinelState /\ n.addr = a /\ n.slaves = D \ {a}
      /\ n.leader_epoch = m.leader_epoch /\ n.leader = None
      /\ n.state = "none" /\ n.peers = m.peers
  BY <1>3, <1>4
<1> HIDE DEF n
<1>7. Good(n, D)
  BY <1>6 DEF Good, Promoting
<1> QED
  BY <1>5, <1>6, <1>7

LEMMA AbortFailoverGood ==
    ASSUME NEW D \in SUBSET Instance, NEW m, Good(m, D)
    PROVE  LET n == AbortFailover(m)
           IN Good(n, D) /\ n.leader_epoch = m.leader_epoch /\ n.leader = m.leader
                         /\ n.state = "none" /\ n.peers = m.peers
  BY DEF AbortFailover, Good, SentinelState, States, Epoch, Promoting

LEMMA StartFailoverGood ==
    ASSUME NEW D \in SUBSET Instance, NEW m, Good(m, D)
    PROVE  LET n == StartFailover(m)
           IN Good(n, D) /\ n.leader_epoch = m.leader_epoch /\ n.leader = m.leader
                         /\ n.state = "wait_start" /\ n.peers = m.peers
                         /\ n.failover_epoch = m.current_epoch + 1
<1>1. m \in SentinelState /\ m.current_epoch + 1 \in Nat
  BY DEF Good, SentinelState, Epoch
<1>2. ASSUME NEW e \in Nat
      PROVE  LET n == [m EXCEPT !.state = "wait_start", !.current_epoch = e,
                                !.failover_epoch = e]
             IN /\ n \in SentinelState /\ n.addr = m.addr /\ n.slaves = m.slaves
                /\ n.leader_epoch = m.leader_epoch /\ n.leader = m.leader
                /\ n.state = "wait_start" /\ n.peers = m.peers
                /\ n.failover_epoch = e
  BY <1>1 DEF SentinelState, States, Epoch
<1> QED
  BY <1>1, <1>2 DEF StartFailover, Good, Promoting

LEMMA VoteLeaderFields ==
    ASSUME NEW D \in SUBSET Instance, NEW m, Good(m, D), NEW e \in Epoch,
           NEW x \in RunId
    PROVE  LET v == VoteLeader(m, e, x)
           IN /\ Good(v, D) /\ v.state = m.state /\ v.peers = m.peers
              /\ v.failover_epoch = m.failover_epoch /\ v.forced = m.forced
<1> DEFINE c == IF e > m.current_epoch THEN e ELSE m.current_epoch
           l == IF m.leader_epoch < e /\ c <= e THEN x ELSE m.leader
           f == IF m.leader_epoch < e /\ c <= e THEN c ELSE m.leader_epoch
<1>1. m \in SentinelState /\ c \in Nat /\ f \in Nat /\ l \in RunId \cup {None}
  BY DEF Good, SentinelState, Epoch
<1>2. VoteLeader(m, e, x) = [m EXCEPT !.current_epoch = c, !.leader = l,
                                      !.leader_epoch = f]
  BY DEF VoteLeader
<1> HIDE DEF c, f, l
<1> QED
  BY <1>1, <1>2 DEF Good, SentinelState, Epoch

\* A vote is for a newer epoch than the one before.
LEMMA VoteLeaderEpochs ==
    ASSUME NEW D \in SUBSET Instance, NEW m, Good(m, D), NEW e \in Epoch,
           NEW x \in RunId
    PROVE  LET v == VoteLeader(m, e, x)
           IN /\ v.current_epoch >= e
              /\ \/ v.leader_epoch = m.leader_epoch /\ v.leader = m.leader
                 \/ v.leader_epoch > m.leader_epoch /\ v.leader = x
<1> DEFINE c == IF e > m.current_epoch THEN e ELSE m.current_epoch
           l == IF m.leader_epoch < e /\ c <= e THEN x ELSE m.leader
           f == IF m.leader_epoch < e /\ c <= e THEN c ELSE m.leader_epoch
<1>1. m \in SentinelState /\ m.current_epoch \in Nat /\ m.leader_epoch \in Nat
      /\ e \in Nat
  BY DEF Good, SentinelState, Epoch
<1>2. /\ c >= e
      /\ (f = m.leader_epoch /\ l = m.leader) \/ (f > m.leader_epoch /\ l = x)
  BY <1>1
<1>3. VoteLeader(m, e, x) = [m EXCEPT !.current_epoch = c, !.leader = l,
                                      !.leader_epoch = f]
  BY DEF VoteLeader
<1> HIDE DEF c, f, l
<1>4. /\ VoteLeader(m, e, x).current_epoch = c
      /\ VoteLeader(m, e, x).leader_epoch = f
      /\ VoteLeader(m, e, x).leader = l
  BY <1>1, <1>3 DEF SentinelState
<1> QED
  BY <1>2, <1>4

\* What a sentinel may be known to have voted.
Answer == RunId \cup {None}

LEMMA ToldGood ==
    ASSUME NEW D \in SUBSET Instance, NEW m, Good(m, D), NEW t \in Sentinel,
           NEW x \in Answer, NEW e \in Epoch
    PROVE  LET n == Told(m, t, x, e)
           IN /\ Good(n, D) /\ n.leader_epoch = m.leader_epoch
              /\ n.leader = m.leader /\ n.state = m.state
              /\ n.forced = m.forced /\ n.failover_epoch = m.failover_epoch
<1> DEFINE p == [leader |-> x, leader_epoch |-> e, starts |-> m.peers[t].starts]
<1>1. m \in SentinelState /\ m.peers \in [Sentinel -> Peer]
  BY DEF Good, SentinelState
<1>2. p \in Peer
  BY <1>1 DEF Peer, Answer
<1>3. Told(m, t, x, e) = [m EXCEPT !.peers = [m.peers EXCEPT ![t] = p]]
  BY <1>1 DEF Told, SentinelState
<1>4. /\ [m.peers EXCEPT ![t] = p] \in [Sentinel -> Peer]
      /\ [m.peers EXCEPT ![t] = p][t] = p
      /\ \A u \in Sentinel \ {t} : [m.peers EXCEPT ![t] = p][u] = m.peers[u]
  BY <1>1, <1>2
<1> DEFINE q == [m.peers EXCEPT ![t] = p]
<1> HIDE DEF q
<1>5. [m EXCEPT !.peers = q] \in SentinelState
  BY <1>1, <1>4 DEF SentinelState, q
<1> QED
  BY <1>1, <1>3, <1>4, <1>5 DEF Good, SentinelState, q

-----------------------------------------------------------------------------
(* Counting votes *)

\* Who voted for x in the epoch e or later, when the votes c were given.
Voters(c, x, e) == {v[1] : v \in {w \in c : w[3] = x /\ w[2] >= e}}

Ballots == Sentinel \X Epoch \X RunId

LEMMA VotersFinite ==
    ASSUME NEW c \in SUBSET Ballots, NEW x, NEW e
    PROVE  /\ IsFiniteSet(Voters(c, x, e)) /\ Voters(c, x, e) \subseteq Sentinel
           /\ Cardinality(Voters(c, x, e)) \in Nat
<1>1. Voters(c, x, e) \subseteq Sentinel
  BY DEF Voters, Ballots
<1>2. IsFiniteSet(Voters(c, x, e))
  BY <1>1, SentinelAssumption, FS_Subset
<1> QED
  BY <1>1, <1>2, FS_CardinalityType

\* Whoever is among the voters counts, and more votes are not fewer voters.
LEMMA VotersAtLeast ==
    ASSUME NEW c \in SUBSET Ballots, NEW x, NEW e,
           NEW A, A \subseteq Voters(c, x, e)
    PROVE  IsFiniteSet(A) /\ Cardinality(A) \in Nat
           /\ Cardinality(A) <= Cardinality(Voters(c, x, e))
<1>1. IsFiniteSet(Voters(c, x, e))
  BY VotersFinite
<1>2. IsFiniteSet(A) /\ Cardinality(A) <= Cardinality(Voters(c, x, e))
  BY <1>1, FS_Subset
<1> QED
  BY <1>2, FS_CardinalityType

LEMMA NeededIsNat == Needed \in Nat
<1>1. Cardinality(Sentinel) \in Nat /\ Quorum \in 1..Cardinality(Sentinel)
  BY SentinelAssumption, FS_CardinalityType
<1>2. Cardinality(Sentinel) \div 2 + 1 \in Nat
  BY <1>1
<1> QED
  BY <1>1, <1>2 DEF Needed

-----------------------------------------------------------------------------
(* The inductive invariant *)

\* A vote that is remembered, one's own or another's, was given.
Backed(t, x, e) == x # None => <<t, e, x>> \in cast

Elected(s) ==
    sen[s].state \in Acting /\ ~sen[s].forced =>
       Cardinality(Voters(cast, Me(s), sen[s].failover_epoch)) >= Needed

\* The file tells the epoch of the vote, if it can be written.
Fits(d, m, s) == s \notin failing => d.leader_epoch = m.leader_epoch

SentinelOK(s) ==
    /\ Good(sen[s], DOMAIN role) /\ GoodFile(disk[s], DOMAIN role)
    /\ Fits(disk[s], sen[s], s)
    /\ Backed(s, sen[s].leader, sen[s].leader_epoch)
    /\ \A t \in Peers(s) :
          Backed(t, sen[s].peers[t].leader, sen[s].peers[t].leader_epoch)
    /\ Elected(s)

\* No vote is newer than the epoch its voter has voted in, on disk as well.
\* Whoever cannot write its file may have forgotten it.
VotesOK == /\ cast \subseteq Ballots
           /\ \A v \in cast :
                 v[1] \notin failing => v[2] <= sen[v[1]].leader_epoch
           /\ OneVotePerEpoch

Typed == /\ sen \in [Sentinel -> SentinelState] /\ disk \in [Sentinel -> File]
         /\ failing \subseteq Sentinel /\ starts \in [Sentinel -> Nat]
         /\ \E slaves \in FirstSlaves :
               role \in [{FirstMaster} \cup slaves -> {"master", "slave"}]

IInv == Typed /\ VotesOK /\ \A s \in Sentinel : SentinelOK(s)

\* role' where it is not UNCHANGED.
RoleStep == /\ DOMAIN role' = DOMAIN role
            /\ \A r \in DOMAIN role : role'[r] \in {"master", "slave"}
            /\ role' = [r \in DOMAIN role |-> role'[r]]

LEMMA KnownInstances ==
    ASSUME Typed
    PROVE  DOMAIN role \in SUBSET Instance
  BY SentinelAssumption DEF Typed

LEMMA RoleTyped ==
    ASSUME Typed, RoleStep
    PROVE  \E slaves \in FirstSlaves :
              role' \in [{FirstMaster} \cup slaves -> {"master", "slave"}]
  BY DEF Typed, RoleStep

LEMMA RoleUnchanged ==
    ASSUME Typed, role' = role
    PROVE  RoleStep
  BY DEF Typed, RoleStep

LEMMA SendSlaveOfStep ==
    ASSUME Typed, NEW I, NEW to \in {"master", "slave"}, SendSlaveOf(I, to)
    PROVE  RoleStep
<1>1. PICK reached \in SUBSET I :
        role' = [r \in DOMAIN role |-> IF r \in reached THEN to ELSE role[r]]
  BY DEF SendSlaveOf
<1>2. \A r \in DOMAIN role : role[r] \in {"master", "slave"}
  BY DEF Typed
<1> QED
  BY <1>1, <1>2 DEF RoleStep

\* What a vote does to the ghost.
LEMMA CastStep ==
    ASSUME VotesOK, Typed, failing' = failing, NEW s \in Sentinel,
           NEW n \in SentinelState,
           \/ n.leader_epoch = sen[s].leader_epoch
           \/ n.leader_epoch > sen[s].leader_epoch /\ n.leader \in RunId,
           cast' = Cast(s, n), sen' \in [Sentinel -> SentinelState],
           sen'[s].leader_epoch = n.leader_epoch,
           \A t \in Sentinel \ {s} : sen'[t].leader_epoch = sen[t].leader_epoch
    PROVE  VotesOK' /\ cast \subseteq cast'
<1>1. \A t \in Sentinel : sen[t].leader_epoch \in Nat
  BY DEF Typed, SentinelState, Epoch
<1>2. n.leader_epoch \in Nat
  BY DEF SentinelState, Epoch
<1>3. ASSUME NEW v \in cast
      PROVE  /\ v[1] \in Sentinel /\ v[2] \in Nat
             /\ v[1] \notin failing => v[2] <= sen[v[1]].leader_epoch
  BY DEF VotesOK, Ballots, Epoch
<1>4. CASE n.leader_epoch = sen[s].leader_epoch
  <2>1. cast' = cast
    BY <1>1, <1>4 DEF Cast
  <2>2. \A v \in cast : v[1] \notin failing => v[2] <= sen'[v[1]].leader_epoch
    BY <1>3, <1>4
  <2> QED
    BY <2>1, <2>2 DEF VotesOK, OneVotePerEpoch
<1>5. CASE n.leader_epoch > sen[s].leader_epoch /\ n.leader \in RunId
  <2> DEFINE b == <<s, n.leader_epoch, n.leader>>
  <2>1. cast' = cast \cup {b} /\ b \in Ballots
    BY <1>2, <1>5 DEF Cast, Ballots, Epoch
  <2>2. s \notin failing => \A v \in cast : v[1] = s => v[2] < n.leader_epoch
    BY <1>1, <1>2, <1>3, <1>5
  <2>3. \A v \in cast' : v[1] \notin failing => v[2] <= sen'[v[1]].leader_epoch
    <3> SUFFICES ASSUME NEW v \in cast', v[1] \notin failing
                 PROVE  v[2] <= sen'[v[1]].leader_epoch
      OBVIOUS
    <3>1. CASE v = b
      BY <3>1, <1>2
    <3>2. CASE v \in cast /\ v[1] = s
      BY <3>2, <2>2, <1>2, <1>3
    <3>3. CASE v \in cast /\ v[1] # s
      BY <3>3, <1>3
    <3> QED
      BY <2>1, <3>1, <3>2, <3>3
  <2>4. OneVotePerEpoch'
    <3> SUFFICES ASSUME NEW v \in cast', NEW w \in cast', v[1] = w[1],
                        v[2] = w[2], v[1] \notin failing
                 PROVE  v[3] = w[3]
      BY DEF OneVotePerEpoch
    <3>1. CASE v \in cast /\ w \in cast
      BY <3>1 DEF VotesOK, OneVotePerEpoch
    <3>2. CASE v = b /\ w = b
      BY <3>2
    <3>3. CASE v = b /\ w \in cast
      BY <3>3, <2>2, <1>2, <1>3
    <3>4. CASE v \in cast /\ w = b
      BY <3>4, <2>2, <1>2, <1>3
    <3> QED
      BY <2>1, <3>1, <3>2, <3>3, <3>4
  <2> QED
    BY <2>1, <2>3, <2>4 DEF VotesOK
<1> QED
  BY <1>4, <1>5

\* A sentinel that a step leaves alone.
LEMMA SentinelLeftAlone ==
    ASSUME IInv, RoleStep, NEW s \in Sentinel, sen'[s] = sen[s],
           disk'[s] = disk[s], starts'[s] = starts[s],
           failing \subseteq failing', cast \subseteq cast',
           cast' \subseteq Ballots
    PROVE  SentinelOK(s)'
<1>1. SentinelOK(s) /\ DOMAIN role' = DOMAIN role
  BY DEF IInv, RoleStep
<1>2. Elected(s)'
  <2> DEFINE e == sen[s].failover_epoch
  <2>1. Voters(cast, Me(s), e) \subseteq Voters(cast', Me(s), e)
    BY DEF Voters
  <2>2. /\ Cardinality(Voters(cast, Me(s), e)) <= Cardinality(Voters(cast', Me(s), e))
        /\ Cardinality(Voters(cast, Me(s), e)) \in Nat
        /\ Cardinality(Voters(cast', Me(s), e)) \in Nat
    BY <2>1, VotersAtLeast, VotersFinite
  <2>3. Me(s)' = Me(s)
    BY DEF Me
  <2> QED
    BY <1>1, <2>2, <2>3, NeededIsNat DEF SentinelOK, Elected
<1>3. \A t, x, e : Backed(t, x, e) => Backed(t, x, e)'
  BY DEF Backed
<1>4. /\ Good(sen'[s], DOMAIN role') /\ GoodFile(disk'[s], DOMAIN role')
      /\ Fits(disk[s], sen[s], s)'
  BY <1>1 DEF SentinelOK, Fits
<1>5. /\ Backed(s, sen[s].leader, sen[s].leader_epoch)'
      /\ \A t \in Peers(s) :
            Backed(t, sen[s].peers[t].leader, sen[s].peers[t].leader_epoch)'
  BY <1>1 DEF SentinelOK, Backed
<1> QED
  BY <1>2, <1>4, <1>5 DEF SentinelOK

\* A sentinel that a step changes: a vote it remembers afterwards is none, one
\* it remembered before, or one that was given.
LEMMA SentinelChanged ==
    ASSUME IInv, RoleStep, NEW s \in Sentinel, cast \subseteq cast',
           Good(sen'[s], DOMAIN role), GoodFile(disk'[s], DOMAIN role),
           Fits(disk[s], sen[s], s)',
           \/ sen'[s].leader = None
           \/ /\ sen'[s].leader = sen[s].leader
              /\ sen'[s].leader_epoch = sen[s].leader_epoch
           \/ <<s, sen'[s].leader_epoch, sen'[s].leader>> \in cast',
           \A t \in Peers(s) :
              LET p == sen'[s].peers[t]
              IN \/ p.leader = None
                 \/ /\ p.leader = sen[s].peers[t].leader
                    /\ p.leader_epoch = sen[s].peers[t].leader_epoch
                 \/ <<t, p.leader_epoch, p.leader>> \in cast',
           Elected(s)'
    PROVE  SentinelOK(s)'
<1>1. SentinelOK(s) /\ DOMAIN role' = DOMAIN role
  BY DEF IInv, RoleStep
<1>2. Backed(s, sen[s].leader, sen[s].leader_epoch)'
  BY <1>1 DEF SentinelOK, Backed
<1>3. \A t \in Peers(s) :
         Backed(t, sen[s].peers[t].leader, sen[s].peers[t].leader_epoch)'
  BY <1>1 DEF SentinelOK, Backed
<1>4. Good(sen'[s], DOMAIN role') /\ GoodFile(disk'[s], DOMAIN role')
  BY <1>1
<1> QED
  BY <1>2, <1>3, <1>4 DEF SentinelOK

\* A sentinel that does not come to lead by the step is as elected as before.
LEMMA StaysElected ==
    ASSUME IInv, NEW s \in Sentinel, cast \subseteq cast', cast' \subseteq Ballots,
           \/ sen'[s].state \notin Acting
           \/ sen'[s].forced
           \/ /\ sen[s].state \in Acting /\ starts' = starts
              /\ sen'[s].forced = sen[s].forced
              /\ sen'[s].failover_epoch = sen[s].failover_epoch
    PROVE  Elected(s)'
<1> DEFINE e == sen[s].failover_epoch
<1>1. CASE /\ sen[s].state \in Acting /\ starts' = starts /\ ~sen'[s].forced
           /\ sen'[s].forced = sen[s].forced
           /\ sen'[s].failover_epoch = e
  <2>1. Cardinality(Voters(cast, Me(s), e)) >= Needed
    BY <1>1 DEF IInv, SentinelOK, Elected
  <2>2. Voters(cast, Me(s), e) \subseteq Voters(cast', Me(s), e)
    BY DEF Voters
  <2>3. /\ Cardinality(Voters(cast, Me(s), e)) <= Cardinality(Voters(cast', Me(s), e))
        /\ Cardinality(Voters(cast, Me(s), e)) \in Nat
        /\ Cardinality(Voters(cast', Me(s), e)) \in Nat
    BY <2>2, VotersAtLeast, VotersFinite DEF IInv, VotesOK
  <2>4. Me(s)' = Me(s)
    BY <1>1 DEF Me
  <2> HIDE DEF e
  <2>5. Cardinality(Voters(cast', Me(s), e)) >= Needed
    BY <2>1, <2>3, NeededIsNat
  <2> QED
    BY <1>1, <2>4, <2>5 DEF Elected
<1> QED
  BY <1>1 DEF Elected

\* What a step may make of the vote and of the votes told, of the file, and of
\* the leadership of one sentinel that goes on with n.
VoteKept(s, n) ==
    \/ /\ n.leader_epoch = sen[s].leader_epoch
       /\ n.leader \in {None, sen[s].leader}
    \/ n.leader_epoch > sen[s].leader_epoch /\ n.leader \in RunId
ToldKept(s, n) ==
    \A t \in Peers(s) : \/ n.peers[t].leader = None
                        \/ n.peers[t] = sen[s].peers[t]
FileKept(s, n) ==
    \/ disk' = disk
    \/ \E m : /\ disk' \in Flushed(s, m) /\ Good(m, DOMAIN role)
              /\ m.leader_epoch = n.leader_epoch
StillActing(s, n) ==
    \/ n.state \notin Acting
    \/ n.forced
    \/ /\ sen[s].state \in Acting
       /\ n.forced = sen[s].forced
       /\ n.failover_epoch = sen[s].failover_epoch
FileOf(s, n) ==
    /\ disk' \in [Sentinel -> File]
    /\ \A t \in Sentinel \ {s} : disk'[t] = disk[t]
    /\ GoodFile(disk'[s], DOMAIN role) /\ Fits(disk'[s], n, s)

\* A step that changes what one sentinel holds, its file, or both.
LEMMA OneSentinel ==
    ASSUME IInv, RoleStep, NEW s \in Sentinel, NEW n,
           sen' = [sen EXCEPT ![s] = n], Good(n, DOMAIN role),
           VoteKept(s, n), ToldKept(s, n), cast' = Cast(s, n), FileOf(s, n),
           failing' = failing, starts' \in [Sentinel -> Nat],
           \A t \in Sentinel \ {s} : starts'[t] = starts[t],
           cast \subseteq cast' /\ cast' \subseteq Ballots => Elected(s)'
    PROVE  IInv'
<1>1. Typed /\ VotesOK /\ n \in SentinelState
  BY DEF IInv, Good
<1>2. /\ sen' \in [Sentinel -> SentinelState] /\ sen'[s] = n
      /\ \A t \in Sentinel \ {s} : sen'[t] = sen[t]
  BY <1>1 DEF Typed
<1>3. VotesOK' /\ cast \subseteq cast'
  BY <1>1, <1>2, CastStep DEF VoteKept
<1>4. cast' \subseteq Ballots
  BY <1>3 DEF VotesOK
<1>5. Typed'
  BY <1>1, <1>2, RoleTyped DEF Typed, FileOf
<1>6. ASSUME n.leader_epoch > sen[s].leader_epoch
      PROVE  <<s, n.leader_epoch, n.leader>> \in cast'
  BY <1>6 DEF Cast
<1>7. SentinelOK(s)'
  BY <1>2, <1>3, <1>4, <1>6, SentinelChanged DEF VoteKept, ToldKept, FileOf, Fits
<1>8. ASSUME NEW t \in Sentinel \ {s} PROVE SentinelOK(t)'
  BY <1>2, <1>3, <1>4, SentinelLeftAlone DEF FileOf
<1> QED
  BY <1>3, <1>5, <1>7, <1>8 DEF IInv

\* The same, when no vote is given.
LEMMA QuietStep ==
    ASSUME IInv, RoleStep, NEW s \in Sentinel, NEW n,
           sen' = [sen EXCEPT ![s] = n], Good(n, DOMAIN role),
           n.leader_epoch = sen[s].leader_epoch,
           n.leader \in {None, sen[s].leader},
           ToldKept(s, n), cast' = cast, failing' = failing, starts' = starts,
           FileKept(s, n), StillActing(s, n)
    PROVE  IInv'
<1>1. Typed /\ SentinelOK(s) /\ DOMAIN role \in SUBSET Instance /\ sen'[s] = n
  BY KnownInstances DEF IInv, Typed
<1>2. FileOf(s, n)
  <2>1. CASE disk' = disk
    BY <1>1, <2>1 DEF Typed, SentinelOK, FileOf, Fits
  <2>2. CASE \E m : /\ disk' \in Flushed(s, m) /\ Good(m, DOMAIN role)
                    /\ m.leader_epoch = n.leader_epoch
    <3>1. PICK m : /\ disk' \in Flushed(s, m) /\ Good(m, DOMAIN role)
                   /\ m.leader_epoch = n.leader_epoch
      BY <2>2
    <3>2. GoodFile(Saved(m), DOMAIN role) /\ Saved(m).leader_epoch = n.leader_epoch
      BY <1>1, <3>1, SavedGood
    <3>3. CASE disk' = [disk EXCEPT ![s] = Saved(m)]
      BY <1>1, <3>2, <3>3 DEF Typed, GoodFile, FileOf, Fits
    <3> QED
      BY <2>1, <3>1, <3>3 DEF Flushed, FileOf, Fits
  <2> QED
    BY <2>1, <2>2 DEF FileKept
<1>3. cast' = Cast(s, n)
  <2>1. n.leader_epoch \in Nat
    BY DEF Good, SentinelState, Epoch
  <2> QED
    BY <2>1 DEF Cast
<1>4. cast' \subseteq Ballots => Elected(s)'
  BY <1>1, StaysElected DEF StillActing
<1>5. VoteKept(s, n)
  BY DEF VoteKept
<1>6. starts' \in [Sentinel -> Nat] /\ \A t \in Sentinel \ {s} : starts'[t] = starts[t]
  BY <1>1 DEF Typed
<1> QED
  BY <1>2, <1>3, <1>4, <1>5, <1>6, OneSentinel

-----------------------------------------------------------------------------
(* The ticks and the messages, one by one *)

LEMMA ForgetReplyStep ==
    ASSUME IInv, NEW s \in Sentinel, NEW t \in Peers(s), ForgetReply(s, t)
    PROVE  IInv'
<1> DEFINE D == DOMAIN role
           m == sen[s]
           x == None
           e == 0
           n == Told(m, t, x, e)
<1>1. /\ D \in SUBSET Instance /\ Good(m, D) /\ RoleStep /\ t \in Sentinel
      /\ x \in Answer /\ e \in Epoch
  BY KnownInstances, RoleUnchanged
     DEF IInv, SentinelOK, ForgetReply, Peers, Epoch, Answer
<1>2. sen' = [sen EXCEPT ![s] = n] /\ disk' = disk /\ failing' = failing /\ starts' = starts
      /\ cast' = cast
  BY DEF ForgetReply, ghosts
<1>3. x = None /\ m = sen[s] /\ D = DOMAIN role
  OBVIOUS
<1> HIDE DEF D, m, x, e
<1>4. /\ Good(n, D) /\ n.leader_epoch = m.leader_epoch
      /\ n.leader = m.leader /\ n.state = m.state
      /\ n.forced = m.forced /\ n.failover_epoch = m.failover_epoch
  BY <1>1, ToldGood
<1>5. n.peers = [m.peers EXCEPT ![t] = [leader |-> x, leader_epoch |-> e,
                                        starts |-> m.peers[t].starts]]
  BY <1>1 DEF Told, Good, SentinelState
<1> HIDE DEF n
<1>6. /\ n.peers[t].leader = x
      /\ \A u \in Sentinel \ {t} : n.peers[u] = m.peers[u]
  BY <1>1, <1>5 DEF Good, SentinelState
<1>7. ToldKept(s, n)
  BY <1>3, <1>6 DEF ToldKept, Peers
<1>8. FileKept(s, n) /\ StillActing(s, n)
  BY <1>2, <1>3, <1>4 DEF FileKept, StillActing
<1> QED
  BY <1>1, <1>2, <1>3, <1>4, <1>7, <1>8, QuietStep

LEMMA ForceFailoverStep ==
    ASSUME IInv, NEW s \in Sentinel, ForceFailover(s)
    PROVE  IInv'
<1> DEFINE m == StartFailover(sen[s])
           n == [m EXCEPT !.forced = TRUE]
<1>1. Good(sen[s], DOMAIN role) /\ DOMAIN role \in SUBSET Instance /\ RoleStep
  BY KnownInstances, RoleUnchanged DEF IInv, SentinelOK, ForceFailover
<1>2. /\ Good(m, DOMAIN role) /\ m.leader_epoch = sen[s].leader_epoch
      /\ m.leader = sen[s].leader /\ m.peers = sen[s].peers
  BY <1>1, StartFailoverGood
<1>3. sen' = [sen EXCEPT ![s] = n] /\ disk' = disk /\ failing' = failing /\ starts' = starts
      /\ cast' = cast
  BY DEF ForceFailover, IInv, Typed
<1> HIDE DEF m
<1>4. /\ Good(n, DOMAIN role) /\ n.leader_epoch = sen[s].leader_epoch
      /\ n.leader = sen[s].leader /\ n.peers = sen[s].peers /\ n.forced
  BY <1>2 DEF Good, SentinelState
<1> HIDE DEF n
<1>5. ToldKept(s, n) /\ FileKept(s, n) /\ StillActing(s, n)
  BY <1>3, <1>4 DEF ToldKept, FileKept, StillActing
<1> QED
  BY <1>1, <1>3, <1>4, <1>5, QuietStep

\* A failover goes on: the leader and its votes stay what they are.
LEMMA LeadsOn ==
    ASSUME IInv, RoleStep, NEW s \in Sentinel, NEW n,
           sen[s].state \in Acting, sen' = [sen EXCEPT ![s] = n],
           Good(n, DOMAIN role),
           n.leader_epoch = sen[s].leader_epoch, n.leader = sen[s].leader,
           n.peers = sen[s].peers, n.forced = sen[s].forced,
           n.failover_epoch = sen[s].failover_epoch,
           cast' = cast, starts' = starts,
           failing' = failing, disk' = disk \/ disk' \in Flushed(s, n)
    PROVE  IInv'
<1>1. ToldKept(s, n) /\ FileKept(s, n) /\ StillActing(s, n)
  BY DEF ToldKept, FileKept, StillActing
<1> QED
  BY <1>1, QuietStep

\* A failover ends, by a switch or without one.
LEMMA LeadsNoMore ==
    ASSUME IInv, RoleStep, NEW s \in Sentinel, NEW n,
           sen' = [sen EXCEPT ![s] = n], Good(n, DOMAIN role),
           n.leader_epoch = sen[s].leader_epoch,
           n.leader \in {None, sen[s].leader},
           n.peers = sen[s].peers, n.state = "none",
           cast' = cast, starts' = starts,
           failing' = failing, disk' = disk \/ disk' \in Flushed(s, n)
    PROVE  IInv'
<1>1. n.state \notin Acting
  BY DEF Acting, States
<1>2. ToldKept(s, n) /\ FileKept(s, n) /\ StillActing(s, n)
  BY <1>1 DEF ToldKept, FileKept, StillActing
<1> QED
  BY <1>2, QuietStep

LEMMA FailoverSelectSlaveStep ==
    ASSUME IInv, NEW s \in Sentinel, FailoverSelectSlave(s)
    PROVE  IInv'
<1>1. /\ Good(sen[s], DOMAIN role) /\ DOMAIN role \in SUBSET Instance /\ RoleStep
      /\ sen[s].state \in Acting
  BY KnownInstances, RoleUnchanged
     DEF IInv, SentinelOK, FailoverSelectSlave, Acting, States
<1>2. disk' = disk /\ failing' = failing /\ starts' = starts /\ cast' = cast
  BY DEF FailoverSelectSlave, ghosts
<1>3. CASE sen' = [sen EXCEPT ![s] = AbortFailover(sen[s])]
  BY <1>1, <1>2, <1>3, AbortFailoverGood, LeadsNoMore
<1>4. CASE \E r \in sen[s].slaves :
              sen' = [sen EXCEPT ![s].state = "send_slaveof_noone",
                                 ![s].promoted = r]
  <2>1. PICK r \in sen[s].slaves :
          sen' = [sen EXCEPT ![s].state = "send_slaveof_noone",
                             ![s].promoted = r]
    BY <1>4
  <2> DEFINE n == [sen[s] EXCEPT !.state = "send_slaveof_noone", !.promoted = r]
  <2>2. sen' = [sen EXCEPT ![s] = n]
    BY <2>1 DEF IInv, Typed
  <2>3. /\ Good(n, DOMAIN role) /\ n.leader_epoch = sen[s].leader_epoch
        /\ n.leader = sen[s].leader /\ n.peers = sen[s].peers
        /\ n.forced = sen[s].forced
        /\ n.failover_epoch = sen[s].failover_epoch
    BY <1>1 DEF Good, SentinelState, States
  <2> HIDE DEF n
  <2> QED
    BY <1>1, <1>2, <2>2, <2>3, LeadsOn
<1> QED
  BY <1>3, <1>4 DEF FailoverSelectSlave

LEMMA FailoverSendSlaveOfNoOneStep ==
    ASSUME IInv, NEW s \in Sentinel, FailoverSendSlaveOfNoOne(s)
    PROVE  IInv'
<1> DEFINE n == [sen[s] EXCEPT !.state = "wait_promotion"]
<1>1. /\ Good(sen[s], DOMAIN role)
      /\ sen[s].state = "send_slaveof_noone" /\ sen[s].state \in Acting
  BY DEF IInv, SentinelOK, FailoverSendSlaveOfNoOne, Acting, States
<1>2. RoleStep
  BY SendSlaveOfStep DEF IInv, FailoverSendSlaveOfNoOne
<1>3. disk' = disk /\ failing' = failing /\ starts' = starts /\ cast' = cast
      /\ sen' = [sen EXCEPT ![s] = n]
  BY DEF FailoverSendSlaveOfNoOne, ghosts, IInv, Typed
<1>4. /\ Good(n, DOMAIN role) /\ n.leader_epoch = sen[s].leader_epoch
      /\ n.leader = sen[s].leader /\ n.peers = sen[s].peers
      /\ n.forced = sen[s].forced /\ n.failover_epoch = sen[s].failover_epoch
  BY <1>1 DEF Good, SentinelState, States, Promoting
<1> HIDE DEF n
<1> QED
  BY <1>1, <1>2, <1>3, <1>4, LeadsOn

LEMMA FailoverTimeoutStep ==
    ASSUME IInv, NEW s \in Sentinel, FailoverTimeout(s)
    PROVE  IInv'
<1>1. /\ Good(sen[s], DOMAIN role) /\ DOMAIN role \in SUBSET Instance /\ RoleStep
  BY KnownInstances, RoleUnchanged DEF IInv, SentinelOK, FailoverTimeout
<1>2. disk' = disk /\ failing' = failing /\ starts' = starts /\ cast' = cast
      /\ sen' = [sen EXCEPT ![s] = AbortFailover(sen[s])]
  BY DEF FailoverTimeout, ghosts
<1> QED
  BY <1>1, <1>2, AbortFailoverGood, LeadsNoMore

LEMMA PromotedSlaveStep ==
    ASSUME IInv, NEW s \in Sentinel, PromotedSlave(s)
    PROVE  IInv'
<1> DEFINE n == [sen[s] EXCEPT !.config_epoch = sen[s].failover_epoch,
                               !.state = "reconf_slaves"]
<1>1. /\ Good(sen[s], DOMAIN role) /\ RoleStep
      /\ sen[s].state = "wait_promotion" /\ sen[s].state \in Acting
  BY RoleUnchanged DEF IInv, SentinelOK, PromotedSlave, Acting, States
<1>2. disk' \in Flushed(s, n) /\ failing' = failing /\ starts' = starts /\ cast' = cast
      /\ sen' = [sen EXCEPT ![s] = n]
  BY DEF PromotedSlave
<1>3. /\ Good(n, DOMAIN role) /\ n.leader_epoch = sen[s].leader_epoch
      /\ n.leader = sen[s].leader /\ n.peers = sen[s].peers
      /\ n.forced = sen[s].forced /\ n.failover_epoch = sen[s].failover_epoch
  BY <1>1 DEF Good, SentinelState, States, Promoting
<1> HIDE DEF n
<1> QED
  BY <1>1, <1>2, <1>3, LeadsOn

\* A step that only tells instances what they are to be.
LEMMA OnlyRoles ==
    ASSUME IInv, RoleStep, UNCHANGED <<sen, disk, failing, starts, cast>>
    PROVE  IInv'
<1>1. Typed'
  BY RoleTyped DEF IInv, Typed
<1>2. VotesOK' /\ cast' \subseteq Ballots
  BY DEF IInv, VotesOK, OneVotePerEpoch
<1>3. ASSUME NEW s \in Sentinel PROVE SentinelOK(s)'
  BY <1>2, SentinelLeftAlone
<1> QED
  BY <1>1, <1>2, <1>3 DEF IInv

LEMMA FailoverReconfNextSlaveStep ==
    ASSUME IInv, NEW s \in Sentinel, FailoverReconfNextSlave(s)
    PROVE  IInv'
<1>1. RoleStep
  BY SendSlaveOfStep DEF IInv, FailoverReconfNextSlave
<1> QED
  BY <1>1, OnlyRoles DEF FailoverReconfNextSlave, ghosts

LEMMA ConvertToSlaveStep ==
    ASSUME IInv, NEW s \in Sentinel, NEW r, ConvertToSlave(s, r)
    PROVE  IInv'
<1>1. RoleStep
  BY SendSlaveOfStep DEF IInv, ConvertToSlave
<1> QED
  BY <1>1, OnlyRoles DEF ConvertToSlave, ghosts

LEMMA FailoverDetectEndStep ==
    ASSUME IInv, NEW s \in Sentinel, FailoverDetectEnd(s)
    PROVE  IInv'
<1> DEFINE n == ChangeAddress(sen[s], sen[s].promoted)
<1>1. /\ Good(sen[s], DOMAIN role) /\ DOMAIN role \in SUBSET Instance
      /\ sen[s].state = "reconf_slaves"
  BY KnownInstances DEF IInv, SentinelOK, FailoverDetectEnd
<1>2. sen[s].promoted \in DOMAIN role
  BY <1>1 DEF Good, Promoting
<1>3. RoleStep
  BY SendSlaveOfStep DEF IInv, FailoverDetectEnd
<1>4. disk' \in Flushed(s, n) /\ failing' = failing /\ starts' = starts /\ cast' = cast
      /\ sen' = [sen EXCEPT ![s] = n]
  BY DEF FailoverDetectEnd, ghosts
<1>5. /\ Good(n, DOMAIN role) /\ n.leader_epoch = sen[s].leader_epoch
      /\ n.leader = None /\ n.state = "none" /\ n.peers = sen[s].peers
  BY <1>1, <1>2, ChangeAddressGood
<1> HIDE DEF n
<1> QED
  BY <1>3, <1>4, <1>5, LeadsNoMore

-----------------------------------------------------------------------------
(* The vote of the tick in wait_start *)

LEMMA FavouritesAreRunIds ==
    ASSUME Typed, NEW s \in Sentinel, NEW D, NEW m, Good(m, D)
    PROVE  Favourites(s, m) \subseteq RunId
<1>1. Me(s) \in RunId
  BY DEF Typed, Me, RunId
<1>2. \A t \in Peers(s) : m.peers[t].leader \in RunId \cup {None}
  BY DEF Good, SentinelState, Peer, Peers
<1>3. Candidates(s, m) \subseteq RunId
  BY <1>2 DEF Candidates
<1> QED
  BY <1>1, <1>3 DEF Favourites

\* Whoever counts enough votes for itself has them: those of the others are of
\* its current epoch, which is not before the failover's, and its own is of
\* the failover's.
LEMMA WinnerHasVotes ==
    ASSUME IInv, NEW s \in Sentinel, NEW v, v \in SentinelState,
           v.peers = sen[s].peers, NEW e \in Epoch, v.current_epoch >= e,
           NEW favourite, Wins(s, v, e, favourite),
           cast \subseteq cast', cast' \subseteq Ballots,
           v.leader # None => <<s, v.leader_epoch, v.leader>> \in cast'
    PROVE  Cardinality(Voters(cast', Me(s), e)) >= Needed
<1> DEFINE A == {t \in Peers(s) :
                   /\ v.peers[t].leader = Me(s)
                   /\ v.peers[t].leader_epoch = v.current_epoch}
<1>1. Me(s) # None
  BY NoneIsNobody DEF IInv, Typed, Me, RunId
<1>2. A \subseteq Voters(cast', Me(s), e)
  <2> SUFFICES ASSUME NEW t \in A PROVE t \in Voters(cast', Me(s), e)
    OBVIOUS
  <2>1. t \in Peers(s) /\ sen[s].peers[t].leader = Me(s)
        /\ sen[s].peers[t].leader_epoch = v.current_epoch
    OBVIOUS
  <2>2. <<t, v.current_epoch, Me(s)>> \in cast
    BY <1>1, <2>1 DEF IInv, SentinelOK, Backed
  <2> QED
    BY <2>2 DEF Voters
<1>3. Votes(s, v, Me(s)) = Cardinality(A)
  BY DEF Votes
<1>4. IsFiniteSet(A) /\ s \notin A
  BY <1>2, VotersAtLeast DEF Peers
<1> HIDE DEF A
<1>5. /\ Cardinality(A) \in Nat
      /\ Cardinality(A) <= Cardinality(Voters(cast', Me(s), e))
      /\ Cardinality(Voters(cast', Me(s), e)) \in Nat
  BY <1>2, VotersAtLeast, VotersFinite
<1>6. CASE v.leader = Me(s) /\ v.leader_epoch = e /\ Cardinality(A) + 1 >= Needed
  <2>1. <<s, e, Me(s)>> \in cast'
    BY <1>1, <1>6
  <2>2. s \in Voters(cast', Me(s), e)
    <3>1. e >= e
      BY DEF Epoch
    <3> QED
      BY <2>1, <3>1 DEF Voters
  <2>3. Cardinality(A \cup {s}) = Cardinality(A) + 1
    BY <1>4, FS_AddElement
  <2>4. Cardinality(A \cup {s}) <= Cardinality(Voters(cast', Me(s), e))
    BY <1>2, <2>2, VotersAtLeast
  <2> QED
    BY <1>5, <1>6, <2>3, <2>4, NeededIsNat
<1>7. CASE favourite = Me(s) /\ Votes(s, v, favourite) >= Needed
  BY <1>3, <1>5, <1>7, NeededIsNat
<1>8. \/ v.leader = Me(s) /\ v.leader_epoch = e /\ Cardinality(A) + 1 >= Needed
      \/ favourite = Me(s) /\ Votes(s, v, favourite) >= Needed
  BY <1>3 DEF Wins
<1> QED
  BY <1>6, <1>7, <1>8

LEMMA FlushVoteStep ==
    ASSUME IInv, NEW s \in Sentinel, NEW m, NEW v, Good(v, DOMAIN role),
           m.leader_epoch = sen[s].leader_epoch, disk' \in FlushVote(s, m, v)
    PROVE  /\ disk' \in [Sentinel -> File]
           /\ \A t \in Sentinel \ {s} : disk'[t] = disk[t]
           /\ GoodFile(disk'[s], DOMAIN role) /\ Fits(disk'[s], v, s)
<1>1. Typed /\ SentinelOK(s) /\ DOMAIN role \in SUBSET Instance
  BY KnownInstances DEF IInv
<1>2. CASE disk' = disk /\ (v = m \/ s \in failing)
  BY <1>1, <1>2 DEF Typed, SentinelOK, Fits
<1>3. CASE disk' = [disk EXCEPT ![s] = Saved(v)]
  <2>1. GoodFile(Saved(v), DOMAIN role) /\ Saved(v).leader_epoch = v.leader_epoch
    BY <1>1, SavedGood
  <2> QED
    BY <1>1, <1>3, <2>1 DEF Typed, GoodFile, Fits
<1> QED
  BY <1>2, <1>3 DEF FlushVote, Flushed

LEMMA WaitStartStep ==
    ASSUME IInv, NEW s \in Sentinel, NEW m, Good(m, DOMAIN role),
           m.state = "wait_start", m.peers = sen[s].peers,
           m.leader = sen[s].leader, m.leader_epoch = sen[s].leader_epoch,
           WaitStart(s, m)
    PROVE  IInv'
<1> DEFINE e == m.failover_epoch
<1>1. PICK favourite \in Favourites(s, m) :
        LET v == VoteLeader(m, e, favourite)
            won == Wins(s, v, e, favourite)
        IN /\ \E n \in IF won \/ m.forced
                       THEN {[v EXCEPT !.state = "select_slave"]}
                       ELSE {v, AbortFailover(v)} :
                 sen' = [sen EXCEPT ![s] = n]
           /\ disk' \in FlushVote(s, m, v)
           /\ cast' = Cast(s, v)
           /\ UNCHANGED <<failing, starts, role, disturbed>>
  BY DEF WaitStart
<1> DEFINE v == VoteLeader(m, e, favourite)
           won == Wins(s, v, e, favourite)
<1>2. /\ Typed /\ DOMAIN role \in SUBSET Instance /\ favourite \in RunId
      /\ e \in Epoch /\ RoleStep
  <2>1. favourite \in RunId
    BY FavouritesAreRunIds DEF IInv
  <2> QED
    BY <1>1, <2>1, KnownInstances, RoleUnchanged DEF IInv, Good, SentinelState
<1>3. /\ Good(v, DOMAIN role) /\ v.state = "wait_start" /\ v.peers = sen[s].peers
      /\ v.failover_epoch = e /\ v.forced = m.forced
      /\ v.current_epoch >= e
      /\ \/ v.leader_epoch = sen[s].leader_epoch /\ v.leader = sen[s].leader
         \/ v.leader_epoch > sen[s].leader_epoch /\ v.leader = favourite
  <2> DEFINE D == DOMAIN role
  <2>1. D \in SUBSET Instance /\ Good(m, D) /\ e \in Epoch /\ favourite \in RunId
    BY <1>2
  <2>2. e = m.failover_epoch
    OBVIOUS
  <2> HIDE DEF D, e
  <2>3. /\ Good(v, D) /\ v.state = m.state /\ v.peers = m.peers
        /\ v.failover_epoch = m.failover_epoch /\ v.forced = m.forced
    BY <2>1, VoteLeaderFields
  <2>4. /\ v.current_epoch >= e
        /\ \/ v.leader_epoch = m.leader_epoch /\ v.leader = m.leader
           \/ v.leader_epoch > m.leader_epoch /\ v.leader = favourite
    BY <2>1, VoteLeaderEpochs
  <2> HIDE DEF v
  <2> QED
    BY <2>2, <2>3, <2>4 DEF D
<1>4. /\ disk' \in FlushVote(s, m, v) /\ cast' = Cast(s, v)
      /\ failing' = failing /\ starts' = starts
  BY <1>1
<1>5. PICK n \in IF won \/ m.forced THEN {[v EXCEPT !.state = "select_slave"]}
                 ELSE {v, AbortFailover(v)} :
        sen' = [sen EXCEPT ![s] = n]
  BY <1>1
<1> HIDE DEF v
<1>6. /\ Good(n, DOMAIN role) /\ n.leader_epoch = v.leader_epoch
      /\ n.leader = v.leader /\ n.peers = v.peers
      /\ \/ n.state \notin Acting
         \/ n.forced
         \/ n.failover_epoch = e /\ won
  <2>1. CASE (won \/ m.forced) /\ n = [v EXCEPT !.state = "select_slave"]
    BY <1>3, <2>1 DEF Good, SentinelState, States, Promoting
  <2>2. CASE n = v
    BY <1>3, <2>2 DEF Acting
  <2>3. CASE n = AbortFailover(v)
    <3>1. n.state = "none" /\ n.state \notin Acting
      BY <1>2, <1>3, <2>3, AbortFailoverGood DEF Acting
    <3> QED
      BY <1>2, <1>3, <2>3, <3>1, AbortFailoverGood
  <2> QED
    BY <1>5, <2>1, <2>2, <2>3
<1> HIDE DEF won
<1>7. Cast(s, n) = Cast(s, v) /\ sen'[s] = n
  BY <1>2, <1>5, <1>6 DEF Cast, Typed
<1>8. cast \subseteq cast' /\ cast' \subseteq Ballots => Elected(s)'
  <2>0. HAVE cast \subseteq cast' /\ cast' \subseteq Ballots
  <2>1. CASE n.failover_epoch = e /\ won
    <3>1. v.leader # None => <<s, v.leader_epoch, v.leader>> \in cast'
      <4>1. CASE v.leader_epoch = sen[s].leader_epoch /\ v.leader = sen[s].leader
        BY <4>1, <2>0 DEF IInv, SentinelOK, Backed
      <4>2. CASE v.leader_epoch > sen[s].leader_epoch
        BY <4>2, <1>4 DEF Cast
      <4> QED
        BY <1>3, <4>1, <4>2
    <3>2. Cardinality(Voters(cast', Me(s), e)) >= Needed
      BY <1>2, <1>3, <2>0, <2>1, <3>1, WinnerHasVotes DEF won, Good
    <3>3. Me(s)' = Me(s)
      BY <1>4 DEF Me
    <3> QED
      BY <1>7, <2>1, <3>2, <3>3 DEF Elected
  <2>2. CASE n.state \notin Acting \/ n.forced
    BY <1>7, <2>2 DEF Elected
  <2> QED
    BY <1>6, <2>1, <2>2
<1>9. FileOf(s, n)
  BY <1>3, <1>4, <1>6, FlushVoteStep DEF FileOf, Fits
<1>10. VoteKept(s, n)
  BY <1>2, <1>3, <1>6 DEF VoteKept
<1>11. /\ sen' = [sen EXCEPT ![s] = n] /\ cast' = Cast(s, n)
       /\ failing' = failing /\ starts' = starts
       /\ starts' \in [Sentinel -> Nat]
       /\ \A t \in Sentinel \ {s} : starts'[t] = starts[t]
       /\ \A t \in Peers(s) : n.peers[t] = sen[s].peers[t]
  BY <1>2, <1>3, <1>4, <1>5, <1>6, <1>7 DEF Typed
<1>12. ToldKept(s, n)
  BY <1>11 DEF ToldKept
<1>13. Good(n, DOMAIN role) /\ RoleStep
  BY <1>2, <1>6
<1> HIDE DEF e
<1> QED
  BY <1>8, <1>9, <1>10, <1>11, <1>12, <1>13, OneSentinel

LEMMA StartFailoverIfNeededStep ==
    ASSUME IInv, NEW s \in Sentinel, StartFailoverIfNeeded(s)
    PROVE  IInv'
<1>1. Good(sen[s], DOMAIN role) /\ DOMAIN role \in SUBSET Instance
  BY KnownInstances DEF IInv, SentinelOK
<1> QED
  BY <1>1, StartFailoverGood, WaitStartStep DEF StartFailoverIfNeeded

LEMMA FailoverWaitStartStep ==
    ASSUME IInv, NEW s \in Sentinel, FailoverWaitStart(s)
    PROVE  IInv'
  BY WaitStartStep DEF IInv, SentinelOK, FailoverWaitStart

-----------------------------------------------------------------------------
(* The vote that is asked for *)

\* The sentinel t has voted as in v, or not, and s is told.
LEMMA AskForVoteStep ==
    ASSUME IInv, NEW s \in Sentinel, NEW t \in Peers(s), AskForVote(s, t)
    PROVE  IInv'
<1> DEFINE D == DOMAIN role
           m == sen[t]
           known == m.addr = sen[s].addr
           epoch == sen[s].current_epoch
           x == Me(s)
           v == IF known THEN VoteLeader(m, epoch, x) ELSE m
           told == known /\ v.leader # None
           n == IF told THEN Told(sen[s], t, v.leader, v.leader_epoch) ELSE sen[s]
<1>1. /\ Typed /\ VotesOK /\ RoleStep /\ s \in Sentinel /\ t \in Sentinel /\ s # t
      /\ D \in SUBSET Instance /\ Good(m, D) /\ Good(sen[s], D)
      /\ SentinelOK(s) /\ SentinelOK(t)
  BY KnownInstances, RoleUnchanged DEF IInv, SentinelOK, AskForVote, Peers
<1>2. epoch \in Epoch /\ x \in RunId
  BY <1>1 DEF Good, SentinelState, Typed, Me, RunId
<1>3. /\ sen' = IF told THEN [sen EXCEPT ![t] = v, ![s] = Told(@, t, v.leader, v.leader_epoch)]
                ELSE [sen EXCEPT ![t] = v]
      /\ disk' \in FlushVote(t, m, v) /\ cast' = Cast(t, v)
      /\ failing' = failing /\ starts' = starts
  BY DEF AskForVote
<1> HIDE DEF epoch, x, D, m
<1>4. /\ Good(v, D) /\ v.state = m.state /\ v.peers = m.peers
      /\ v.failover_epoch = m.failover_epoch /\ v.forced = m.forced
  BY <1>1, <1>2, VoteLeaderFields
<1>5. \/ v.leader_epoch = m.leader_epoch /\ v.leader = m.leader
      \/ v.leader_epoch > m.leader_epoch /\ v.leader = x
  BY <1>1, <1>2, VoteLeaderEpochs
<1> HIDE DEF v, known
<1>6. v \in SentinelState /\ v.leader \in Answer /\ v.leader_epoch \in Epoch
  BY <1>4 DEF Good, SentinelState, Answer
<1>7. /\ Good(n, D) /\ n.leader_epoch = sen[s].leader_epoch
      /\ n.leader = sen[s].leader /\ n.state = sen[s].state
      /\ n.forced = sen[s].forced /\ n.failover_epoch = sen[s].failover_epoch
  <2> DEFINE k == sen[s]
             y == v.leader
             e == v.leader_epoch
  <2>1. y \in Answer /\ e \in Epoch /\ Good(k, D)
    BY <1>1, <1>6
  <2> HIDE DEF k, y, e
  <2>2. LET a == Told(k, t, y, e)
        IN /\ Good(a, D) /\ a.leader_epoch = k.leader_epoch
           /\ a.leader = k.leader /\ a.state = k.state
           /\ a.forced = k.forced /\ a.failover_epoch = k.failover_epoch
    BY <1>1, <2>1, ToldGood
  <2> QED
    BY <1>1, <2>2 DEF k, y, e
<1>8. \A u \in Peers(s) :
         \/ n.peers[u] = sen[s].peers[u]
         \/ /\ told /\ u = t /\ n.peers[u].leader = v.leader
            /\ n.peers[u].leader_epoch = v.leader_epoch
  <2> DEFINE p == [leader |-> v.leader, leader_epoch |-> v.leader_epoch,
                   starts |-> sen[s].peers[t].starts]
  <2>1. CASE told
    <3>1. n.peers = [sen[s].peers EXCEPT ![t] = p]
      BY <1>1, <2>1 DEF Told, Good, SentinelState
    <3> HIDE DEF n, told
    <3>2. \A u \in Sentinel : n.peers[u] = IF u = t THEN p ELSE sen[s].peers[u]
      BY <1>1, <3>1 DEF Good, SentinelState
    <3> QED
      BY <2>1, <3>2 DEF Peers
  <2>2. CASE ~told
    BY <2>2
  <2> QED
    BY <2>1, <2>2
<1>9. /\ sen'[t] = v /\ sen'[s] = n /\ sen' \in [Sentinel -> SentinelState]
      /\ \A u \in Sentinel \ {s, t} : sen'[u] = sen[u]
  <2>1. n \in SentinelState
    BY <1>7 DEF Good
  <2>2. sen' = [sen EXCEPT ![t] = v, ![s] = n]
    BY <1>1, <1>3 DEF Typed
  <2> HIDE DEF n
  <2> QED
    BY <1>1, <1>6, <2>1, <2>2 DEF Typed
<1> HIDE DEF n, told
<1>10. VotesOK' /\ cast \subseteq cast'
  <2>1. \A u \in Sentinel \ {t} : sen'[u].leader_epoch = sen[u].leader_epoch
    BY <1>7, <1>9
  <2>2. \/ v.leader_epoch = sen[t].leader_epoch
        \/ v.leader_epoch > sen[t].leader_epoch /\ v.leader \in RunId
    BY <1>2, <1>5 DEF m
  <2>3. sen'[t].leader_epoch = v.leader_epoch
    BY <1>9
  <2> QED
    BY <1>1, <1>3, <1>6, <1>9, <2>1, <2>2, <2>3, CastStep
<1>11. cast' \subseteq Ballots
  BY <1>10 DEF VotesOK
<1>12. v.leader # None => <<t, v.leader_epoch, v.leader>> \in cast'
  <2>1. CASE v.leader_epoch = m.leader_epoch /\ v.leader = m.leader
    BY <2>1, <1>1, <1>10 DEF SentinelOK, Backed, m
  <2>2. CASE v.leader_epoch > m.leader_epoch
    BY <2>2, <1>3 DEF Cast, m
  <2> QED
    BY <1>5, <2>1, <2>2
<1>13. /\ disk' \in [Sentinel -> File]
       /\ \A u \in Sentinel \ {t} : disk'[u] = disk[u]
       /\ GoodFile(disk'[t], D) /\ Fits(disk'[t], v, t)
  <2>1. m.leader_epoch = sen[t].leader_epoch /\ Good(v, DOMAIN role)
    BY <1>4 DEF m, D
  <2> QED
    BY <1>1, <1>3, <2>1, FlushVoteStep DEF D
<1>14. SentinelOK(t)'
  <2>1. Elected(t)'
    <3>1. \/ sen'[t].state \notin Acting
          \/ /\ sen[t].state \in Acting /\ starts' = starts
             /\ sen'[t].forced = sen[t].forced
             /\ sen'[t].failover_epoch = sen[t].failover_epoch
      BY <1>3, <1>4, <1>9 DEF m
    <3> QED
      BY <1>1, <1>10, <1>11, <3>1, StaysElected
  <2>2. \/ sen'[t].leader = None
        \/ <<t, sen'[t].leader_epoch, sen'[t].leader>> \in cast'
    BY <1>9, <1>12
  <2>3. \A u \in Peers(t) : /\ sen'[t].peers[u].leader = sen[t].peers[u].leader
                            /\ sen'[t].peers[u].leader_epoch = sen[t].peers[u].leader_epoch
    BY <1>4, <1>9 DEF m
  <2>4. Good(sen'[t], DOMAIN role) /\ GoodFile(disk'[t], DOMAIN role)
        /\ Fits(disk[t], sen[t], t)'
    BY <1>3, <1>4, <1>9, <1>13 DEF D, Fits
  <2> QED
    BY <1>1, <1>10, <2>1, <2>2, <2>3, <2>4, SentinelChanged
<1>15. SentinelOK(s)'
  <2>1. Elected(s)'
    <3>1. \/ sen'[s].state \notin Acting
          \/ /\ sen[s].state \in Acting /\ starts' = starts
             /\ sen'[s].forced = sen[s].forced
             /\ sen'[s].failover_epoch = sen[s].failover_epoch
      BY <1>3, <1>7, <1>9
    <3> QED
      BY <1>1, <1>10, <1>11, <3>1, StaysElected
  <2>2. sen'[s].leader = sen[s].leader /\ sen'[s].leader_epoch = sen[s].leader_epoch
    BY <1>7, <1>9
  <2>3. \A u \in Peers(s) :
           LET p == sen'[s].peers[u]
           IN \/ p.leader = None
              \/ /\ p.leader = sen[s].peers[u].leader
                 /\ p.leader_epoch = sen[s].peers[u].leader_epoch
              \/ <<u, p.leader_epoch, p.leader>> \in cast'
    BY <1>8, <1>9, <1>12
  <2>4. Good(sen'[s], DOMAIN role) /\ GoodFile(disk'[s], DOMAIN role)
        /\ Fits(disk[s], sen[s], s)'
    BY <1>1, <1>3, <1>7, <1>9, <1>13 DEF D, SentinelOK, Fits
  <2> QED
    BY <1>1, <1>10, <2>1, <2>2, <2>3, <2>4, SentinelChanged
<1>16. ASSUME NEW u \in Sentinel \ {s, t} PROVE SentinelOK(u)'
  <2>1. sen'[u] = sen[u] /\ disk'[u] = disk[u] /\ starts'[u] = starts[u]
        /\ failing \subseteq failing'
    BY <1>3, <1>9, <1>13
  <2> QED
    BY <1>1, <1>10, <1>11, <2>1, SentinelLeftAlone
<1>17. Typed'
  BY <1>1, <1>3, <1>9, <1>13, RoleTyped DEF Typed
<1> QED
  BY <1>10, <1>14, <1>15, <1>16, <1>17 DEF IInv

-----------------------------------------------------------------------------
(* Hello messages and restarts *)

LEMMA ProcessHelloMessageStep ==
    ASSUME IInv, NEW t \in Sentinel, NEW s \in Peers(t), ProcessHelloMessage(t, s)
    PROVE  IInv'
<1> DEFINE D == DOMAIN role
           h == Hello(s)
           m == sen[t]
           new == m.peers[s].starts # h.from[2]
           newer == h.current_epoch > m.current_epoch
           m1 == [m EXCEPT
                    !.peers[s] = IF new THEN NewPeer(h.from[2]) ELSE @,
                    !.current_epoch = IF newer THEN h.current_epoch ELSE @]
           taken == h.config_epoch > m.config_epoch
           m2 == IF taken THEN [m1 EXCEPT !.config_epoch = h.config_epoch] ELSE m1
           switch == taken /\ h.addr # m.addr
           m3 == IF switch THEN ChangeAddress(m2, h.addr) ELSE m2
<1>1. /\ Typed /\ RoleStep /\ s \in Sentinel /\ D \in SUBSET Instance
      /\ Good(m, D) /\ Good(sen[s], D)
  BY KnownInstances, RoleUnchanged
     DEF IInv, SentinelOK, ProcessHelloMessage, Peers
<1>2. /\ h.current_epoch \in Epoch /\ h.config_epoch \in Epoch /\ h.addr \in D
      /\ h.from[2] \in Nat
  <2>1. CurrentMasterAddress(sen[s]) \in D
    BY <1>1 DEF CurrentMasterAddress, Good, Promoting
  <2>2. starts[s] \in Nat /\ sen[s] \in SentinelState
    BY <1>1 DEF Typed
  <2> QED
    BY <2>1, <2>2 DEF Hello, Me, SentinelState
<1>3. /\ sen' = [sen EXCEPT ![t] = m3] /\ starts' = starts /\ cast' = cast
      /\ failing' = failing
      /\ \/ disk' = disk
         \/ disk' \in Flushed(t, m1)
         \/ disk' \in Flushed(t, m3)
  BY DEF ProcessHelloMessage, ghosts
<1> HIDE DEF h
<1> DEFINE p == IF new THEN NewPeer(h.from[2]) ELSE m.peers[s]
           e == IF newer THEN h.current_epoch ELSE m.current_epoch
           c == IF taken THEN h.config_epoch ELSE m.config_epoch
           q == [m.peers EXCEPT ![s] = p]
           M(cc) == [m EXCEPT !.peers = q, !.current_epoch = e, !.config_epoch = cc]
<1>4. /\ p \in Peer /\ (p = m.peers[s] \/ p.leader = None)
      /\ e \in Epoch /\ c \in Epoch /\ m.config_epoch \in Epoch
      /\ m \in SentinelState
  BY <1>1, <1>2 DEF Good, SentinelState, NewPeer, Peer, Epoch
<1>5. m1 = M(m.config_epoch)
  <2>1. m1 = [m EXCEPT !.peers = q, !.current_epoch = e]
    BY <1>4 DEF SentinelState
  <2> HIDE DEF q, e, m1
  <2> QED
    BY <1>4, <2>1 DEF SentinelState
<1>6. m2 = M(c)
  <2> HIDE DEF q, e, m1, new, newer
  <2>1. CASE taken
    BY <2>1, <1>4, <1>5 DEF SentinelState
  <2>2. CASE ~taken
    BY <2>2, <1>5
  <2> QED
    BY <2>1, <2>2
<1> DEFINE Same(n) == /\ Good(n, D) /\ n.leader_epoch = m.leader_epoch
                      /\ n.leader = m.leader /\ n.state = m.state
                      /\ n.forced = m.forced /\ n.failover_epoch = m.failover_epoch
                      /\ n.peers = q
<1> HIDE DEF m1, m2, p, e, c, taken
<1>7. \A cc \in Epoch : Same(M(cc))
  <2> TAKE cc \in Epoch
  <2>1. q \in [Sentinel -> Peer]
    BY <1>4 DEF SentinelState
  <2> HIDE DEF D, m, q
  <2> QED
    BY <1>1, <1>4, <2>1 DEF Good, SentinelState
<1>8. Same(m1) /\ Same(m2)
  BY <1>4, <1>5, <1>6, <1>7
<1>9. \A u \in Peers(t) : q[u].leader = None \/ q[u] = m.peers[u]
  <2>1. \A u \in Sentinel : q[u] = IF u = s THEN p ELSE m.peers[u]
    BY <1>1, <1>4 DEF SentinelState
  <2> HIDE DEF q
  <2> QED
    BY <1>4, <2>1 DEF Peers
<1>10. /\ Good(m3, D) /\ m3.leader_epoch = m.leader_epoch
       /\ m3.leader \in {None, m.leader} /\ m3.peers = q
       /\ \/ m3.state = "none"
          \/ /\ m3.state = m.state /\ m3.forced = m.forced
             /\ m3.failover_epoch = m.failover_epoch
  <2> HIDE DEF q, D, m
  <2>1. CASE switch
    <3> DEFINE a == h.addr
    <3>1. a \in D
      BY <1>2
    <3> HIDE DEF a
    <3>2. LET n == ChangeAddress(m2, a)
          IN Good(n, D) /\ n.leader_epoch = m2.leader_epoch /\ n.leader = None
                        /\ n.state = "none" /\ n.peers = m2.peers
      BY <1>1, <1>8, <3>1, ChangeAddressGood
    <3> QED
      BY <1>8, <2>1, <3>2 DEF a
  <2>2. CASE ~switch
    BY <1>8, <2>2
  <2> QED
    BY <2>1, <2>2
<1>11. "none" \notin Acting
  BY DEF Acting
<1>12. FileKept(t, m3)
  BY <1>3, <1>8, <1>10 DEF FileKept
<1> HIDE DEF m3, q
<1>13. ToldKept(t, m3)
  BY <1>9, <1>10 DEF ToldKept
<1>14. /\ Good(m3, DOMAIN role) /\ m3.leader_epoch = sen[t].leader_epoch
       /\ m3.leader \in {None, sen[t].leader} /\ StillActing(t, m3)
  BY <1>10, <1>11 DEF StillActing
<1> QED
  BY <1>1, <1>3, <1>12, <1>13, <1>14, QuietStep

LEMMA RestartStep ==
    ASSUME IInv, NEW s \in Sentinel, Restart(s)
    PROVE  IInv'
<1> DEFINE known == [t \in Sentinel |-> NewPeer(sen[s].peers[t].starts)]
           n == Loaded(disk[s], known)
<1>1. /\ Typed /\ VotesOK /\ SentinelOK(s) /\ RoleStep
      /\ sen[s] \in SentinelState /\ disk[s] \in File
  BY RoleUnchanged DEF IInv, Restart, Typed
<1>2. /\ sen' = [sen EXCEPT ![s] = n] /\ disk' = disk /\ cast' = cast
      /\ failing' = failing
      /\ starts' = [starts EXCEPT ![s] = starts[s] + 1]
  BY DEF Restart, ghosts
<1>3. known \in [Sentinel -> Peer] /\ \A t \in Sentinel : known[t].leader = None
  BY <1>1 DEF SentinelState, Peer, NewPeer, Epoch
<1> HIDE DEF known
<1>4. /\ n \in SentinelState /\ n.addr = disk[s].addr
      /\ n.slaves = disk[s].slaves /\ n.leader_epoch = disk[s].leader_epoch
      /\ n.leader = None /\ n.state = "none" /\ n.peers = known
  BY <1>1, <1>3 DEF Loaded, SentinelState, File, States, Epoch
<1> HIDE DEF n
<1>5. /\ Good(n, DOMAIN role)
      /\ s \notin failing => n.leader_epoch = sen[s].leader_epoch
  BY <1>1, <1>4 DEF SentinelOK, Good, GoodFile, Promoting, Fits
<1>6. \A t \in Peers(s) : n.peers[t].leader = None
  BY <1>3, <1>4 DEF Peers
<1>7. Elected(s)'
  <2>1. "none" \notin Acting
    BY DEF Acting
  <2> QED
    BY <1>1, <1>2, <1>4, <2>1 DEF Elected, Typed
<1>8. /\ sen' \in [Sentinel -> SentinelState] /\ sen'[s] = n
      /\ \A t \in Sentinel \ {s} : sen'[t] = sen[t] /\ starts'[t] = starts[t]
      /\ \A t \in Sentinel \ failing : sen'[t].leader_epoch = sen[t].leader_epoch
      /\ starts' \in [Sentinel -> Nat]
  BY <1>1, <1>2, <1>4, <1>5 DEF Typed
<1>9. VotesOK' /\ cast' \subseteq Ballots
  <2>1. \A v \in cast : v[1] \in Sentinel
    BY <1>1 DEF VotesOK, Ballots
  <2> QED
    BY <1>1, <1>2, <1>8, <2>1 DEF VotesOK, OneVotePerEpoch
<1>10. SentinelOK(s)'
  <2>1. /\ Good(sen'[s], DOMAIN role) /\ GoodFile(disk'[s], DOMAIN role)
        /\ Fits(disk[s], sen[s], s)'
        /\ sen'[s].leader = None
        /\ \A t \in Peers(s) : sen'[s].peers[t].leader = None
    BY <1>1, <1>2, <1>4, <1>5, <1>6, <1>8 DEF SentinelOK, Fits
  <2> QED
    BY <1>1, <1>2, <1>7, <2>1, SentinelChanged
<1>11. ASSUME NEW t \in Sentinel \ {s} PROVE SentinelOK(t)'
  BY <1>1, <1>2, <1>8, <1>9, SentinelLeftAlone
<1>12. Typed'
  BY <1>1, <1>2, <1>8, RoleTyped DEF Typed
<1> QED
  BY <1>9, <1>10, <1>11, <1>12 DEF IInv

LEMMA FlushFailsStep ==
    ASSUME IInv, NEW s \in Sentinel, FlushFails(s)
    PROVE  IInv'
<1>1. /\ UNCHANGED <<sen, disk, starts, role, cast>>
      /\ failing' = failing \cup {s}
  BY DEF FlushFails
<1>2. RoleStep
  BY <1>1, RoleUnchanged DEF IInv
<1>3. Typed'
  BY <1>1 DEF IInv, Typed
<1>4. VotesOK' /\ cast' \subseteq Ballots
  BY <1>1 DEF IInv, VotesOK, OneVotePerEpoch
<1>5. ASSUME NEW t \in Sentinel PROVE SentinelOK(t)'
  BY <1>1, <1>2, <1>4, SentinelLeftAlone
<1> QED
  BY <1>3, <1>4, <1>5 DEF IInv

-----------------------------------------------------------------------------
(* The theorems *)

LEMMA InitIInv == Init => IInv
<1> SUFFICES ASSUME Init PROVE IInv
  OBVIOUS
<1>1. PICK slaves \in FirstSlaves :
        /\ disk = [s \in Sentinel |-> Blank(slaves)]
        /\ sen = [s \in Sentinel |->
                    Loaded(Blank(slaves), [t \in Sentinel |-> NewPeer(0)])]
        /\ role = [r \in {FirstMaster} \cup slaves |->
                      IF r = FirstMaster THEN "master" ELSE "slave"]
  BY DEF Init
<1> DEFINE D == {FirstMaster} \cup slaves
           d == Blank(slaves)
           known == [t \in Sentinel |-> NewPeer(0)]
           m == Loaded(d, known)
<1>2. /\ slaves \in SUBSET Instance /\ FirstMaster \in Instance
      /\ FirstMaster \notin slaves
  BY SentinelAssumption
<1>3. known \in [Sentinel -> Peer] /\ \A t \in Sentinel : known[t].leader = None
  BY DEF NewPeer, Peer, Epoch
<1>4. /\ d \in File /\ d.addr = FirstMaster /\ d.slaves = slaves
      /\ d.leader_epoch = 0
  BY <1>2 DEF Blank, File, Epoch
<1>5. DOMAIN role = D /\ slaves = D \ {FirstMaster}
  BY <1>1, <1>2
<1>6. /\ \A s \in Sentinel : disk[s] = d /\ sen[s] = m
      /\ role \in [D -> {"master", "slave"}]
  BY <1>1
<1> HIDE DEF known, d
<1>7. /\ m \in SentinelState /\ m.addr = FirstMaster /\ m.slaves = slaves
      /\ m.leader_epoch = 0 /\ m.leader = None /\ m.state = "none"
      /\ m.peers = known
  BY <1>3, <1>4 DEF Loaded, SentinelState, File, States, Epoch
<1> HIDE DEF m
<1>8. Typed
  <2>1. disk = [s \in Sentinel |-> d] /\ sen = [s \in Sentinel |-> m]
    BY <1>1 DEF d, m, known
  <2> QED
    BY <1>4, <1>6, <1>7, <2>1 DEF Typed, Init
<1>9. VotesOK
  BY DEF VotesOK, OneVotePerEpoch, Init
<1>10. ASSUME NEW s \in Sentinel PROVE SentinelOK(s)
  <2>1. Good(sen[s], DOMAIN role) /\ GoodFile(disk[s], DOMAIN role)
    BY <1>4, <1>5, <1>6, <1>7 DEF Good, GoodFile, Promoting
  <2>2. Elected(s)
    BY <1>6, <1>7 DEF Elected, Acting
  <2>3. /\ sen[s].leader = None /\ disk[s].leader_epoch = sen[s].leader_epoch
        /\ \A t \in Peers(s) : sen[s].peers[t].leader = None
    BY <1>3, <1>4, <1>6, <1>7 DEF Peers
  <2> QED
    BY <2>1, <2>2, <2>3 DEF SentinelOK, Backed, Fits
<1> QED
  BY <1>8, <1>9, <1>10 DEF IInv

LEMMA StutterIInv == IInv /\ UNCHANGED vars => IInv'
<1> SUFFICES ASSUME IInv, UNCHANGED vars PROVE IInv'
  OBVIOUS
<1>1. RoleStep
  BY RoleUnchanged DEF IInv, vars
<1> QED
  BY <1>1, OnlyRoles DEF vars, ghosts

LEMMA NextIInv == IInv /\ [Next]_vars => IInv'
<1> SUFFICES ASSUME IInv, [Next]_vars PROVE IInv'
  OBVIOUS
<1>1. ASSUME NEW s \in Sentinel, Tick(s) PROVE IInv'
  BY <1>1, StartFailoverIfNeededStep, ForceFailoverStep, FailoverWaitStartStep,
     FailoverSelectSlaveStep, FailoverSendSlaveOfNoOneStep, FailoverTimeoutStep,
     PromotedSlaveStep, FailoverReconfNextSlaveStep, FailoverDetectEndStep
     DEF Tick
<1>2. ASSUME NEW s \in Sentinel, Restart(s) \/ FlushFails(s) PROVE IInv'
  BY <1>2, RestartStep, FlushFailsStep
<1>3. ASSUME NEW s \in Sentinel, NEW t \in Peers(s), Pair(s, t) PROVE IInv'
  BY <1>3, AskForVoteStep, ForgetReplyStep, ProcessHelloMessageStep DEF Pair
<1>4. ASSUME NEW s \in Sentinel, NEW r \in DOMAIN role, ConvertToSlave(s, r)
      PROVE  IInv'
  BY <1>4, ConvertToSlaveStep
<1>5. CASE UNCHANGED vars
  BY <1>5, StutterIInv
<1> QED
  BY <1>1, <1>2, <1>3, <1>4, <1>5 DEF Next

\* What the other theorems follow from: what every sentinel holds and has
\* written fits the votes that were given, whatever ticks, messages and
\* restarts of sentinel.c came before.
THEOREM Invariance == Spec => []IInv
  BY InitIInv, NextIInv, PTL DEF Spec

\* The types of the memory, the files and the roles.
THEOREM TypeInvariant == Spec => []TypeOK
<1>1. IInv => TypeOK
  BY DEF IInv, Typed, VotesOK, TypeOK, File, Ballots
<1> QED
  BY <1>1, Invariance, PTL

\* Nobody whose file can be written votes twice in an epoch
\* (sentinelVoteLeader), for any number of sentinels, restarts and failovers.
THEOREM OneVotePerEpochAlways == Spec => []OneVotePerEpoch
<1>1. IInv => OneVotePerEpoch
  BY DEF IInv, VotesOK
<1> QED
  BY <1>1, Invariance, PTL

\* Who acts as the leader has the votes of a majority and of the quorum
\* (sentinelGetLeader), unless the failover was forced by the operator.
THEOREM LeaderHasVotesAlways == Spec => []LeaderHasVotes
<1>1. IInv => LeaderHasVotes
  BY DEF IInv, SentinelOK, Elected, Voters, LeaderHasVotes
<1> QED
  BY <1>1, Invariance, PTL

\* No switch, promotion or restart makes a sentinel or its file forget an
\* instance (sentinelResetMasterAndChangeAddress, rewriteConfigSentinelOption).
THEOREM NoInstanceForgottenAlways == Spec => []NoInstanceForgotten
<1>1. IInv => NoInstanceForgotten
  BY DEF IInv, SentinelOK, Good, GoodFile, NoInstanceForgotten
<1> QED
  BY <1>1, Invariance, PTL

-----------------------------------------------------------------------------
(* The leader of an epoch *)

\* A sentinel that was elected, and not told by the operator.
Leads(s) == sen[s].state \in Acting /\ ~sen[s].forced

\* Who voted for x in the epoch e, when the votes c were given.
VotersIn(c, x, e) == {v[1] : v \in {w \in c : w[3] = x /\ w[2] = e}}

\* What sentinelGetLeader does not see to: whoever comes to lead counted the
\* votes of the others in the epoch of its failover, the one of its own vote.
LeadsInItsEpoch ==
    \A s \in Sentinel :
       Leads(s)' /\ ~Leads(s) => sen'[s].current_epoch = sen'[s].failover_epoch

LeadersElected ==
    \A s \in Sentinel :
       Leads(s) =>
          Cardinality(VotersIn(cast, Me(s), sen[s].failover_epoch)) >= Needed

\* No two elected leaders of failovers of the same epoch.
OneLeader ==
    \A s, t \in Sentinel :
       Leads(s) /\ Leads(t) /\ sen[s].failover_epoch = sen[t].failover_epoch
          => s = t

\* The majority of the sentinels voted for a leader in one and the same epoch.
LeaderOfOneEpoch ==
    \A s \in Sentinel :
       Leads(s) => \E epoch \in {v[2] : v \in cast} :
                      Cardinality(VotersIn(cast, Me(s), epoch)) >= Needed

LEMMA VotersInFinite ==
    ASSUME NEW c \in SUBSET Ballots, NEW x, NEW e,
           NEW A, A \subseteq VotersIn(c, x, e)
    PROVE  /\ IsFiniteSet(A) /\ A \subseteq Sentinel
           /\ Cardinality(A) \in Nat
           /\ Cardinality(VotersIn(c, x, e)) \in Nat
           /\ Cardinality(A) <= Cardinality(VotersIn(c, x, e))
<1>1. VotersIn(c, x, e) \subseteq Sentinel
  BY DEF VotersIn, Ballots
<1>2. IsFiniteSet(VotersIn(c, x, e))
  BY <1>1, SentinelAssumption, FS_Subset
<1>3. IsFiniteSet(A) /\ Cardinality(A) <= Cardinality(VotersIn(c, x, e))
  BY <1>2, FS_Subset
<1> QED
  BY <1>1, <1>2, <1>3, FS_CardinalityType

\* Two sets of voters, each a majority, have a sentinel in common.
LEMMA MajoritiesMeet ==
    ASSUME NEW A \in SUBSET Sentinel, NEW B \in SUBSET Sentinel,
           Cardinality(A) >= Needed, Cardinality(B) >= Needed
    PROVE  A \cap B # {}
<1>1. IsFiniteSet(Sentinel) /\ IsFiniteSet(A) /\ IsFiniteSet(B)
  BY SentinelAssumption, FS_Subset
<1>2. IsFiniteSet(A \cup B) /\ IsFiniteSet(A \cap B)
  BY <1>1, FS_Union, FS_Intersection
<1> DEFINE n == Cardinality(Sentinel)
           a == Cardinality(A)
           b == Cardinality(B)
           u == Cardinality(A \cup B)
           i == Cardinality(A \cap B)
<1>3. n \in Nat /\ a \in Nat /\ b \in Nat /\ u \in Nat /\ i \in Nat
  BY <1>1, <1>2, FS_CardinalityType
<1>4. u = a + b - i
  BY <1>1, FS_Union
<1>5. u <= n
  <2>1. A \cup B \subseteq Sentinel
    OBVIOUS
  <2> QED
    BY <1>1, <2>1, FS_Subset
<1>6. Quorum \in Nat /\ Needed \in Nat
  <2>1. Quorum \in 1..n
    BY SentinelAssumption
  <2> HIDE DEF n
  <2> QED
    BY <1>3, <2>1, NeededIsNat
<1>7. Needed >= n \div 2 + 1
  <2> DEFINE k == n \div 2 + 1
  <2>1. k \in Nat /\ Needed = IF k > Quorum THEN k ELSE Quorum
    BY <1>3 DEF Needed
  <2> HIDE DEF k
  <2>2. Needed >= k
    BY <1>6, <2>1
  <2> QED
    BY <2>2 DEF k
<1>8. a >= Needed /\ b >= Needed
  OBVIOUS
<1> HIDE DEF n, a, b, u, i
<1>9. i # 0
  BY <1>3, <1>4, <1>5, <1>6, <1>7, <1>8
<1>10. CASE A \cap B = {}
  BY <1>9, <1>10, FS_EmptySet DEF i
<1> QED
  BY <1>10

\* Whoever wins with the votes of the epoch of its failover has them: as
\* WinnerHasVotes, for one epoch.
LEMMA WinnerHasVotesInEpoch ==
    ASSUME IInv, NEW s \in Sentinel, NEW v, v \in SentinelState,
           v.peers = sen[s].peers, NEW e \in Epoch, v.current_epoch = e,
           NEW favourite, Wins(s, v, e, favourite),
           cast \subseteq cast', cast' \subseteq Ballots,
           v.leader # None => <<s, v.leader_epoch, v.leader>> \in cast'
    PROVE  Cardinality(VotersIn(cast', Me(s), e)) >= Needed
<1> DEFINE A == {t \in Peers(s) :
                   /\ v.peers[t].leader = Me(s)
                   /\ v.peers[t].leader_epoch = v.current_epoch}
<1>1. Me(s) # None
  BY NoneIsNobody DEF IInv, Typed, Me, RunId
<1>2. A \subseteq VotersIn(cast', Me(s), e)
  <2> SUFFICES ASSUME NEW t \in A PROVE t \in VotersIn(cast', Me(s), e)
    OBVIOUS
  <2>1. t \in Peers(s) /\ sen[s].peers[t].leader = Me(s)
        /\ sen[s].peers[t].leader_epoch = v.current_epoch
    OBVIOUS
  <2>2. <<t, e, Me(s)>> \in cast
    BY <1>1, <2>1 DEF IInv, SentinelOK, Backed
  <2> QED
    BY <2>2 DEF VotersIn
<1>3. Votes(s, v, Me(s)) = Cardinality(A)
  BY DEF Votes
<1>4. s \notin A
  BY DEF Peers
<1> HIDE DEF A
<1>5. /\ IsFiniteSet(A) /\ Cardinality(A) \in Nat
      /\ Cardinality(A) <= Cardinality(VotersIn(cast', Me(s), e))
      /\ Cardinality(VotersIn(cast', Me(s), e)) \in Nat
  BY <1>2, VotersInFinite
<1>6. CASE v.leader = Me(s) /\ v.leader_epoch = e /\ Cardinality(A) + 1 >= Needed
  <2>1. <<s, e, Me(s)>> \in cast'
    BY <1>1, <1>6
  <2>2. A \cup {s} \subseteq VotersIn(cast', Me(s), e)
    BY <1>2, <2>1 DEF VotersIn
  <2>3. Cardinality(A \cup {s}) = Cardinality(A) + 1
    BY <1>4, <1>5, FS_AddElement
  <2>4. Cardinality(A \cup {s}) <= Cardinality(VotersIn(cast', Me(s), e))
    BY <2>2, VotersInFinite
  <2> QED
    BY <1>5, <1>6, <2>3, <2>4, NeededIsNat
<1>7. CASE favourite = Me(s) /\ Votes(s, v, favourite) >= Needed
  BY <1>3, <1>5, <1>7, NeededIsNat
<1>8. \/ v.leader = Me(s) /\ v.leader_epoch = e /\ Cardinality(A) + 1 >= Needed
      \/ favourite = Me(s) /\ Votes(s, v, favourite) >= Needed
  BY <1>3 DEF Wins
<1> QED
  BY <1>6, <1>7, <1>8

\* What most steps do: who leads after them led before, in the same failover.
LeadKept(s) ==
    Leads(s)' => /\ Leads(s) /\ Me(s)' = Me(s)
                 /\ sen'[s].failover_epoch = sen[s].failover_epoch

LEMMA KeptIsElected ==
    ASSUME IInv, IInv', LeadersElected, cast \subseteq cast', NEW s \in Sentinel,
           LeadKept(s)
    PROVE  (Leads(s) =>
              Cardinality(VotersIn(cast, Me(s), sen[s].failover_epoch)) >= Needed)'
<1> SUFFICES ASSUME Leads(s)'
             PROVE  Cardinality(VotersIn(cast', Me(s)', sen'[s].failover_epoch)) >= Needed
  OBVIOUS
<1>1. PICK e : e = sen[s].failover_epoch
  OBVIOUS
<1>2. PICK x : x = Me(s)
  OBVIOUS
<1>3. Leads(s) /\ Me(s)' = x /\ sen'[s].failover_epoch = e
  BY <1>1, <1>2 DEF LeadKept
<1>4. Cardinality(VotersIn(cast, x, e)) >= Needed
  BY <1>1, <1>2, <1>3 DEF LeadersElected
<1>5. cast' \in SUBSET Ballots
  BY DEF IInv, VotesOK
<1>6. VotersIn(cast, x, e) \subseteq VotersIn(cast', x, e)
  BY DEF VotersIn
<1>7. /\ Cardinality(VotersIn(cast, x, e)) \in Nat
      /\ Cardinality(VotersIn(cast', x, e)) \in Nat
      /\ Cardinality(VotersIn(cast, x, e)) <= Cardinality(VotersIn(cast', x, e))
  BY <1>5, <1>6, VotersInFinite
<1>8. Cardinality(VotersIn(cast', x, e)) >= Needed
  BY <1>4, <1>7, NeededIsNat
<1> QED
  BY <1>3, <1>8

LEMMA OneKeeps ==
    ASSUME Typed, NEW s \in Sentinel, NEW n, sen' = [sen EXCEPT ![s] = n],
           StillActing(s, n), starts' = starts
    PROVE  \A u \in Sentinel : LeadKept(u)
<1> SUFFICES ASSUME NEW u \in Sentinel, Leads(u)'
             PROVE  /\ Leads(u) /\ Me(u)' = Me(u)
                    /\ sen'[u].failover_epoch = sen[u].failover_epoch
  BY DEF LeadKept
<1>1. Me(u)' = Me(u)
  BY DEF Me
<1>2. sen'[s] = n /\ \A t \in Sentinel \ {s} : sen'[t] = sen[t]
  BY DEF Typed
<1> QED
  BY <1>1, <1>2 DEF StillActing, Leads

LEMMA TicksKeep ==
    ASSUME IInv, NEW s \in Sentinel,
           \/ ForceFailover(s) \/ FailoverSelectSlave(s)
           \/ FailoverSendSlaveOfNoOne(s) \/ FailoverTimeout(s)
           \/ PromotedSlave(s) \/ FailoverReconfNextSlave(s)
           \/ FailoverDetectEnd(s)
    PROVE  cast' = cast /\ \A u \in Sentinel : LeadKept(u)
<1>1. /\ Typed /\ sen[s] \in SentinelState /\ "none" \notin Acting
      /\ {"select_slave", "send_slaveof_noone", "wait_promotion",
          "reconf_slaves"} \subseteq Acting
  BY DEF IInv, Typed, Acting, States
<1>2. CASE ForceFailover(s)
  <2> DEFINE n == [StartFailover(sen[s]) EXCEPT !.forced = TRUE]
  <2>1. sen' = [sen EXCEPT ![s] = n] /\ starts' = starts /\ cast' = cast
    BY <1>1, <1>2 DEF ForceFailover, Typed
  <2>2. n.forced
    BY <1>1 DEF StartFailover, SentinelState
  <2> HIDE DEF n
  <2> QED
    BY <1>1, <2>1, <2>2, OneKeeps DEF StillActing
<1>3. CASE FailoverSelectSlave(s)
  <2>1. starts' = starts /\ cast' = cast /\ sen[s].state \in Acting
    BY <1>1, <1>3 DEF FailoverSelectSlave, ghosts
  <2>2. CASE sen' = [sen EXCEPT ![s] = AbortFailover(sen[s])]
    <3>1. AbortFailover(sen[s]).state \notin Acting
      BY <1>1 DEF AbortFailover, SentinelState
    <3> QED
      BY <1>1, <2>1, <2>2, <3>1, OneKeeps DEF StillActing
  <2>3. CASE \E r \in sen[s].slaves :
                sen' = [sen EXCEPT ![s].state = "send_slaveof_noone",
                                   ![s].promoted = r]
    <3>1. PICK r \in sen[s].slaves :
            sen' = [sen EXCEPT ![s].state = "send_slaveof_noone",
                               ![s].promoted = r]
      BY <2>3
    <3> DEFINE n == [sen[s] EXCEPT !.state = "send_slaveof_noone", !.promoted = r]
    <3>2. sen' = [sen EXCEPT ![s] = n]
      BY <1>1, <3>1 DEF Typed
    <3>3. n.forced = sen[s].forced /\ n.failover_epoch = sen[s].failover_epoch
      BY <1>1 DEF SentinelState
    <3> HIDE DEF n
    <3> QED
      BY <1>1, <2>1, <3>2, <3>3, OneKeeps DEF StillActing
  <2> QED
    BY <1>3, <2>1, <2>2, <2>3 DEF FailoverSelectSlave
<1>4. CASE FailoverSendSlaveOfNoOne(s)
  <2> DEFINE n == [sen[s] EXCEPT !.state = "wait_promotion"]
  <2>1. /\ starts' = starts /\ cast' = cast /\ sen[s].state \in Acting
        /\ sen' = [sen EXCEPT ![s] = n]
    BY <1>1, <1>4 DEF FailoverSendSlaveOfNoOne, ghosts, Typed
  <2>2. n.forced = sen[s].forced /\ n.failover_epoch = sen[s].failover_epoch
    BY <1>1 DEF SentinelState
  <2> HIDE DEF n
  <2> QED
    BY <1>1, <2>1, <2>2, OneKeeps DEF StillActing
<1>5. CASE FailoverTimeout(s)
  <2>1. AbortFailover(sen[s]).state \notin Acting
    BY <1>1 DEF AbortFailover, SentinelState
  <2>2. /\ starts' = starts /\ cast' = cast
        /\ sen' = [sen EXCEPT ![s] = AbortFailover(sen[s])]
    BY <1>5 DEF FailoverTimeout, ghosts
  <2> QED
    BY <1>1, <2>1, <2>2, OneKeeps DEF StillActing
<1>6. CASE PromotedSlave(s)
  <2> DEFINE n == [sen[s] EXCEPT !.config_epoch = sen[s].failover_epoch,
                                 !.state = "reconf_slaves"]
  <2>1. /\ starts' = starts /\ cast' = cast /\ sen[s].state \in Acting
        /\ sen' = [sen EXCEPT ![s] = n]
    BY <1>1, <1>6 DEF PromotedSlave
  <2>2. n.forced = sen[s].forced /\ n.failover_epoch = sen[s].failover_epoch
    BY <1>1 DEF SentinelState
  <2> HIDE DEF n
  <2> QED
    BY <1>1, <2>1, <2>2, OneKeeps DEF StillActing
<1>7. CASE FailoverReconfNextSlave(s)
  BY <1>7 DEF FailoverReconfNextSlave, ghosts, LeadKept, Leads, Me
<1>8. CASE FailoverDetectEnd(s)
  <2> DEFINE n == ChangeAddress(sen[s], sen[s].promoted)
  <2>1. n.state = "none"
    BY <1>1 DEF ChangeAddress, SentinelState
  <2>2. starts' = starts /\ cast' = cast /\ sen' = [sen EXCEPT ![s] = n]
    BY <1>8 DEF FailoverDetectEnd, ghosts
  <2> HIDE DEF n
  <2> QED
    BY <1>1, <2>1, <2>2, OneKeeps DEF StillActing
<1> QED
  BY <1>2, <1>3, <1>4, <1>5, <1>6, <1>7, <1>8

LEMMA RestartKeeps ==
    ASSUME IInv, NEW s \in Sentinel, Restart(s)
    PROVE  cast' = cast /\ \A u \in Sentinel : LeadKept(u)
<1> DEFINE n == Loaded(disk[s], [t \in Sentinel |->
                                   NewPeer(sen[s].peers[t].starts)])
<1>1. /\ Typed /\ sen' = [sen EXCEPT ![s] = n] /\ cast' = cast
      /\ starts' = [starts EXCEPT ![s] = @ + 1]
  BY DEF IInv, Restart, ghosts
<1>2. n.state \notin Acting
  BY DEF Loaded, Acting
<1> HIDE DEF n
<1> SUFFICES ASSUME NEW u \in Sentinel PROVE LeadKept(u)
  BY <1>1
<1>3. CASE u = s
  BY <1>1, <1>2, <1>3 DEF LeadKept, Leads, Typed
<1>4. CASE u # s
  BY <1>1, <1>4 DEF LeadKept, Leads, Typed, Me
<1> QED
  BY <1>3, <1>4

LEMMA FlushFailsKeeps ==
    ASSUME NEW s \in Sentinel, FlushFails(s)
    PROVE  cast' = cast /\ \A u \in Sentinel : LeadKept(u)
  BY DEF FlushFails, LeadKept, Leads, Me

LEMMA ForgetReplyKeeps ==
    ASSUME IInv, NEW s \in Sentinel, NEW t \in Peers(s), ForgetReply(s, t)
    PROVE  cast' = cast /\ \A u \in Sentinel : LeadKept(u)
<1>1. /\ Typed /\ sen[s] \in SentinelState /\ starts' = starts /\ cast' = cast
      /\ sen' = [sen EXCEPT ![s] = Told(sen[s], t, None, 0)]
  BY DEF IInv, Typed, ForgetReply, ghosts
<1> DEFINE n == Told(sen[s], t, None, 0)
<1>2. /\ n.state = sen[s].state /\ n.forced = sen[s].forced
      /\ n.failover_epoch = sen[s].failover_epoch
  BY <1>1 DEF Told, SentinelState
<1> HIDE DEF n
<1> QED
  BY <1>1, <1>2, OneKeeps DEF StillActing, n

LEMMA ConvertToSlaveKeeps ==
    ASSUME NEW s \in Sentinel, NEW r, ConvertToSlave(s, r)
    PROVE  cast' = cast /\ \A u \in Sentinel : LeadKept(u)
  BY DEF ConvertToSlave, ghosts, LeadKept, Leads, Me

LEMMA ProcessHelloMessageKeeps ==
    ASSUME IInv, NEW t \in Sentinel, NEW s \in Peers(t), ProcessHelloMessage(t, s)
    PROVE  cast' = cast /\ \A u \in Sentinel : LeadKept(u)
<1> DEFINE h == Hello(s)
           m == sen[t]
           new == m.peers[s].starts # h.from[2]
           newer == h.current_epoch > m.current_epoch
           p == [m.peers EXCEPT ![s] = IF new THEN NewPeer(h.from[2]) ELSE @]
           c == IF newer THEN h.current_epoch ELSE m.current_epoch
           m1 == [m EXCEPT
                    !.peers[s] = IF new THEN NewPeer(h.from[2]) ELSE @,
                    !.current_epoch = IF newer THEN h.current_epoch ELSE @]
           taken == h.config_epoch > m.config_epoch
           m2 == IF taken THEN [m1 EXCEPT !.config_epoch = h.config_epoch] ELSE m1
           switch == taken /\ h.addr # m.addr
           m3 == IF switch THEN ChangeAddress(m2, h.addr) ELSE m2
<1>1. Typed /\ m \in SentinelState
  BY DEF IInv, Typed
<1>2. sen' = [sen EXCEPT ![t] = m3] /\ starts' = starts /\ cast' = cast
  BY DEF ProcessHelloMessage, ghosts
<1>3. m1 = [m EXCEPT !.peers = p, !.current_epoch = c]
  BY <1>1 DEF SentinelState
<1> HIDE DEF h, p, c, m1, taken
<1>4. DOMAIN m1 = DOMAIN m /\ DOMAIN m2 = DOMAIN m
      /\ m2.state = m.state /\ m2.forced = m.forced
      /\ m2.failover_epoch = m.failover_epoch
  BY <1>1, <1>3 DEF SentinelState
<1>5. "state" \in DOMAIN m2
  BY <1>1, <1>4 DEF SentinelState
<1> HIDE DEF m2
<1>6. switch => m3.state = "none"
  BY <1>5 DEF ChangeAddress
<1>7. StillActing(t, m3)
  BY <1>4, <1>6 DEF StillActing, Acting
<1> HIDE DEF m3
<1> QED
  BY <1>1, <1>2, <1>7, OneKeeps

LEMMA AskForVoteKeeps ==
    ASSUME IInv, NEW s \in Sentinel, NEW t \in Peers(s), AskForVote(s, t)
    PROVE  cast \subseteq cast' /\ \A u \in Sentinel : LeadKept(u)
<1> DEFINE m == sen[t]
           known == m.addr = sen[s].addr
           v == IF known THEN VoteLeader(m, sen[s].current_epoch, Me(s)) ELSE m
           told == known /\ v.leader # None
           n == Told(sen[s], t, v.leader, v.leader_epoch)
<1>1. /\ Typed /\ m \in SentinelState /\ sen[s] \in SentinelState
      /\ s \in Sentinel /\ t \in Sentinel /\ s # t
  BY DEF IInv, Typed, Peers
<1>2. /\ sen' = IF told THEN [sen EXCEPT ![t] = v, ![s] = Told(@, t, v.leader, v.leader_epoch)]
                ELSE [sen EXCEPT ![t] = v]
      /\ cast' = Cast(t, v) /\ starts' = starts
  BY DEF AskForVote
<1>3. /\ v.state = m.state /\ v.forced = m.forced
      /\ v.failover_epoch = m.failover_epoch
  BY <1>1 DEF VoteLeader, SentinelState
<1>4. /\ n.state = sen[s].state /\ n.forced = sen[s].forced
      /\ n.failover_epoch = sen[s].failover_epoch
  BY <1>1 DEF Told, SentinelState
<1>5. /\ sen'[t] = v /\ sen'[s] \in {n, sen[s]}
      /\ \A u \in Sentinel \ {s, t} : sen'[u] = sen[u]
  <2> HIDE DEF v
  <2> QED
    BY <1>1, <1>2 DEF Typed
<1> HIDE DEF v, n
<1>6. \A u \in Sentinel :
         /\ sen'[u].state = sen[u].state /\ sen'[u].forced = sen[u].forced
         /\ sen'[u].failover_epoch = sen[u].failover_epoch
         /\ Me(u)' = Me(u)
  BY <1>2, <1>3, <1>4, <1>5 DEF Me
<1> QED
  BY <1>2, <1>6 DEF LeadKept, Leads, Cast

\* The only step that makes a leader is the tick in which it wins.
LEMMA WaitStartElects ==
    ASSUME IInv, IInv', LeadsInItsEpoch, NEW s \in Sentinel, ~Leads(s),
           NEW m, Good(m, DOMAIN role),
           m.state = "wait_start", m.peers = sen[s].peers,
           m.leader = sen[s].leader, m.leader_epoch = sen[s].leader_epoch,
           WaitStart(s, m)
    PROVE  /\ cast \subseteq cast'
           /\ \A u \in Sentinel \ {s} : LeadKept(u)
           /\ (Leads(s) => Cardinality(VotersIn(cast, Me(s),
                              sen[s].failover_epoch)) >= Needed)'
<1> DEFINE e == m.failover_epoch
<1>1. PICK favourite \in Favourites(s, m) :
        LET v == VoteLeader(m, e, favourite)
            won == Wins(s, v, e, favourite)
        IN /\ \E n \in IF won \/ m.forced
                       THEN {[v EXCEPT !.state = "select_slave"]}
                       ELSE {v, AbortFailover(v)} :
                 sen' = [sen EXCEPT ![s] = n]
           /\ disk' \in FlushVote(s, m, v)
           /\ cast' = Cast(s, v)
           /\ UNCHANGED <<failing, starts, role, disturbed>>
  BY DEF WaitStart
<1> DEFINE v == VoteLeader(m, e, favourite)
           won == Wins(s, v, e, favourite)
<1>2. /\ Typed /\ DOMAIN role \in SUBSET Instance /\ favourite \in RunId
      /\ e \in Epoch
  <2>1. favourite \in RunId
    BY FavouritesAreRunIds DEF IInv
  <2> QED
    BY <2>1, KnownInstances DEF IInv, Good, SentinelState
<1>3. /\ Good(v, DOMAIN role) /\ v.state = "wait_start" /\ v.peers = sen[s].peers
      /\ v.failover_epoch = e /\ v.forced = m.forced
      /\ \/ v.leader_epoch = sen[s].leader_epoch /\ v.leader = sen[s].leader
         \/ v.leader_epoch > sen[s].leader_epoch /\ v.leader = favourite
  <2> DEFINE D == DOMAIN role
  <2>1. D \in SUBSET Instance /\ Good(m, D) /\ e \in Epoch /\ favourite \in RunId
    BY <1>2
  <2>2. e = m.failover_epoch
    OBVIOUS
  <2> HIDE DEF D, e
  <2>3. /\ Good(v, D) /\ v.state = m.state /\ v.peers = m.peers
        /\ v.failover_epoch = m.failover_epoch /\ v.forced = m.forced
    BY <2>1, VoteLeaderFields
  <2>4. \/ v.leader_epoch = m.leader_epoch /\ v.leader = m.leader
        \/ v.leader_epoch > m.leader_epoch /\ v.leader = favourite
    BY <2>1, VoteLeaderEpochs
  <2> HIDE DEF v
  <2> QED
    BY <2>2, <2>3, <2>4 DEF D
<1>4. cast' = Cast(s, v) /\ starts' = starts
  BY <1>1
<1>5. PICK n \in IF won \/ m.forced THEN {[v EXCEPT !.state = "select_slave"]}
                 ELSE {v, AbortFailover(v)} :
        sen' = [sen EXCEPT ![s] = n]
  BY <1>1
<1>6. cast \subseteq cast'
  BY <1>4 DEF Cast
<1>7. sen'[s] = n /\ \A u \in Sentinel \ {s} : sen'[u] = sen[u]
  BY <1>2, <1>5 DEF Typed
<1> HIDE DEF v, won
<1>8. \A u \in Sentinel \ {s} : LeadKept(u)
  BY <1>4, <1>7 DEF LeadKept, Leads, Me
<1>9. ASSUME n.state \in Acting, ~n.forced
      PROVE  /\ won /\ n.failover_epoch = e
             /\ n.current_epoch = v.current_epoch
  <2>1. v \in SentinelState
    BY <1>3 DEF Good
  <2>2. CASE (won \/ m.forced) /\ n = [v EXCEPT !.state = "select_slave"]
    BY <1>3, <1>9, <2>1, <2>2 DEF SentinelState
  <2>3. n # v
    BY <1>3, <1>9 DEF Acting
  <2>4. n # AbortFailover(v)
    BY <1>9, <2>1 DEF Acting, AbortFailover, SentinelState
  <2> QED
    BY <1>5, <2>2, <2>3, <2>4
<1>10. ASSUME Leads(s)'
       PROVE  Cardinality(VotersIn(cast', Me(s)', sen'[s].failover_epoch)) >= Needed
  <2>1. n.state \in Acting /\ ~n.forced
    BY <1>7, <1>10 DEF Leads
  <2>2. won /\ n.failover_epoch = e /\ n.current_epoch = v.current_epoch
    BY <1>9, <2>1
  <2>3. v.current_epoch = e
    BY <1>7, <1>10, <2>2 DEF LeadsInItsEpoch
  <2>4. v.leader # None => <<s, v.leader_epoch, v.leader>> \in cast'
    <3>1. CASE v.leader_epoch = sen[s].leader_epoch /\ v.leader = sen[s].leader
      BY <3>1, <1>6 DEF IInv, SentinelOK, Backed
    <3>2. CASE v.leader_epoch > sen[s].leader_epoch
      BY <3>2, <1>4 DEF Cast
    <3> QED
      BY <1>3, <3>1, <3>2
  <2>5. cast' \subseteq Ballots /\ v \in SentinelState
    BY <1>3 DEF IInv, VotesOK, Good
  <2> HIDE DEF e
  <2>6. Cardinality(VotersIn(cast', Me(s), e)) >= Needed
    BY <1>2, <1>3, <1>6, <2>2, <2>3, <2>4, <2>5, WinnerHasVotesInEpoch DEF won
  <2>7. Me(s)' = Me(s)
    BY <1>4 DEF Me
  <2> QED
    BY <1>7, <2>2, <2>6, <2>7
<1> QED
  BY <1>6, <1>8, <1>10

LEMMA LeadersStep ==
    ASSUME IInv, IInv', [Next]_vars, LeadsInItsEpoch, LeadersElected
    PROVE  LeadersElected'
<1> DEFINE Kept == cast \subseteq cast' /\ \A u \in Sentinel : LeadKept(u)
           Won(s) == /\ cast \subseteq cast'
                     /\ \A u \in Sentinel \ {s} : LeadKept(u)
                     /\ (Leads(s) => Cardinality(VotersIn(cast, Me(s),
                                        sen[s].failover_epoch)) >= Needed)'
<1>1. Kept => LeadersElected'
  BY KeptIsElected DEF LeadersElected
<1>2. ASSUME NEW s \in Sentinel, Won(s) PROVE LeadersElected'
  <2> SUFFICES ASSUME NEW u \in Sentinel
               PROVE  (Leads(u) => Cardinality(VotersIn(cast, Me(u),
                                      sen[u].failover_epoch)) >= Needed)'
    BY DEF LeadersElected
  <2>1. CASE u = s
    BY <1>2, <2>1
  <2>2. CASE u # s
    BY <1>2, <2>2, KeptIsElected
  <2> QED
    BY <2>1, <2>2
<1>3. ASSUME NEW s \in Sentinel, StartFailoverIfNeeded(s) \/ FailoverWaitStart(s)
      PROVE  Won(s)
  <2>1. Good(sen[s], DOMAIN role) /\ DOMAIN role \in SUBSET Instance
    BY KnownInstances DEF IInv, SentinelOK
  <2>2. ~Leads(s)
    BY <1>3 DEF Leads, Acting, StartFailoverIfNeeded, FailoverWaitStart
  <2>3. CASE StartFailoverIfNeeded(s)
    BY <2>1, <2>2, <2>3, StartFailoverGood, WaitStartElects
       DEF StartFailoverIfNeeded
  <2>4. CASE FailoverWaitStart(s)
    BY <2>1, <2>2, <2>4, WaitStartElects DEF FailoverWaitStart
  <2> QED
    BY <1>3, <2>3, <2>4
<1>4. ASSUME NEW s \in Sentinel, Tick(s)
      PROVE  Kept \/ StartFailoverIfNeeded(s) \/ FailoverWaitStart(s)
  BY <1>4, TicksKeep DEF Tick
<1>5. ASSUME NEW s \in Sentinel, NEW t \in Peers(s), Pair(s, t)
      PROVE  Kept
  BY <1>5, AskForVoteKeeps, ForgetReplyKeeps, ProcessHelloMessageKeeps DEF Pair
<1>6. UNCHANGED vars => Kept
  BY DEF vars, ghosts, LeadKept, Leads, Me
<1> HIDE DEF Kept, Won
<1>7. ASSUME NEW s \in Sentinel, Tick(s) PROVE LeadersElected'
  BY <1>1, <1>2, <1>3, <1>4, <1>7
<1>8. ASSUME NEW s \in Sentinel, Restart(s) \/ FlushFails(s)
      PROVE  LeadersElected'
  BY <1>1, <1>8, RestartKeeps, FlushFailsKeeps DEF Kept
<1>9. ASSUME NEW s \in Sentinel, NEW r, ConvertToSlave(s, r) PROVE LeadersElected'
  BY <1>1, <1>9, ConvertToSlaveKeeps DEF Kept
<1> QED
  BY <1>1, <1>5, <1>6, <1>7, <1>8, <1>9 DEF Next

LEMMA ElectedIsOne ==
    ASSUME IInv, LeadersElected
    PROVE  (failing = {} => OneLeader) /\ LeaderOfOneEpoch
<1>1. failing = {} => OneLeader
  <2> SUFFICES ASSUME failing = {}, NEW s \in Sentinel, NEW t \in Sentinel, Leads(s), Leads(t),
                      sen[s].failover_epoch = sen[t].failover_epoch
               PROVE  s = t
    BY DEF OneLeader
  <2>1. PICK e : e = sen[s].failover_epoch
    OBVIOUS
  <2> DEFINE A == VotersIn(cast, Me(s), e)
             B == VotersIn(cast, Me(t), e)
  <2>2. Cardinality(A) >= Needed /\ Cardinality(B) >= Needed
    BY <2>1 DEF LeadersElected
  <2>3. A \subseteq Sentinel /\ B \subseteq Sentinel
    BY VotersInFinite DEF IInv, VotesOK
  <2>4. PICK u : u \in A /\ u \in B
    <3> HIDE DEF A, B
    <3> QED
      BY <2>2, <2>3, MajoritiesMeet
  <2>5. PICK v \in cast : v[1] = u /\ v[2] = e /\ v[3] = Me(s)
    BY <2>4 DEF VotersIn
  <2>6. PICK w \in cast : w[1] = u /\ w[2] = e /\ w[3] = Me(t)
    BY <2>4 DEF VotersIn
  <2>7. Me(s) = Me(t)
    BY <2>5, <2>6 DEF IInv, VotesOK, OneVotePerEpoch
  <2> QED
    BY <2>7 DEF Me
<1>2. LeaderOfOneEpoch
  <2> SUFFICES ASSUME NEW s \in Sentinel, Leads(s)
               PROVE  \E epoch \in {v[2] : v \in cast} :
                         Cardinality(VotersIn(cast, Me(s), epoch)) >= Needed
    BY DEF LeaderOfOneEpoch
  <2>1. PICK e : e = sen[s].failover_epoch
    OBVIOUS
  <2> DEFINE A == VotersIn(cast, Me(s), e)
  <2>2. Cardinality(A) >= Needed
    BY <2>1 DEF LeadersElected
  <2>3. A # {}
    <3>1. A \subseteq Sentinel
      BY VotersInFinite DEF IInv, VotesOK
    <3> HIDE DEF A
    <3> QED
      BY <2>2, <3>1, MajoritiesMeet
  <2>4. e \in {v[2] : v \in cast}
    BY <2>3 DEF VotersIn
  <2> QED
    BY <2>2, <2>4 DEF VotersIn
<1> QED
  BY <1>1, <1>2

\* As long as whoever comes to lead counted the votes of the others in the
\* epoch of its failover, as the comment at sentinel.c:3438 promises, its votes
\* are all of that epoch, and as long as the files can be written no two
\* elected leaders act in the same epoch, through any messages, lost answers
\* and restarts. sentinelGetLeader does not see to the premise: a hello message
\* may raise the current epoch before.
THEOREM LeaderOfItsEpoch ==
    Spec /\ [][LeadsInItsEpoch]_vars
       => []((failing = {} => OneLeader) /\ LeaderOfOneEpoch)
<1>1. Init => LeadersElected
  BY DEF Init, LeadersElected, Leads, Acting, Loaded
<1>2. UNCHANGED vars => LeadsInItsEpoch
  BY DEF vars, LeadsInItsEpoch, Leads
<1>3. IInv /\ IInv' /\ [Next]_vars /\ [LeadsInItsEpoch]_vars /\ LeadersElected
         => LeadersElected'
  BY <1>2, LeadersStep
<1>4. IInv /\ LeadersElected => (failing = {} => OneLeader) /\ LeaderOfOneEpoch
  BY ElectedIsOne
<1> QED
  BY <1>1, <1>3, <1>4, Invariance, PTL DEF Spec
=============================================================================
