------------------------- MODULE RedisClusterProofs -------------------------
(***************************************************************************)
(* Proofs about RedisCluster, for any number of nodes and slots, elections, *)
(* takeovers and restarts: the types, that slots belong to masters, that   *)
(* no epoch is beyond the current one, that the epoch a node serves under  *)
(* never goes back, and what an election is won by.                        *)
(***************************************************************************)
EXTENDS RedisCluster, FiniteSetTheorems, WellFoundedInduction, TLAPS

-----------------------------------------------------------------------------
(* Greatest elements *)

\* A finite set of numbers that is not empty has a greatest element, which
\* Max returns. A smallest subset without one would have one.
LEMMA MaxIsGreatest ==
    ASSUME NEW S, IsFiniteSet(S), S \subseteq Nat, S # {}
    PROVE  Max(S) \in S /\ \A k \in S : k <= Max(S)
<1> DEFINE HasMax(U) == \E x \in U : \A k \in U : x >= k
           T == {U \in SUBSET S : U # {} /\ ~HasMax(U)}
<1>1. T = {}
  <2> SUFFICES ASSUME T # {} PROVE FALSE
    OBVIOUS
  <2>1. IsWellFoundedOn(StrictSubsetOrdering(S), SUBSET S)
    BY FS_StrictSubsetOrderingWellFounded, FS_FiniteSubsetsOfFinite
  <2>2. PICK U \in T : \A W \in T : <<W, U>> \notin StrictSubsetOrdering(S)
    <3> HIDE DEF T
    <3>1. T \subseteq SUBSET S
      BY DEF T
    <3> QED
      BY <2>1, <3>1, WFMin
  <2>3. PICK u \in U : TRUE
    OBVIOUS
  <2> DEFINE W == U \ {u}
  <2>4. W \notin T
    BY <2>2, <2>3 DEF StrictSubsetOrdering
  <2>5. CASE W = {}
    <3>1. \A k \in U : u >= k
      BY <2>3, <2>5
    <3> QED
      BY <3>1, <2>3
  <2>6. CASE W # {}
    <3>1. PICK w \in W : \A k \in W : w >= k
      BY <2>4, <2>6
    <3>2. w \in Nat /\ u \in Nat /\ \A k \in U : k = u \/ k \in W
      BY <2>3
    <3>3. CASE w >= u
      <4>1. \A k \in U : w >= k
        BY <3>1, <3>2, <3>3
      <4> QED
        BY <4>1, <3>1
    <3>4. CASE u > w
      <4>1. \A k \in U : u >= k
        <5> SUFFICES ASSUME NEW k \in U PROVE u >= k
          OBVIOUS
        <5>1. k \in Nat
          OBVIOUS
        <5> QED
          BY <5>1, <3>1, <3>2, <3>4
      <4> QED
        BY <4>1, <2>3
    <3> QED
      BY <3>2, <3>3, <3>4
  <2> QED
    BY <2>5, <2>6
<1>2. \E x \in S : \A k \in S : x >= k
  BY <1>1
<1>3. Max(S) \in S /\ \A k \in S : Max(S) >= k
  BY <1>2 DEF Max
<1>4. \A k \in S : Max(S) >= k => k <= Max(S)
  BY <1>3
<1> QED
  BY <1>3, <1>4

LEMMA MaxOfTwo ==
    ASSUME NEW p \in Nat, NEW q \in Nat
    PROVE  /\ Max({p, q}) \in Nat /\ Max({p, q}) \in {p, q}
           /\ Max({p, q}) >= p /\ Max({p, q}) >= q
<1>1. IsFiniteSet({p, q})
  <2>1. IsFiniteSet({p}) /\ {p, q} = {p} \cup {q}
    BY FS_Singleton
  <2> QED
    BY <2>1, FS_AddElement
<1>2. Max({p, q}) \in {p, q} /\ \A k \in {p, q} : k <= Max({p, q})
  BY <1>1, MaxIsGreatest
<1> QED
  BY <1>2

\* The greatest value of a function from a finite set.
LEMMA MaxOfRange ==
    ASSUME NEW D, IsFiniteSet(D), D # {}, NEW f \in [D -> Nat]
    PROVE  /\ Max(Range(f)) \in Nat
           /\ \A d \in D : f[d] <= Max(Range(f))
           /\ \E d \in D : Max(Range(f)) = f[d]
<1> DEFINE R == {f[d] : d \in D}
<1>1. Range(f) = R
  BY DEF Range
<1>2. IsFiniteSet(R)
  <2>1. f \in Surjection(D, R)
    BY DEF Surjection
  <2> QED
    BY <2>1, FS_Surjection
<1>3. R \subseteq Nat /\ R # {}
  OBVIOUS
<1>4. Max(R) \in R /\ \A k \in R : k <= Max(R)
  BY <1>2, <1>3, MaxIsGreatest
<1> QED
  BY <1>1, <1>3, <1>4

-----------------------------------------------------------------------------
(* One node's table: what every way to change it keeps *)

\* A slot is bound to a master.
MastersOwn(v) == \A j \in Slot : v.owner[j] # None => IsMaster(v, v.owner[j])

\* No epoch is beyond the current one.
Bounded(v) == \A m \in Node : v.epoch[m] <= v.current

Sound(v) == v \in View /\ MastersOwn(v) /\ Bounded(v)

\* No epoch goes back.
Advances(v, w) == /\ \A m \in Node : w.epoch[m] >= v.epoch[m]
                  /\ w.current >= v.current

\* What Header tells, and the epochs of any packet.
Epochs(h) == /\ h.from \in Node /\ h.config \in Epoch /\ h.current \in Epoch
             /\ h.config <= h.current

LEMMA NoneIsNoNode == None \notin Node
  BY ClusterAssumption

LEMMA AdvancesTransitive ==
    ASSUME NEW u \in View, NEW v \in View, NEW w \in View,
           Advances(u, v), Advances(v, w)
    PROVE  Advances(u, w)
<1>1. /\ \A m \in Node : u.epoch[m] \in Nat /\ v.epoch[m] \in Nat /\ w.epoch[m] \in Nat
      /\ u.current \in Nat /\ v.current \in Nat /\ w.current \in Nat
  BY DEF View, Epoch
<1> QED
  BY <1>1 DEF Advances

LEMMA AdvancesReflexive ==
    ASSUME NEW v \in View
    PROVE  Advances(v, v)
<1>1. v.current \in Nat /\ \A m \in Node : v.epoch[m] \in Nat
  BY DEF View, Epoch
<1> QED
  BY <1>1 DEF Advances

LEMMA AssignFields ==
    ASSUME NEW v \in View, NEW slots, NEW n \in Node \cup {None}
    PROVE  /\ Assign(v, slots, n) \in View
           /\ Assign(v, slots, n).epoch = v.epoch
           /\ Assign(v, slots, n).current = v.current
           /\ Assign(v, slots, n).master = v.master
           /\ Assign(v, slots, n).lastVote = v.lastVote
           /\ \A j \in Slot : Assign(v, slots, n).owner[j] =
                                 IF j \in slots THEN n ELSE v.owner[j]
  BY DEF Assign, View

\* clusterUpdateSlotsConfigWith keeps the epochs, and the claims it takes over
\* are a master's.
LEMMA UpdateSlotsConfigWithSound ==
    ASSUME NEW v, Sound(v), NEW me \in Node, NEW sender \in Node,
           NEW config \in Epoch, NEW slots, IsMaster(v, sender)
    PROVE  LET w == UpdateSlotsConfigWith(v, me, sender, config, slots)
           IN Sound(w) /\ w.epoch = v.epoch /\ w.current = v.current
                       /\ w.lastVote = v.lastVote
<1> DEFINE current == MasterOf(v, me)
           taken == {j \in slots : /\ v.owner[j] # sender
                                   /\ \/ v.owner[j] = None
                                      \/ v.epoch[v.owner[j]] < config}
           w == Assign(v, taken, sender)
           x == [w EXCEPT !.master[me] = sender]
<1>1. v \in View
  BY DEF Sound
<1>2. /\ w \in View /\ w.epoch = v.epoch /\ w.current = v.current
      /\ w.master = v.master /\ w.lastVote = v.lastVote
      /\ \A j \in Slot : w.owner[j] = IF j \in taken THEN sender ELSE v.owner[j]
  <2> HIDE DEF taken
  <2> QED
    BY <1>1, AssignFields
<1>3. MastersOwn(w) /\ Bounded(w)
  <2> HIDE DEF taken, w
  <2> QED
    BY <1>2 DEF Sound, MastersOwn, Bounded, IsMaster
<1>4. ASSUME sender # me, SlotsOf(w, current) = {}
      PROVE  Sound(x) /\ x.epoch = v.epoch /\ x.current = v.current
                      /\ x.lastVote = v.lastVote
  <2> HIDE DEF taken, w
  <2>1. /\ x \in View /\ x.epoch = v.epoch /\ x.current = v.current
        /\ x.owner = w.owner /\ x.lastVote = v.lastVote
        /\ x.master = [w.master EXCEPT ![me] = sender]
    BY <1>2 DEF View
  <2>2. \A j \in Slot : w.owner[j] # me
    <3>1. CASE IsMaster(v, me)
      BY <3>1, <1>4 DEF MasterOf, SlotsOf
    <3>2. CASE ~IsMaster(v, me)
      BY <3>2, <1>2, <1>3, NoneIsNoNode DEF MastersOwn, IsMaster
    <3> QED
      BY <3>1, <3>2
  <2>3. MastersOwn(x)
    <3> SUFFICES ASSUME NEW j \in Slot, x.owner[j] # None
                 PROVE  x.master[x.owner[j]] = None
      BY DEF MastersOwn, IsMaster
    <3>1. w.owner[j] \in Node /\ w.owner[j] # me /\ w.master[w.owner[j]] = None
      BY <1>2, <1>3, <2>1, <2>2 DEF MastersOwn, IsMaster, View
    <3> QED
      BY <3>1, <2>1, <1>2 DEF View
  <2>4. Bounded(x)
    BY <2>1, <1>2, <1>3 DEF Bounded
  <2> QED
    BY <2>1, <2>3, <2>4 DEF Sound
<1>5. Sound(w)
  BY <1>2, <1>3 DEF Sound
<1>6. \/ UpdateSlotsConfigWith(v, me, sender, config, slots) = v
      \/ /\ sender # me /\ SlotsOf(w, current) = {}
         /\ UpdateSlotsConfigWith(v, me, sender, config, slots) = x
      \/ UpdateSlotsConfigWith(v, me, sender, config, slots) = w
  BY DEF UpdateSlotsConfigWith
<1> HIDE DEF w, x, current, taken
<1> QED
  BY <1>2, <1>4, <1>5, <1>6

\* The epochs of a packet: taken if newer.
LEMMA SeeEpochsSound ==
    ASSUME NEW v, Sound(v), NEW h, Epochs(h)
    PROVE  /\ Sound(SeeEpochs(v, h)) /\ Advances(v, SeeEpochs(v, h))
           /\ SeeEpochs(v, h).master = v.master
           /\ SeeEpochs(v, h).owner = v.owner
           /\ h.current <= SeeEpochs(v, h).current
           /\ h.config <= SeeEpochs(v, h).epoch[h.from]
<1> DEFINE w == SeeEpochs(v, h)
<1>1. /\ v \in View /\ v.current \in Nat
      /\ \A m \in Node : v.epoch[m] \in Nat /\ v.epoch[m] <= v.current
      /\ h.from \in Node /\ h.config \in Nat /\ h.current \in Nat
      /\ h.config <= h.current
  BY DEF Sound, Bounded, View, Epoch, Epochs
<1>2. /\ w \in View
      /\ w.owner = v.owner /\ w.master = v.master
      /\ w.current = IF h.current > v.current THEN h.current ELSE v.current
      /\ \A m \in Node : w.epoch[m] = IF m = h.from /\ h.config > v.epoch[m]
                                      THEN h.config ELSE v.epoch[m]
  <2> DEFINE e == IF h.current > v.current THEN h.current ELSE v.current
             f == [v.epoch EXCEPT ![h.from] = IF h.config > @ THEN h.config ELSE @]
  <2> DEFINE c == [v EXCEPT !.current = e]
  <2>0. /\ c = [owner |-> v.owner, epoch |-> v.epoch, master |-> v.master,
                current |-> e, lastVote |-> v.lastVote]
        /\ w = [c EXCEPT !.epoch = f]
    BY <1>1 DEF SeeEpochs, View
  <2>1. w = [owner |-> v.owner, epoch |-> f, master |-> v.master,
             current |-> e, lastVote |-> v.lastVote]
    <3> HIDE DEF c, e, f, w
    <3> QED
      BY <2>0
  <2>2. e \in Nat
    BY <1>1
  <2>3. v.epoch \in [Node -> Nat]
    BY <1>1 DEF View, Epoch
  <2>4. f \in [Node -> Nat]
    BY <1>1, <2>3
  <2>5. \A m \in Node : f[m] = IF m = h.from /\ h.config > v.epoch[m]
                               THEN h.config ELSE v.epoch[m]
    BY <1>1, <2>3
  <2> HIDE DEF e, f, w
  <2>6. w \in View
    BY <2>1, <2>2, <2>4, <1>1 DEF View, Epoch
  <2> QED
    BY <2>1, <2>5, <2>6 DEF e
<1> HIDE DEF w
<1>3. Bounded(w) /\ Advances(v, w)
  BY <1>1, <1>2 DEF Bounded, Advances
<1>4. MastersOwn(w)
  BY <1>2 DEF Sound, MastersOwn, IsMaster
<1>5. Sound(w)
  BY <1>2, <1>3, <1>4 DEF Sound
<1>6. h.current <= w.current /\ h.config <= w.epoch[h.from]
  BY <1>1, <1>2
<1> QED
  BY <1>2, <1>3, <1>5, <1>6 DEF w

\* A master that says it is a slave loses the slots it had.
LEMMA SwitchRoleSound ==
    ASSUME NEW v, Sound(v), NEW h, h.from \in Node, h.master \in Node \cup {None}
    PROVE  /\ Sound(SwitchRole(v, h))
           /\ SwitchRole(v, h).epoch = v.epoch
           /\ SwitchRole(v, h).current = v.current
<1> DEFINE lost == IF h.master # None /\ IsMaster(v, h.from)
                   THEN SlotsOf(v, h.from) ELSE {}
           w == Assign(v, lost, None)
           x == [w EXCEPT !.master[h.from] = h.master]
<1>1. v \in View
  BY DEF Sound
<1>2. /\ w \in View /\ w.epoch = v.epoch /\ w.current = v.current
      /\ w.master = v.master
      /\ \A j \in Slot : w.owner[j] = IF j \in lost THEN None ELSE v.owner[j]
  <2> HIDE DEF lost
  <2> QED
    BY <1>1, AssignFields
<1>3. SwitchRole(v, h) = x
  BY DEF SwitchRole
<1> HIDE DEF w
<1>4. /\ x \in View /\ x.epoch = v.epoch /\ x.current = v.current
      /\ x.owner = w.owner
      /\ x.master = [v.master EXCEPT ![h.from] = h.master]
  BY <1>2 DEF View
<1>5. ASSUME NEW j \in Slot, x.owner[j] # None
      PROVE  x.master[x.owner[j]] = None
  <2>1. v.owner[j] = x.owner[j] /\ j \notin lost /\ v.owner[j] \in Node
    BY <1>2, <1>4, <1>5, <1>1 DEF View
  <2>2. v.master[v.owner[j]] = None
    BY <2>1, <1>5 DEF Sound, MastersOwn, IsMaster
  <2>3. v.owner[j] = h.from => h.master = None
    BY <2>1, <2>2 DEF SlotsOf, IsMaster
  <2> QED
    BY <2>1, <2>2, <2>3, <1>4, <1>1 DEF View
<1>6. MastersOwn(x) /\ Bounded(x)
  BY <1>4, <1>5 DEF MastersOwn, IsMaster, Sound, Bounded
<1> HIDE DEF x
<1> QED
  BY <1>3, <1>4, <1>6 DEF Sound

\* A header: the epochs, and the role.
HeaderOK(h) == Epochs(h) /\ h.master \in Node \cup {None}

LEMMA ClaimedSound ==
    ASSUME NEW v, Sound(v), NEW me \in Node, NEW h, HeaderOK(h)
    PROVE  Sound(Claimed(v, me, h)) /\ Advances(v, Claimed(v, me, h))
<1> DEFINE v0 == SeeEpochs(v, h)
           v1 == SwitchRole(v0, h)
           w == Claimed(v, me, h)
<1>1. Epochs(h) /\ h.from \in Node /\ h.master \in Node \cup {None} /\ h.config \in Epoch
  BY DEF HeaderOK, Epochs
<1>2. Sound(v0) /\ Advances(v, v0)
  BY <1>1, SeeEpochsSound
<1> HIDE DEF v0
<1>3. Sound(v1) /\ v1.epoch = v0.epoch /\ v1.current = v0.current
  BY <1>1, <1>2, SwitchRoleSound
<1> HIDE DEF v1
<1>4. \/ w = v1
      \/ /\ IsMaster(v1, h.from)
         /\ w = UpdateSlotsConfigWith(v1, me, h.from, h.config, h.claims)
  BY DEF Claimed, v0, v1
<1>5. Sound(w) /\ w.epoch = v1.epoch /\ w.current = v1.current
  BY <1>1, <1>3, <1>4, UpdateSlotsConfigWithSound
<1> HIDE DEF w
<1>6. Advances(v, w)
  BY <1>2, <1>3, <1>5 DEF Advances
<1> QED
  BY <1>5, <1>6 DEF w

\* A node that takes a new epoch for itself.
LEMMA NewEpochSound ==
    ASSUME NEW v, Sound(v), NEW me \in Node
    PROVE  LET w == [v EXCEPT !.current = @ + 1, !.epoch[me] = v.current + 1]
           IN Sound(w) /\ Advances(v, w)
<1> DEFINE x == [v EXCEPT !.current = @ + 1, !.epoch[me] = v.current + 1]
<1>1. /\ v \in View /\ v.current \in Nat /\ v.epoch \in [Node -> Nat]
      /\ \A m \in Node : v.epoch[m] <= v.current
  BY DEF Sound, Bounded, View, Epoch
<1>2. /\ x \in View /\ x.owner = v.owner /\ x.master = v.master
      /\ x.current = v.current + 1
      /\ x.epoch = [v.epoch EXCEPT ![me] = v.current + 1]
  <2> DEFINE c == [v EXCEPT !.current = v.current + 1]
             f == [v.epoch EXCEPT ![me] = v.current + 1]
  <2>1. /\ c = [owner |-> v.owner, epoch |-> v.epoch, master |-> v.master,
                current |-> v.current + 1, lastVote |-> v.lastVote]
        /\ x = [c EXCEPT !.epoch = f]
        /\ f \in [Node -> Nat]
    BY <1>1 DEF View
  <2>2. x = [owner |-> v.owner, epoch |-> f, master |-> v.master,
             current |-> v.current + 1, lastVote |-> v.lastVote]
    <3> HIDE DEF c, f, x
    <3> QED
      BY <2>1
  <2> HIDE DEF x
  <2> QED
    BY <2>1, <2>2, <1>1 DEF View, Epoch
<1> HIDE DEF x
<1>3. Sound(x) /\ Advances(v, x)
  <2>1. \A m \in Node : x.epoch[m] = IF m = me THEN v.current + 1 ELSE v.epoch[m]
    BY <1>1, <1>2
  <2>2. \A m \in Node : v.epoch[m] \in Nat
    BY <1>1
  <2>3. Bounded(x) /\ Advances(v, x)
    BY <2>1, <2>2, <1>1, <1>2 DEF Bounded, Advances
  <2> QED
    BY <2>3, <1>2 DEF Sound, MastersOwn, IsMaster
<1> QED
  BY <1>3 DEF x

\* Of two masters with the same epoch the one that moves takes a new one.
LEMMA HandleCollisionSound ==
    ASSUME NEW v, Sound(v), NEW me \in Node, NEW sender, NEW config
    PROVE  LET w == HandleCollision(v, me, sender, config)
           IN Sound(w) /\ Advances(v, w)
<1> DEFINE x == [v EXCEPT !.current = @ + 1, !.epoch[me] = v.current + 1]
<1>1. HandleCollision(v, me, sender, config) \in {v, x}
  BY DEF HandleCollision
<1>2. Sound(x) /\ Advances(v, x)
  BY NewEpochSound
<1>3. Advances(v, v)
  BY AdvancesReflexive DEF Sound
<1> HIDE DEF x
<1> QED
  BY <1>1, <1>2, <1>3

LEMMA BumpConfigEpochSound ==
    ASSUME NEW v, Sound(v), NEW me \in Node
    PROVE  LET w == BumpConfigEpoch(v, me)
           IN Sound(w) /\ Advances(v, w)
<1> DEFINE x == [v EXCEPT !.current = @ + 1, !.epoch[me] = v.current + 1]
<1>1. BumpConfigEpoch(v, me) \in {v, x}
  BY DEF BumpConfigEpoch
<1>2. Sound(x) /\ Advances(v, x)
  BY NewEpochSound
<1>3. Advances(v, v)
  BY AdvancesReflexive DEF Sound
<1> HIDE DEF x
<1> QED
  BY <1>1, <1>2, <1>3

LEMMA ProcessPingSound ==
    ASSUME NEW v, Sound(v), NEW me \in Node, NEW h, HeaderOK(h)
    PROVE  Sound(ProcessPing(v, me, h)) /\ Advances(v, ProcessPing(v, me, h))
<1> DEFINE w == Claimed(v, me, h)
           x == HandleCollision(w, me, h.from, h.config)
<1>1. Sound(w) /\ Advances(v, w)
  BY ClaimedSound
<1> HIDE DEF w
<1>2. Sound(x) /\ Advances(w, x)
  BY <1>1, HandleCollisionSound
<1>3. ProcessPing(v, me, h) = x
  BY DEF ProcessPing, w
<1> HIDE DEF x
<1>4. Advances(v, x)
  BY <1>1, <1>2, AdvancesTransitive DEF Sound
<1> QED
  BY <1>2, <1>3, <1>4

\* An UPDATE is taken if it is newer, and makes its node a master first.
LEMMA ProcessUpdateSound ==
    ASSUME NEW v, Sound(v), NEW me \in Node, NEW u, u.about \in Node,
           u.config \in Epoch, u.config <= v.current
    PROVE  Sound(ProcessUpdate(v, me, u)) /\ Advances(v, ProcessUpdate(v, me, u))
<1> DEFINE x == [v EXCEPT !.epoch[u.about] = u.config, !.master[u.about] = None]
           w == UpdateSlotsConfigWith(x, me, u.about, u.config, u.slots)
<1>1. /\ v \in View /\ v.current \in Nat /\ v.epoch \in [Node -> Nat]
      /\ v.master \in [Node -> Node \cup {None}]
      /\ \A m \in Node : v.epoch[m] <= v.current
      /\ u.config \in Nat
  BY DEF Sound, Bounded, View, Epoch
<1>2. CASE v.epoch[u.about] >= u.config
  BY <1>1, <1>2, AdvancesReflexive DEF ProcessUpdate
<1>3. CASE ~(v.epoch[u.about] >= u.config)
  <2> DEFINE f == [v.epoch EXCEPT ![u.about] = u.config]
             g == [v.master EXCEPT ![u.about] = None]
             c == [v EXCEPT !.epoch = f]
  <2>1. /\ c = [owner |-> v.owner, epoch |-> f, master |-> v.master,
                current |-> v.current, lastVote |-> v.lastVote]
        /\ x = [c EXCEPT !.master = g]
        /\ f \in [Node -> Nat] /\ g \in [Node -> Node \cup {None}]
    BY <1>1 DEF View
  <2>2. x = [owner |-> v.owner, epoch |-> f, master |-> g,
             current |-> v.current, lastVote |-> v.lastVote]
    <3> HIDE DEF c, f, g, x
    <3> QED
      BY <2>1
  <2> HIDE DEF x
  <2>3. x \in View
    BY <2>1, <2>2, <1>1 DEF View, Epoch
  <2>4. \A m \in Node : x.epoch[m] = IF m = u.about THEN u.config ELSE v.epoch[m]
    BY <2>2, <1>1
  <2>5. Bounded(x) /\ Advances(v, x)
    <3>1. \A m \in Node : v.epoch[m] \in Nat
      BY <1>1
    <3> QED
      BY <2>2, <2>4, <3>1, <1>1, <1>3 DEF Bounded, Advances
  <2>6. MastersOwn(x) /\ IsMaster(x, u.about)
    BY <2>2, <1>1 DEF Sound, MastersOwn, IsMaster, View
  <2>7. Sound(x)
    BY <2>3, <2>5, <2>6 DEF Sound
  <2>8. Sound(w) /\ w.epoch = x.epoch /\ w.current = x.current
    BY <2>6, <2>7, UpdateSlotsConfigWithSound
  <2>9. ProcessUpdate(v, me, u) = w
    BY <1>3 DEF ProcessUpdate, x
  <2> HIDE DEF w
  <2> QED
    BY <2>5, <2>8, <2>9 DEF Advances
<1> QED
  BY <1>2, <1>3

\* A slave that takes its master's place.
LEMMA ReplaceYourMasterSound ==
    ASSUME NEW v, Sound(v), NEW me \in Node
    PROVE  LET w == ReplaceYourMaster(v, me)
           IN Sound(w) /\ w.epoch = v.epoch /\ w.current = v.current
<1> DEFINE x == [v EXCEPT !.master[me] = None]
           slots == SlotsOf(v, v.master[me])
           w == Assign(x, slots, me)
<1>1. v \in View
  BY DEF Sound
<1>2. /\ x \in View /\ x.epoch = v.epoch /\ x.current = v.current
      /\ x.owner = v.owner /\ x.master = [v.master EXCEPT ![me] = None]
  BY <1>1 DEF View
<1> HIDE DEF x, slots
<1>3. /\ w \in View /\ w.epoch = v.epoch /\ w.current = v.current
      /\ w.master = x.master
      /\ \A j \in Slot : w.owner[j] = IF j \in slots THEN me ELSE v.owner[j]
  BY <1>2, AssignFields
<1>4. ReplaceYourMaster(v, me) = w
  BY DEF ReplaceYourMaster, x, slots
<1> HIDE DEF w
<1>5. MastersOwn(w)
  BY <1>1, <1>2, <1>3 DEF Sound, MastersOwn, IsMaster, View
<1>6. Bounded(w)
  BY <1>3 DEF Sound, Bounded
<1> QED
  BY <1>3, <1>4, <1>5, <1>6 DEF Sound

-----------------------------------------------------------------------------
(* The last vote of a node *)

\* Nothing that a packet teaches touches the last vote.
LEMMA SeeEpochsVote ==
    ASSUME NEW v \in View, NEW h
    PROVE  SeeEpochs(v, h).lastVote = v.lastVote
  BY DEF SeeEpochs, View

LEMMA NewEpochVote ==
    ASSUME NEW v \in View, NEW me \in Node, NEW e
    PROVE  [v EXCEPT !.current = e, !.epoch[me] = e].lastVote = v.lastVote
  BY DEF View

LEMMA ProcessPingVote ==
    ASSUME NEW v, Sound(v), NEW me \in Node, NEW h, HeaderOK(h)
    PROVE  ProcessPing(v, me, h).lastVote = v.lastVote
<1> DEFINE v0 == SeeEpochs(v, h)
           v1 == SwitchRole(v0, h)
           w == Claimed(v, me, h)
<1>1. Epochs(h) /\ h.from \in Node /\ h.master \in Node \cup {None} /\ h.config \in Epoch
  BY DEF HeaderOK, Epochs
<1>2. Sound(v0) /\ v0.lastVote = v.lastVote
  BY <1>1, SeeEpochsSound, SeeEpochsVote DEF Sound
<1> HIDE DEF v0
<1>3. Sound(v1) /\ v1.lastVote = v0.lastVote
  <2> DEFINE lost == IF h.master # None /\ IsMaster(v0, h.from)
                     THEN SlotsOf(v0, h.from) ELSE {}
             x == Assign(v0, lost, None)
  <2>1. x \in View /\ x.lastVote = v0.lastVote
    <3> HIDE DEF lost
    <3> QED
      BY <1>2, AssignFields DEF Sound
  <2>2. v1 = [x EXCEPT !.master[h.from] = h.master]
    BY DEF SwitchRole
  <2>3. Sound(v1)
    BY <1>1, <1>2, SwitchRoleSound
  <2> HIDE DEF x, v1
  <2> QED
    BY <2>1, <2>2, <2>3 DEF View
<1> HIDE DEF v1
<1>4. \/ w = v1
      \/ /\ IsMaster(v1, h.from)
         /\ w = UpdateSlotsConfigWith(v1, me, h.from, h.config, h.claims)
  BY DEF Claimed, v0, v1
<1>5. Sound(w) /\ w.lastVote = v1.lastVote
  BY <1>1, <1>3, <1>4, UpdateSlotsConfigWithSound
<1> HIDE DEF w
<1> DEFINE x == [w EXCEPT !.current = @ + 1, !.epoch[me] = w.current + 1]
<1>6. x.lastVote = w.lastVote
  BY <1>5 DEF Sound, View
<1>7. ProcessPing(v, me, h) \in {w, x}
  BY DEF ProcessPing, HandleCollision, w
<1> HIDE DEF x
<1> QED
  BY <1>2, <1>3, <1>5, <1>6, <1>7

LEMMA ProcessUpdateVote ==
    ASSUME NEW v, Sound(v), NEW me \in Node, NEW u, u.about \in Node,
           u.config \in Epoch, u.config <= v.current
    PROVE  ProcessUpdate(v, me, u).lastVote = v.lastVote
<1> DEFINE f == [v.epoch EXCEPT ![u.about] = u.config]
           g == [v.master EXCEPT ![u.about] = None]
           x == [v EXCEPT !.epoch[u.about] = u.config, !.master[u.about] = None]
           w == UpdateSlotsConfigWith(x, me, u.about, u.config, u.slots)
           taken == {j \in u.slots : /\ x.owner[j] # u.about
                                     /\ \/ x.owner[j] = None
                                        \/ x.epoch[x.owner[j]] < u.config}
           y == Assign(x, taken, u.about)
<1>1. v \in View
  BY DEF Sound
<1>2. x \in View /\ x.lastVote = v.lastVote
  BY <1>1 DEF View
<1> HIDE DEF x, taken
<1>3. y \in View /\ y.lastVote = x.lastVote
  BY <1>2, AssignFields
<1>4. w \in {x, y, [y EXCEPT !.master[me] = u.about]}
  BY DEF UpdateSlotsConfigWith, taken
<1> HIDE DEF y
<1>5. [y EXCEPT !.master[me] = u.about].lastVote = y.lastVote
  BY <1>3 DEF View
<1>6. w.lastVote = v.lastVote
  <2> HIDE DEF w
  <2> QED
    BY <1>2, <1>3, <1>4, <1>5
<1>7. ProcessUpdate(v, me, u) \in {v, w}
  BY DEF ProcessUpdate, x
<1> HIDE DEF w
<1> QED
  BY <1>6, <1>7

LEMMA TakeMasterVote ==
    ASSUME NEW v \in View, NEW me \in Node
    PROVE  ReplaceYourMaster(v, me).lastVote = v.lastVote
<1> DEFINE x == [v EXCEPT !.master[me] = None]
<1>1. x \in View /\ x.lastVote = v.lastVote
  BY DEF View
<1>2. ReplaceYourMaster(v, me) = Assign(x, SlotsOf(v, v.master[me]), me)
  BY DEF ReplaceYourMaster
<1> HIDE DEF x
<1> QED
  BY <1>1, <1>2, AssignFields

LEMMA BumpVote ==
    ASSUME NEW v \in View, NEW me \in Node
    PROVE  BumpConfigEpoch(v, me).lastVote = v.lastVote
<1> DEFINE x == [v EXCEPT !.current = @ + 1, !.epoch[me] = v.current + 1]
<1>1. x.lastVote = v.lastVote
  BY DEF View
<1>2. BumpConfigEpoch(v, me) \in {v, x}
  BY DEF BumpConfigEpoch
<1> HIDE DEF x
<1> QED
  BY <1>1, <1>2

-----------------------------------------------------------------------------
(* The inductive invariant *)

\* nodes.conf may be behind in the current epoch and the last vote, never in
\* the epochs of the nodes.
Saved(v, d) == d \in View /\ MastersOwn(d) /\ d.epoch = v.epoch

Tables == /\ view \in [Node -> View] /\ disk \in [Node -> View]
          /\ \A n \in Node : Sound(view[n]) /\ Saved(view[n], disk[n])

\* No node runs for an epoch beyond its current one.
Elections == /\ election \in [Node -> Election]
             /\ \A n \in Node : election[n].epoch <= view[n].current

Packets == net \subseteq Message /\ \A m \in net : m.config <= m.current

IInv == Tables /\ Elections /\ Packets

\* No node's table goes back in any epoch.
Grows == \A n, m \in Node : view'[n].epoch[m] >= view[n].epoch[m]

LEMMA SavedItself ==
    ASSUME NEW v, Sound(v)
    PROVE  Saved(v, v)
  BY DEF Sound, Saved

LEMMA StoredFields ==
    ASSUME Tables, NEW d \in [Node -> View], NEW n \in Node, d[n] = disk[n],
           NEW v, Sound(v)
    PROVE  /\ Stored(d, n, v) \in [Node -> View]
           /\ Saved(v, Stored(d, n, v)[n])
           /\ \A t \in Node \ {n} : Stored(d, n, v)[t] = d[t]
<1> DEFINE same == [v EXCEPT !.current = 0] = [view[n] EXCEPT !.current = 0]
<1>1. v \in View /\ view[n] \in View
  BY DEF Sound, Tables
<1>2. same => v.epoch = view[n].epoch
  <2>1. /\ [v EXCEPT !.current = 0].epoch = v.epoch
        /\ [view[n] EXCEPT !.current = 0].epoch = view[n].epoch
    BY <1>1 DEF View
  <2> QED
    BY <2>1
<1>3. Stored(d, n, v) = [d EXCEPT ![n] = IF same THEN d[n] ELSE v]
  BY DEF Stored
<1> HIDE DEF same
<1>4. CASE same
  BY <1>2, <1>3, <1>4 DEF Tables, Saved
<1>5. CASE ~same
  BY <1>1, <1>3, <1>5, SavedItself
<1> QED
  BY <1>4, <1>5

\* One node goes on with another table, and saves it or not.
LEMMA TableStep ==
    ASSUME Tables, NEW n \in Node, NEW w, Sound(w),
           \A m \in Node : w.epoch[m] >= view[n].epoch[m],
           view' = [view EXCEPT ![n] = w],
           disk' \in [Node -> View], Saved(w, disk'[n]),
           \A t \in Node \ {n} : disk'[t] = disk[t]
    PROVE  Tables' /\ Grows
<1>1. w \in View /\ view \in [Node -> View]
  BY DEF Sound, Tables
<1>2. view' \in [Node -> View] /\ view'[n] = w
      /\ \A t \in Node \ {n} : view'[t] = view[t]
  BY <1>1
<1>3. ASSUME NEW t \in Node
      PROVE  Sound(view'[t]) /\ Saved(view'[t], disk'[t])
  BY <1>2 DEF Tables
<1>4. Tables'
  BY <1>2, <1>3 DEF Tables, Sound, Saved, MastersOwn, Bounded, IsMaster
<1>5. ASSUME NEW t \in Node, NEW m \in Node
      PROVE  view'[t].epoch[m] >= view[t].epoch[m]
  <2>1. view[t].epoch[m] \in Nat
    BY <1>1 DEF View, Epoch
  <2> QED
    BY <1>2, <2>1
<1> QED
  BY <1>4, <1>5 DEF Grows

LEMMA TablesUnchanged ==
    ASSUME Tables, view' = view, disk' = disk
    PROVE  Tables' /\ Grows
<1>1. Tables'
  BY DEF Tables, Sound, Saved, MastersOwn, Bounded, IsMaster
<1>2. \A n, m \in Node : view[n].epoch[m] \in Nat
  BY DEF Tables, View, Epoch
<1> QED
  BY <1>1, <1>2 DEF Grows

LEMMA ElectionsKept ==
    ASSUME Tables, Tables', Elections, election' = election,
           \A n \in Node : view'[n].current >= view[n].current
    PROVE  Elections'
<1>1. \A n \in Node : /\ view[n].current \in Nat /\ view'[n].current \in Nat
                      /\ election[n].epoch \in Nat
  BY DEF Tables, Elections, View, Election, Epoch
<1> QED
  BY <1>1 DEF Elections

LEMMA HeaderEpochs ==
    ASSUME Tables, NEW n \in Node
    PROVE  HeaderOK(Header(n)) /\ Header(n).claims \subseteq Slot
<1> DEFINE v == view[n]
<1>1. v \in View /\ Sound(v)
  BY DEF Tables
<1>2. MasterOf(v, n) \in Node
  BY <1>1 DEF MasterOf, IsMaster, View
<1>3. Header(n) = [from |-> n, master |-> v.master[n], current |-> v.current,
                   config |-> v.epoch[MasterOf(v, n)],
                   claims |-> SlotsOf(v, MasterOf(v, n))]
  BY DEF Header
<1> HIDE DEF v
<1> QED
  BY <1>1, <1>2, <1>3 DEF HeaderOK, Epochs, Sound, Bounded, View, SlotsOf

LEMMA MessageEpochs ==
    ASSUME Packets, NEW m \in net
    PROVE  Epochs(m)
  BY DEF Packets, Message, Epochs, Epoch

-----------------------------------------------------------------------------
(* The steps *)

\* The receiver of a PING goes on with a table v, and so does its sender, with
\* w, if it is sent an UPDATE; no epoch goes back in either, and no vote changes.
LEMMA PingTables ==
    ASSUME IInv, NEW s \in Node, NEW t \in Node, s # t, Ping(s, t)
    PROVE  \E v \in View :
              /\ Sound(v) /\ Advances(view[t], v)
              /\ v.lastVote = view[t].lastVote
              /\ \/ view' = [view EXCEPT ![t] = v] /\ disk' = Stored(disk, t, v)
                 \/ \E w \in View :
                       /\ Sound(w) /\ Advances(view[s], w)
                       /\ w.lastVote = view[s].lastVote
                       /\ view' = [view EXCEPT ![t] = v, ![s] = w]
                       /\ disk' = Stored(Stored(disk, t, v), s, w)
<1> DEFINE h == Header(s)
           v == ProcessPing(view[t], t, h)
           sent == Claimed(view[t], t, h)
           back == [from |-> t, current |-> sent.current,
                    config |-> sent.epoch[MasterOf(sent, t)]]
<1>1. /\ Tables /\ view \in [Node -> View] /\ Sound(view[t]) /\ Sound(view[s])
  BY DEF IInv, Tables
<1>2. HeaderOK(h)
  BY <1>1, HeaderEpochs
<1>3. /\ Sound(v) /\ Advances(view[t], v) /\ v \in View
      /\ v.lastVote = view[t].lastVote
  BY <1>1, <1>2, ProcessPingSound, ProcessPingVote DEF Sound
<1>4. CASE view' = [view EXCEPT ![t] = v] /\ disk' = Stored(disk, t, v)
  <2> HIDE DEF v
  <2> QED
    BY <1>3, <1>4
<1>5. ASSUME NEW about \in Newer(view[t], t, h),
             LET u == [about |-> about, config |-> sent.epoch[about],
                       slots |-> SlotsOf(sent, about)]
                 w == ProcessUpdate(SeeEpochs(view[s], back), s, u)
             IN /\ view' = [view EXCEPT ![t] = v, ![s] = w]
                /\ disk' = Stored(Stored(disk, t, v), s, w)
      PROVE  \E w \in View :
                /\ Sound(w) /\ Advances(view[s], w)
                /\ w.lastVote = view[s].lastVote
                /\ view' = [view EXCEPT ![t] = v, ![s] = w]
                /\ disk' = Stored(Stored(disk, t, v), s, w)
  <2> DEFINE u == [about |-> about, config |-> sent.epoch[about],
                   slots |-> SlotsOf(sent, about)]
             x == SeeEpochs(view[s], back)
             w == ProcessUpdate(x, s, u)
  <2>1. Sound(sent)
    BY <1>1, <1>2, ClaimedSound
  <2>2. about \in Node
    <3>1. about \in {sent.owner[j] : j \in {k \in h.claims :
                        /\ sent.owner[k] \notin {h.from, None}
                        /\ sent.epoch[sent.owner[k]] > h.config}}
      BY DEF Newer
    <3>2. PICK j \in h.claims : about = sent.owner[j] /\ about # None
      BY <3>1
    <3>3. j \in Slot
      BY <1>1, HeaderEpochs
    <3> QED
      BY <3>2, <3>3, <2>1 DEF Sound, View
  <2> HIDE DEF sent
  <2>3. Epochs(back) /\ sent.epoch[about] \in Epoch /\ sent.epoch[about] <= sent.current
    <3>1. MasterOf(sent, t) \in Node
      BY <2>1 DEF MasterOf, IsMaster, Sound, View
    <3> QED
      BY <3>1, <2>1, <2>2 DEF Epochs, Sound, Bounded, View
  <2> HIDE DEF back
  <2>4. /\ Sound(x) /\ Advances(view[s], x)
        /\ back.current <= x.current
        /\ x.lastVote = view[s].lastVote
    BY <1>1, <2>3, SeeEpochsSound, SeeEpochsVote DEF Sound
  <2>5. back.current = sent.current
    BY DEF back
  <2> HIDE DEF x
  <2>6. u.about \in Node /\ u.config \in Epoch /\ u.config <= x.current
    <3>1. x.current \in Nat /\ sent.current \in Nat
      BY <2>1, <2>4 DEF Sound, View, Epoch
    <3> QED
      BY <3>1, <2>2, <2>3, <2>4, <2>5 DEF Epoch
  <2> HIDE DEF u
  <2>7. Sound(w) /\ Advances(x, w) /\ w.lastVote = x.lastVote
    BY <2>4, <2>6, ProcessUpdateSound, ProcessUpdateVote
  <2>8. /\ view' = [view EXCEPT ![t] = v, ![s] = w]
        /\ disk' = Stored(Stored(disk, t, v), s, w)
    BY <1>5 DEF u, x
  <2> HIDE DEF w, v
  <2>9. Advances(view[s], w) /\ w \in View
    BY <2>4, <2>7, <1>1, AdvancesTransitive DEF Sound
  <2> QED
    BY <2>4, <2>7, <2>8, <2>9
<1>6. \/ view' = [view EXCEPT ![t] = v] /\ disk' = Stored(disk, t, v)
      \/ \E w \in View :
            /\ Sound(w) /\ Advances(view[s], w)
            /\ w.lastVote = view[s].lastVote
            /\ view' = [view EXCEPT ![t] = v, ![s] = w]
            /\ disk' = Stored(Stored(disk, t, v), s, w)
  BY <1>4, <1>5 DEF Ping
<1> HIDE DEF v
<1> QED
  BY <1>3, <1>6

LEMMA PingStep ==
    ASSUME IInv, NEW s \in Node, NEW t \in Node, s # t, Ping(s, t)
    PROVE  IInv' /\ Grows
<1>1. /\ Tables /\ Elections /\ Packets /\ view \in [Node -> View]
      /\ disk \in [Node -> View]
  BY DEF IInv, Tables
<1>2. election' = election /\ net' = net
  BY DEF Ping
<1>3. Packets'
  BY <1>1, <1>2 DEF Packets
<1>4. PICK v \in View :
        /\ Sound(v) /\ Advances(view[t], v)
        /\ \/ view' = [view EXCEPT ![t] = v] /\ disk' = Stored(disk, t, v)
           \/ \E w \in View :
                 /\ Sound(w) /\ Advances(view[s], w)
                 /\ view' = [view EXCEPT ![t] = v, ![s] = w]
                 /\ disk' = Stored(Stored(disk, t, v), s, w)
  BY PingTables
<1>5. CASE view' = [view EXCEPT ![t] = v] /\ disk' = Stored(disk, t, v)
  <2>1. /\ disk' \in [Node -> View] /\ Saved(v, disk'[t])
        /\ \A n \in Node \ {t} : disk'[n] = disk[n]
    BY <1>1, <1>4, <1>5, StoredFields
  <2>2. Tables' /\ Grows
    BY <2>1, <1>1, <1>4, <1>5, TableStep DEF Advances
  <2>3. \A n \in Node : view'[n].current >= view[n].current
    <3>1. \A n \in Node : view[n].current \in Nat
      BY <1>1 DEF View, Epoch
    <3> QED
      BY <3>1, <1>1, <1>4, <1>5 DEF Advances
  <2> QED
    BY <2>2, <2>3, <1>1, <1>2, <1>3, ElectionsKept DEF IInv
<1>6. ASSUME NEW w \in View, Sound(w), Advances(view[s], w),
             view' = [view EXCEPT ![t] = v, ![s] = w],
             disk' = Stored(Stored(disk, t, v), s, w)
      PROVE  IInv' /\ Grows
  <2>1. /\ Stored(disk, t, v) \in [Node -> View]
        /\ Saved(v, Stored(disk, t, v)[t])
        /\ \A n \in Node \ {t} : Stored(disk, t, v)[n] = disk[n]
    BY <1>1, <1>4, StoredFields
  <2>2. /\ disk' \in [Node -> View] /\ Saved(w, disk'[s])
        /\ \A n \in Node \ {s} : disk'[n] = Stored(disk, t, v)[n]
    BY <2>1, <1>1, <1>6, StoredFields
  <2>3. /\ view' \in [Node -> View] /\ view'[t] = v /\ view'[s] = w
        /\ \A n \in Node \ {s, t} : view'[n] = view[n]
    BY <1>1, <1>6
  <2>4. Saved(v, disk'[t]) /\ \A n \in Node \ {s, t} : disk'[n] = disk[n]
    BY <2>1, <2>2
  <2>5. ASSUME NEW n \in Node
        PROVE  Sound(view'[n]) /\ Saved(view'[n], disk'[n])
    BY <2>2, <2>3, <2>4, <1>1, <1>4, <1>6 DEF Tables
  <2>6. Tables'
    BY <2>2, <2>3, <2>5 DEF Tables, Sound, Saved, MastersOwn, Bounded, IsMaster
  <2>7. ASSUME NEW n \in Node
        PROVE  Advances(view[n], view'[n])
    BY <2>3, <1>1, <1>4, <1>6, AdvancesReflexive
  <2>8. Grows /\ \A n \in Node : view'[n].current >= view[n].current
    BY <2>7 DEF Grows, Advances
  <2> QED
    BY <2>6, <2>8, <1>1, <1>2, <1>3, ElectionsKept DEF IInv
<1> QED
  BY <1>4, <1>5, <1>6

LEMMA ScheduleElectionStep ==
    ASSUME IInv, NEW n \in Node, ScheduleElection(n)
    PROVE  IInv' /\ Grows
<1>1. /\ view' = view /\ disk' = disk /\ net' = net
      /\ election' = [election EXCEPT ![n].sent = FALSE, ![n].count = 0]
  BY DEF ScheduleElection
<1>2. Tables' /\ Grows
  BY <1>1, TablesUnchanged DEF IInv
<1>3. Elections'
  BY <1>1 DEF IInv, Elections, Election
<1>4. Packets'
  BY <1>1 DEF IInv, Packets
<1> QED
  BY <1>2, <1>3, <1>4 DEF IInv

LEMMA StartElectionStep ==
    ASSUME IInv, NEW n \in Node, StartElection(n)
    PROVE  IInv' /\ Grows
<1> DEFINE e == view[n].current + 1
           v == [view[n] EXCEPT !.current = e]
           asked == {[type |-> "request", from |-> n, to |-> t, current |-> e,
                      config |-> Header(n).config, claims |-> Header(n).claims]
                         : t \in Node \ {n}}
<1>1. /\ Tables /\ Elections /\ Packets /\ view \in [Node -> View]
      /\ disk \in [Node -> View] /\ Sound(view[n]) /\ view[n] \in View
  BY DEF IInv, Tables, Sound
<1>2. /\ view' = [view EXCEPT ![n] = v] /\ disk' = [disk EXCEPT ![n] = v]
      /\ election' = [election EXCEPT ![n].epoch = e, ![n].sent = TRUE]
      /\ net' = net \cup asked
  BY DEF StartElection
<1>3. view[n].current \in Nat /\ e \in Nat
  BY <1>1 DEF View, Epoch
<1>4. /\ v \in View /\ v.epoch = view[n].epoch /\ v.current = e
      /\ v.owner = view[n].owner /\ v.master = view[n].master
  BY <1>1, <1>3 DEF View, Epoch
<1>5. Sound(v) /\ \A m \in Node : v.epoch[m] >= view[n].epoch[m]
  <2> HIDE DEF v
  <2>1. \A m \in Node : view[n].epoch[m] \in Nat /\ view[n].epoch[m] <= view[n].current
    BY <1>1 DEF Sound, Bounded, View, Epoch
  <2> QED
    BY <2>1, <1>1, <1>3, <1>4 DEF Sound, Bounded, MastersOwn, IsMaster
<1>6. Tables' /\ Grows
  <2> HIDE DEF v
  <2>1. disk' \in [Node -> View] /\ disk'[n] = v /\ \A t \in Node \ {n} : disk'[t] = disk[t]
    BY <1>1, <1>2, <1>4
  <2>2. Saved(v, disk'[n])
    BY <2>1, <1>5, SavedItself
  <2> QED
    BY <2>1, <2>2, <1>1, <1>2, <1>5, TableStep
<1>7. Elections'
  <2> HIDE DEF v
  <2>1. \A t \in Node : view'[t].current = IF t = n THEN e ELSE view[t].current
    BY <1>1, <1>2, <1>4
  <2> HIDE DEF e
  <2>2. /\ election' \in [Node -> Election]
        /\ \A t \in Node : election'[t].epoch = IF t = n THEN e ELSE election[t].epoch
    <3>1. election \in [Node -> Election] /\ e \in Nat
      BY <1>1, <1>3 DEF Elections
    <3>2. election' = [election EXCEPT ![n].epoch = e, ![n].sent = TRUE]
      BY <1>2
    <3> QED
      BY <3>1, <3>2 DEF Election, Epoch
  <2> QED
    BY <2>1, <2>2, <1>1, <1>3 DEF Elections
<1>8. Packets'
  <2>1. /\ Header(n).config \in Nat /\ Header(n).config <= view[n].current
        /\ Header(n).claims \subseteq Slot
    BY <1>1, HeaderEpochs DEF HeaderOK, Epochs, Epoch, Header
  <2>2. ASSUME NEW m \in asked
        PROVE  m \in Message /\ m.config <= m.current
    BY <2>1, <1>3 DEF Message, Epoch
  <2> HIDE DEF asked
  <2> QED
    BY <2>2, <1>1, <1>2 DEF Packets
<1> QED
  BY <1>6, <1>7, <1>8 DEF IInv

\* A packet's epochs, seen by n, which then may change its last vote.
LEMMA ReceiveStep ==
    ASSUME IInv, NEW n \in Node, NEW m \in net, NEW w,
           LET v == SeeEpochs(view[n], m)
           IN /\ w \in {v, [v EXCEPT !.lastVote = v.current]}
              /\ disk' = Stored(disk, n, v),
           view' = [view EXCEPT ![n] = w]
    PROVE  /\ Tables' /\ Grows
           /\ \A t \in Node : view'[t].current >= view[t].current
<1> DEFINE v == SeeEpochs(view[n], m)
<1>1. /\ Tables /\ view \in [Node -> View] /\ disk \in [Node -> View]
      /\ Sound(view[n]) /\ Epochs(m)
  BY MessageEpochs DEF IInv, Tables
<1>2. Sound(v) /\ Advances(view[n], v)
  BY <1>1, SeeEpochsSound
<1>3. w \in {v, [v EXCEPT !.lastVote = v.current]} /\ disk' = Stored(disk, n, v)
  OBVIOUS
<1> HIDE DEF v
<1>4. /\ w \in View /\ w.epoch = v.epoch /\ w.current = v.current
      /\ w.owner = v.owner /\ w.master = v.master
  BY <1>2, <1>3 DEF Sound, View
<1>5. Sound(w)
  BY <1>2, <1>4 DEF Sound, MastersOwn, Bounded, IsMaster
<1>6. /\ disk' \in [Node -> View] /\ Saved(v, disk'[n])
      /\ \A t \in Node \ {n} : disk'[t] = disk[t]
  BY <1>1, <1>2, <1>3, StoredFields
<1>7. Saved(w, disk'[n])
  BY <1>4, <1>6 DEF Saved
<1>8. \A k \in Node : w.epoch[k] >= view[n].epoch[k]
  BY <1>2, <1>4 DEF Advances
<1>9. Tables' /\ Grows
  BY <1>1, <1>5, <1>6, <1>7, <1>8, TableStep
<1>10. ASSUME NEW t \in Node
       PROVE  view'[t].current >= view[t].current
  <2>1. view[t].current \in Nat
    BY <1>1 DEF View, Epoch
  <2> QED
    BY <2>1, <1>1, <1>2, <1>4 DEF Advances
<1> QED
  BY <1>9, <1>10

LEMMA ReceiveRequestStep ==
    ASSUME IInv, NEW n \in Node, ReceiveRequest(n)
    PROVE  IInv' /\ Grows
<1>1. PICK m \in net :
        LET v == SeeEpochs(view[n], m)
        IN /\ \/ /\ view' = [view EXCEPT ![n] = v]
                 /\ net' = net \ {m}
              \/ /\ view' = [view EXCEPT ![n] = [v EXCEPT !.lastVote = v.current]]
                 /\ net' = (net \ {m}) \cup
                      {[type |-> "ack", from |-> n, to |-> m.from,
                        current |-> v.current, config |-> v.epoch[n],
                        claims |-> {}]}
           /\ disk' = Stored(disk, n, v)
           /\ election' = election
  BY DEF ReceiveRequest
<1> DEFINE v == SeeEpochs(view[n], m)
           w == [v EXCEPT !.lastVote = v.current]
<1>2. /\ Tables /\ Elections /\ Packets /\ Epochs(m) /\ Sound(view[n])
  BY MessageEpochs DEF IInv, Tables
<1>3. Sound(v)
  BY <1>2, SeeEpochsSound
<1>4. /\ Tables' /\ Grows
      /\ \A t \in Node : view'[t].current >= view[t].current
  <2>1. view' = [view EXCEPT ![n] = v] \/ view' = [view EXCEPT ![n] = w]
    BY <1>1
  <2>2. CASE view' = [view EXCEPT ![n] = v]
    BY <2>2, <1>1, ReceiveStep
  <2>3. CASE view' = [view EXCEPT ![n] = w]
    BY <2>3, <1>1, ReceiveStep
  <2> QED
    BY <2>1, <2>2, <2>3
<1>5. Elections'
  BY <1>1, <1>2, <1>4, ElectionsKept
<1>6. Packets'
  <2> DEFINE ack == [type |-> "ack", from |-> n, to |-> m.from,
                     current |-> v.current, config |-> v.epoch[n], claims |-> {}]
  <2>1. net' \subseteq net \cup {ack}
    BY <1>1
  <2> HIDE DEF v
  <2>2. ack \in Message /\ ack.config <= ack.current
    BY <1>2, <1>3 DEF Message, Sound, Bounded, View, Epochs
  <2> QED
    BY <2>1, <2>2, <1>2 DEF Packets
<1> QED
  BY <1>4, <1>5, <1>6 DEF IInv

LEMMA ReceiveAckStep ==
    ASSUME IInv, NEW n \in Node, ReceiveAck(n)
    PROVE  IInv' /\ Grows
<1>1. PICK m \in net :
        /\ net' = net \ {m}
        /\ view' = [view EXCEPT ![n] = SeeEpochs(view[n], m)]
        /\ disk' = Stored(disk, n, SeeEpochs(view[n], m))
        /\ \/ election' = election
           \/ election' = [election EXCEPT ![n].count = @ + 1]
  BY DEF ReceiveAck
<1>2. Tables /\ Elections /\ Packets
  BY DEF IInv
<1>3. /\ Tables' /\ Grows
      /\ \A t \in Node : view'[t].current >= view[t].current
  BY <1>1, ReceiveStep
<1>4. Elections'
  <2>1. \A t \in Node : /\ view[t].current \in Nat /\ view'[t].current \in Nat
                        /\ election[t].epoch \in Nat
    BY <1>2, <1>3 DEF Tables, Elections, View, Election, Epoch
  <2>2. election' \in [Node -> Election]
        /\ \A t \in Node : election'[t].epoch = election[t].epoch
    BY <1>1, <1>2 DEF Elections, Election
  <2> QED
    BY <2>1, <2>2, <1>2, <1>3 DEF Elections
<1>5. Packets'
  BY <1>1, <1>2 DEF Packets
<1> QED
  BY <1>3, <1>4, <1>5 DEF IInv

LEMMA WinElectionStep ==
    ASSUME IInv, NEW n \in Node, WinElection(n)
    PROVE  IInv' /\ Grows
<1> DEFINE top == Max({view[n].epoch[n], election[n].epoch})
           v == [view[n] EXCEPT !.epoch[n] = top]
           w == ReplaceYourMaster(v, n)
<1>1. /\ Tables /\ Elections /\ Packets /\ view \in [Node -> View]
      /\ disk \in [Node -> View] /\ Sound(view[n]) /\ view[n] \in View
  BY DEF IInv, Tables, Sound
<1>2. /\ view' = [view EXCEPT ![n] = w] /\ disk' = [disk EXCEPT ![n] = w]
      /\ election' = election /\ net' = net
  BY DEF WinElection
<1>3. /\ view[n].epoch \in [Node -> Nat] /\ view[n].current \in Nat
      /\ election[n].epoch \in Nat /\ election[n].epoch <= view[n].current
      /\ \A m \in Node : view[n].epoch[m] <= view[n].current
  BY <1>1 DEF Elections, Election, Sound, Bounded, View, Epoch
<1>4. top \in Nat /\ top <= view[n].current /\ top >= view[n].epoch[n]
  <2>1. view[n].epoch[n] \in Nat
    BY <1>3
  <2>2. top \in {view[n].epoch[n], election[n].epoch} /\ top >= view[n].epoch[n]
    BY <2>1, <1>3, MaxOfTwo
  <2> HIDE DEF top
  <2> QED
    BY <2>1, <2>2, <1>3
<1> HIDE DEF top
<1>5. /\ v \in View /\ v.epoch = [view[n].epoch EXCEPT ![n] = top]
      /\ v.current = view[n].current
      /\ v.owner = view[n].owner /\ v.master = view[n].master
  BY <1>1, <1>3, <1>4 DEF View, Epoch
<1>6. Sound(v) /\ \A m \in Node : v.epoch[m] >= view[n].epoch[m]
  <2> HIDE DEF v
  <2>1. \A m \in Node : v.epoch[m] = IF m = n THEN top ELSE view[n].epoch[m]
    BY <1>3, <1>5
  <2>2. \A m \in Node : view[n].epoch[m] \in Nat
    BY <1>3
  <2> QED
    BY <2>1, <2>2, <1>1, <1>3, <1>4, <1>5 DEF Sound, Bounded, MastersOwn, IsMaster
<1> HIDE DEF v
<1>7. Sound(w) /\ w.epoch = v.epoch /\ w.current = v.current
  BY <1>6, ReplaceYourMasterSound
<1> HIDE DEF w
<1>8. Tables' /\ Grows
  <2>1. /\ disk' \in [Node -> View] /\ disk'[n] = w
        /\ \A t \in Node \ {n} : disk'[t] = disk[t]
    BY <1>1, <1>2, <1>7 DEF Sound
  <2>2. Saved(w, disk'[n])
    BY <2>1, <1>7, SavedItself
  <2> QED
    BY <2>1, <2>2, <1>1, <1>2, <1>6, <1>7, TableStep
<1>9. Elections'
  <2>1. \A t \in Node : view'[t].current = view[t].current
    BY <1>1, <1>2, <1>5, <1>7
  <2>2. election' \in [Node -> Election]
        /\ \A t \in Node : election'[t].epoch = election[t].epoch
    BY <1>1, <1>2 DEF Elections, Election
  <2> QED
    BY <2>1, <2>2, <1>1 DEF Elections
<1>10. Packets'
  BY <1>1, <1>2 DEF Packets
<1> QED
  BY <1>8, <1>9, <1>10 DEF IInv

LEMMA TakeoverStep ==
    ASSUME IInv, NEW n \in Node, Takeover(n)
    PROVE  IInv' /\ Grows
<1> DEFINE v == BumpConfigEpoch(view[n], n)
           w == ReplaceYourMaster(v, n)
<1>1. /\ Tables /\ Elections /\ Packets /\ view \in [Node -> View]
      /\ disk \in [Node -> View] /\ Sound(view[n])
  BY DEF IInv, Tables
<1>2. /\ view' = [view EXCEPT ![n] = w] /\ disk' = [disk EXCEPT ![n] = w]
      /\ election' = election /\ net' = net
  BY DEF Takeover
<1>3. Sound(v) /\ Advances(view[n], v)
  BY <1>1, BumpConfigEpochSound
<1> HIDE DEF v
<1>4. Sound(w) /\ w.epoch = v.epoch /\ w.current = v.current
  BY <1>3, ReplaceYourMasterSound
<1> HIDE DEF w
<1>5. Tables' /\ Grows
  <2>1. /\ disk' \in [Node -> View] /\ disk'[n] = w
        /\ \A t \in Node \ {n} : disk'[t] = disk[t]
    BY <1>1, <1>2, <1>4 DEF Sound
  <2>2. Saved(w, disk'[n])
    BY <2>1, <1>4, SavedItself
  <2> QED
    BY <2>1, <2>2, <1>1, <1>2, <1>3, <1>4, TableStep DEF Advances
<1>6. Elections'
  <2>1. \A t \in Node : view[t].current \in Nat
    BY <1>1 DEF View, Epoch
  <2>2. \A t \in Node : view'[t].current >= view[t].current
    BY <2>1, <1>1, <1>2, <1>3, <1>4 DEF Advances
  <2> QED
    BY <2>2, <1>1, <1>2, <1>5, ElectionsKept
<1>7. Packets'
  BY <1>1, <1>2 DEF Packets
<1> QED
  BY <1>5, <1>6, <1>7 DEF IInv

LEMMA MaxConfigEpochIs ==
    ASSUME NEW v \in View, NEW n \in Node
    PROVE  /\ MaxConfigEpoch(v) \in Nat
           /\ \A m \in Node : v.epoch[m] <= MaxConfigEpoch(v)
           /\ \E m \in Node : MaxConfigEpoch(v) = v.epoch[m]
<1>1. v.epoch \in [Node -> Nat] /\ IsFiniteSet(Node) /\ Node # {}
  BY ClusterAssumption DEF View, Epoch
<1> QED
  BY <1>1, MaxOfRange DEF MaxConfigEpoch

\* A restart takes the epochs from the file, which are those of the memory.
LEMMA RestartStep ==
    ASSUME IInv, NEW n \in Node, Restart(n)
    PROVE  IInv' /\ Grows
<1> DEFINE d == disk[n]
           top == Max({d.current, MaxConfigEpoch(d)})
           w == [d EXCEPT !.current = top]
<1>1. /\ Tables /\ Elections /\ Packets /\ view \in [Node -> View]
      /\ disk \in [Node -> View] /\ Sound(view[n]) /\ Saved(view[n], d) /\ d \in View
  BY DEF IInv, Tables
<1>2. /\ view' = [view EXCEPT ![n] = w] /\ disk' = disk
      /\ election' = [election EXCEPT ![n] = NoElection]
      /\ net' \subseteq net
  BY DEF Restart
<1> HIDE DEF d
<1>3. /\ top \in Nat /\ d.current <= top /\ MaxConfigEpoch(d) <= top
      /\ \A m \in Node : d.epoch[m] \in Nat /\ d.epoch[m] <= top
  <2>1. /\ d.current \in Nat /\ MaxConfigEpoch(d) \in Nat
        /\ \A m \in Node : d.epoch[m] \in Nat /\ d.epoch[m] <= MaxConfigEpoch(d)
    BY <1>1, MaxConfigEpochIs DEF View, Epoch
  <2>2. top \in Nat /\ top >= d.current /\ top >= MaxConfigEpoch(d)
    BY <2>1, MaxOfTwo
  <2> HIDE DEF top
  <2> QED
    BY <2>1, <2>2
<1> HIDE DEF top
<1>4. /\ w \in View /\ w.epoch = d.epoch /\ w.current = top
      /\ w.owner = d.owner /\ w.master = d.master
  BY <1>1, <1>3 DEF View, Epoch
<1> HIDE DEF w
<1>5. Sound(w) /\ Saved(w, d)
  BY <1>1, <1>3, <1>4 DEF Sound, Saved, MastersOwn, Bounded, IsMaster
<1>6. Tables' /\ Grows
  <2>1. \A m \in Node : w.epoch[m] >= view[n].epoch[m]
    BY <1>1, <1>3, <1>4 DEF Saved
  <2>2. Saved(w, disk'[n])
    BY <1>2, <1>5 DEF d
  <2> QED
    BY <2>1, <2>2, <1>1, <1>2, <1>5, TableStep
<1>7. Elections'
  <2>1. NoElection \in Election /\ NoElection.epoch = 0
    BY DEF NoElection, Election, Epoch
  <2>2. /\ view' \in [Node -> View] /\ view'[n] = w
        /\ \A t \in Node \ {n} : view'[t] = view[t]
    BY <1>1, <1>2, <1>4
  <2>3. /\ election' \in [Node -> Election] /\ election'[n] = NoElection
        /\ \A t \in Node \ {n} : election'[t] = election[t]
    BY <1>1, <1>2, <2>1 DEF Elections
  <2>4. election'[n].epoch <= view'[n].current
    BY <2>1, <2>2, <2>3, <1>3, <1>4
  <2> HIDE DEF NoElection
  <2> QED
    BY <2>2, <2>3, <2>4, <1>1 DEF Elections
<1>8. Packets'
  BY <1>1, <1>2 DEF Packets
<1> QED
  BY <1>6, <1>7, <1>8 DEF IInv

-----------------------------------------------------------------------------
(* The theorems about the tables *)

LEMMA InitIInv == Init => IInv
<1> SUFFICES ASSUME Init PROVE IInv
  OBVIOUS
<1> DEFINE top == Max(Range(FirstEpoch))
           first(n) == [m \in Node |->
                          IF FirstMaster[m] = None THEN FirstEpoch[m]
                          ELSE IF m = n THEN 0 ELSE FirstEpoch[FirstMaster[m]]]
           v(n) == [owner |-> FirstOwner, master |-> FirstMaster,
                    epoch |-> first(n), current |-> top, lastVote |-> 0]
<1>1. ASSUME NEW n \in Node
      PROVE  /\ top \in Nat /\ first(n) \in [Node -> Nat]
             /\ \A m \in Node : first(n)[m] <= top
  <2>1. /\ MasterNodes \subseteq Node /\ IsFiniteSet(MasterNodes)
        /\ FirstEpoch \in [MasterNodes -> Nat]
        /\ FirstMaster \in [Node -> MasterNodes \cup {None}]
    BY ClusterAssumption, FS_Subset DEF MasterNodes
  <2>2. MasterNodes # {}
    BY <2>1 DEF MasterNodes
  <2>3. top \in Nat /\ \A m \in MasterNodes : FirstEpoch[m] <= top
    BY <2>1, <2>2, MaxOfRange
  <2> HIDE DEF top
  <2>4. ASSUME NEW m \in Node
        PROVE  first(n)[m] \in Nat /\ first(n)[m] <= top
    <3>1. CASE FirstMaster[m] = None
      <4>1. m \in MasterNodes
        BY <3>1 DEF MasterNodes
      <4> QED
        BY <4>1, <3>1, <2>1, <2>3
    <3>2. CASE FirstMaster[m] # None
      <4>1. FirstMaster[m] \in MasterNodes
        BY <3>2, <2>1
      <4> QED
        BY <4>1, <3>2, <2>1, <2>3
    <3> QED
      BY <3>1, <3>2
  <2> QED
    BY <2>3, <2>4
<1>2. FirstOwner \in [Slot -> Node] /\ FirstMaster \in [Node -> Node \cup {None}]
      /\ \A j \in Slot : FirstMaster[FirstOwner[j]] = None
  BY ClusterAssumption DEF MasterNodes
<1>3. view = [n \in Node |-> v(n)] /\ disk = view
  BY DEF Init
<1> HIDE DEF top, first
<1>4. ASSUME NEW n \in Node
      PROVE  v(n) \in View /\ Sound(v(n)) /\ Saved(v(n), v(n))
  BY <1>1, <1>2 DEF View, Epoch, Sound, Saved, MastersOwn, Bounded, IsMaster
<1> HIDE DEF v
<1>5. Tables
  BY <1>3, <1>4 DEF Tables
<1>6. Elections
  <2>1. election = [n \in Node |-> NoElection]
    BY DEF Init
  <2>2. NoElection \in Election /\ NoElection.epoch = 0
    BY DEF NoElection, Election, Epoch
  <2>3. \A n \in Node : view[n].current \in Nat
    BY <1>5 DEF Tables, View, Epoch
  <2> HIDE DEF NoElection
  <2> QED
    BY <2>1, <2>2, <2>3 DEF Elections
<1>7. Packets
  BY DEF Init, Packets
<1> QED
  BY <1>5, <1>6, <1>7 DEF IInv

LEMMA NextIInv ==
    ASSUME IInv, [Next]_vars
    PROVE  IInv' /\ Grows
<1>1. ASSUME NEW s \in Node, NEW t \in Node \ {s}, Ping(s, t)
      PROVE  IInv' /\ Grows
  BY <1>1, PingStep
<1>2. ASSUME NEW n \in Node, Failover(n)
      PROVE  IInv' /\ Grows
  BY <1>2, ScheduleElectionStep, StartElectionStep, WinElectionStep, TakeoverStep
     DEF Failover
<1>3. ASSUME NEW n \in Node, Receive(n)
      PROVE  IInv' /\ Grows
  BY <1>3, ReceiveRequestStep, ReceiveAckStep DEF Receive
<1>4. ASSUME NEW n \in Node, Restart(n)
      PROVE  IInv' /\ Grows
  BY <1>4, RestartStep
<1>5. CASE UNCHANGED vars
  <2>1. view' = view /\ disk' = disk /\ election' = election /\ net' = net
    BY <1>5 DEF vars
  <2>2. Tables' /\ Grows
    BY <2>1, TablesUnchanged DEF IInv
  <2> QED
    BY <2>1, <2>2 DEF IInv, Elections, Packets
<1> QED
  BY <1>1, <1>2, <1>3, <1>4, <1>5 DEF Next

\* What the other theorems follow from: the tables, the elections and the
\* packets of cluster.c fit each other after any packets, elections,
\* takeovers and restarts.
THEOREM Invariance == Spec => []IInv
<1>1. Init => IInv
  BY InitIInv
<1>2. IInv /\ [Next]_vars => IInv'
  BY NextIInv
<1> QED
  BY <1>1, <1>2, PTL DEF Spec

\* The tables, the files, the elections and the packets have their types.
THEOREM TypeInvariant == Spec => []TypeOK
<1>1. IInv => TypeOK
  BY DEF IInv, Tables, Elections, Packets, TypeOK
<1> QED
  BY <1>1, Invariance, PTL

\* No slot is ever bound to a slave, in any node's table.
THEOREM OwnersAreMastersAlways == Spec => []OwnersAreMasters
<1>1. IInv => OwnersAreMasters
  BY DEF IInv, Tables, Sound, MastersOwn, OwnersAreMasters
<1> QED
  BY <1>1, Invariance, PTL

\* "Something that should never happen" does not: no epoch of a table, in
\* memory or in the file, is beyond the current epoch of its node.
THEOREM EpochsBoundedAlways == Spec => []EpochsBounded
<1>1. IInv => EpochsBounded
  <2> SUFFICES ASSUME IInv, NEW n \in Node
               PROVE  /\ MaxConfigEpoch(view[n]) <= view[n].current
                      /\ MaxConfigEpoch(disk[n]) <= view[n].current
    BY DEF EpochsBounded
  <2>1. /\ view[n] \in View /\ disk[n] \in View /\ Bounded(view[n])
        /\ disk[n].epoch = view[n].epoch
    BY DEF IInv, Tables, Sound, Saved
  <2>2. /\ \E m \in Node : MaxConfigEpoch(view[n]) = view[n].epoch[m]
        /\ \E m \in Node : MaxConfigEpoch(disk[n]) = disk[n].epoch[m]
    BY <2>1, MaxConfigEpochIs
  <2> QED
    BY <2>1, <2>2 DEF Bounded
<1> QED
  BY <1>1, Invariance, PTL

\* A node never serves under an epoch older than one it served under before,
\* restarts included.
THEOREM OwnEpochGrowsAlways == Spec => OwnEpochGrows
<1>1. IInv /\ [Next]_vars => [\A n \in Node : view'[n].epoch[n] >= view[n].epoch[n]]_vars
  BY NextIInv DEF Grows
<1> QED
  BY <1>1, Invariance, PTL DEF Spec, OwnEpochGrows

-----------------------------------------------------------------------------
(* The files do not go back either *)

\* The current epoch of a file is not beyond that of the memory.
Behind == \A n \in Node : disk[n].current <= view[n].current

Forward == \A n \in Node : /\ disk[n].current <= disk'[n].current
                           /\ disk'[n].current <= view'[n].current

LEMMA CurrentTypes ==
    ASSUME IInv, NEW n \in Node
    PROVE  view[n].current \in Nat /\ disk[n].current \in Nat
  BY DEF IInv, Tables, View, Epoch

LEMMA StoredCurrent ==
    ASSUME IInv, Behind, NEW d \in [Node -> View], NEW n \in Node, d[n] = disk[n],
           NEW v \in View, v.current >= view[n].current
    PROVE  /\ Stored(d, n, v)[n].current >= disk[n].current
           /\ Stored(d, n, v)[n].current <= v.current
           /\ \A t \in Node \ {n} : Stored(d, n, v)[t] = d[t]
           /\ Stored(d, n, v) \in [Node -> View]
<1> DEFINE same == [v EXCEPT !.current = 0] = [view[n] EXCEPT !.current = 0]
<1>1. /\ view[n].current \in Nat /\ disk[n].current \in Nat
      /\ v.current \in Nat /\ disk[n].current <= view[n].current
  BY CurrentTypes DEF Behind, View, Epoch
<1>2. Stored(d, n, v) = [d EXCEPT ![n] = IF same THEN d[n] ELSE v]
  BY DEF Stored
<1> HIDE DEF same
<1> QED
  BY <1>1, <1>2

\* One node goes on with another table that is not behind, and saves it or not.
LEMMA StoredForward ==
    ASSUME IInv, Behind, NEW n \in Node, NEW v \in View,
           v.current >= view[n].current, disk' = Stored(disk, n, v),
           view'[n].current = v.current,
           \A t \in Node \ {n} : view'[t] = view[t]
    PROVE  Forward
<1>1. disk \in [Node -> View]
  BY DEF IInv, Tables
<1>2. /\ disk'[n].current >= disk[n].current /\ disk'[n].current <= view'[n].current
      /\ \A t \in Node \ {n} : disk'[t] = disk[t]
  BY <1>1, StoredCurrent
<1>3. disk'[n].current \in Nat
  <2>1. disk' \in [Node -> View]
    BY <1>1, StoredCurrent
  <2> QED
    BY <2>1 DEF View, Epoch
<1>4. ASSUME NEW t \in Node
      PROVE  disk[t].current <= disk'[t].current /\ disk'[t].current <= view'[t].current
  <2>1. disk[t].current \in Nat /\ view[t].current \in Nat
    BY CurrentTypes
  <2>2. CASE t = n
    BY <2>1, <2>2, <1>2, <1>3
  <2>3. CASE t # n
    BY <2>1, <2>3, <1>2 DEF Behind
  <2> QED
    BY <2>2, <2>3
<1> QED
  BY <1>4 DEF Forward

\* One node saves what it goes on with.
LEMMA SavedForward ==
    ASSUME IInv, Behind, NEW n \in Node, NEW v \in View,
           v.current >= view[n].current,
           view' = [view EXCEPT ![n] = v], disk' = [disk EXCEPT ![n] = v]
    PROVE  Forward
<1>1. view \in [Node -> View] /\ disk \in [Node -> View]
  BY DEF IInv, Tables
<1>2. ASSUME NEW t \in Node
      PROVE  disk[t].current <= disk'[t].current /\ disk'[t].current <= view'[t].current
  <2>1. /\ disk[t].current \in Nat /\ view[t].current \in Nat /\ v.current \in Nat
        /\ disk[t].current <= view[t].current
    BY CurrentTypes DEF View, Epoch, Behind
  <2>2. CASE t = n
    BY <2>1, <2>2, <1>1
  <2>3. CASE t # n
    BY <2>1, <2>3, <1>1
  <2> QED
    BY <2>2, <2>3
<1> QED
  BY <1>2 DEF Forward

LEMMA PingForward ==
    ASSUME IInv, Behind, NEW s \in Node, NEW t \in Node, s # t, Ping(s, t)
    PROVE  Forward
<1>1. /\ view \in [Node -> View] /\ disk \in [Node -> View]
      /\ \A n \in Node : /\ view[n].current \in Nat /\ disk[n].current \in Nat
                         /\ disk[n].current <= view[n].current
  BY CurrentTypes DEF IInv, Tables, Behind
<1>2. PICK v \in View :
        /\ Sound(v) /\ Advances(view[t], v)
        /\ \/ view' = [view EXCEPT ![t] = v] /\ disk' = Stored(disk, t, v)
           \/ \E w \in View :
                 /\ Sound(w) /\ Advances(view[s], w)
                 /\ view' = [view EXCEPT ![t] = v, ![s] = w]
                 /\ disk' = Stored(Stored(disk, t, v), s, w)
  BY PingTables
<1>3. v.current >= view[t].current /\ v.current \in Nat
  BY <1>2 DEF Advances, View, Epoch
<1>4. CASE view' = [view EXCEPT ![t] = v] /\ disk' = Stored(disk, t, v)
  BY <1>1, <1>3, <1>4, StoredForward
<1>5. ASSUME NEW w \in View, Advances(view[s], w),
             view' = [view EXCEPT ![t] = v, ![s] = w],
             disk' = Stored(Stored(disk, t, v), s, w)
      PROVE  Forward
  <2>1. w.current >= view[s].current /\ w.current \in Nat
    BY <1>5 DEF Advances, View, Epoch
  <2> DEFINE d == Stored(disk, t, v)
  <2>2. /\ d[t].current >= disk[t].current /\ d[t].current <= v.current
        /\ d \in [Node -> View] /\ \A n \in Node \ {t} : d[n] = disk[n]
    BY <1>1, <1>3, StoredCurrent
  <2>3. disk' = Stored(d, s, w)
    BY <1>5
  <2> HIDE DEF d
  <2>4. /\ disk'[s].current >= disk[s].current /\ disk'[s].current <= w.current
        /\ \A n \in Node \ {s} : disk'[n] = d[n]
    BY <2>1, <2>2, <2>3, StoredCurrent
  <2>5. /\ view'[t] = v /\ view'[s] = w
        /\ \A n \in Node \ {s, t} : view'[n] = view[n]
    BY <1>1, <1>5
  <2>6. ASSUME NEW n \in Node
        PROVE  disk[n].current <= disk'[n].current /\ disk'[n].current <= view'[n].current
    <3>1. CASE n = s
      BY <3>1, <2>4, <2>5
    <3>2. CASE n = t
      BY <3>2, <2>2, <2>4, <2>5
    <3>3. CASE n \notin {s, t}
      <4>1. disk'[n] = disk[n] /\ view'[n] = view[n]
        BY <3>3, <2>2, <2>4, <2>5
      <4> QED
        BY <4>1, <1>1
    <3> QED
      BY <3>1, <3>2, <3>3
  <2> QED
    BY <2>6 DEF Forward
<1> QED
  BY <1>2, <1>4, <1>5

LEMMA ReceiveForward ==
    ASSUME IInv, Behind, NEW n \in Node, Receive(n)
    PROVE  Forward
<1>1. PICK m \in net :
        LET v == SeeEpochs(view[n], m)
        IN /\ \/ view' = [view EXCEPT ![n] = v]
              \/ view' = [view EXCEPT ![n] = [v EXCEPT !.lastVote = v.current]]
           /\ disk' = Stored(disk, n, v)
  BY DEF Receive, ReceiveRequest, ReceiveAck
<1> DEFINE v == SeeEpochs(view[n], m)
<1>2. view \in [Node -> View] /\ Sound(view[n]) /\ Epochs(m)
  BY MessageEpochs DEF IInv, Tables
<1>3. Sound(v) /\ Advances(view[n], v)
  BY <1>2, SeeEpochsSound
<1>4. /\ \/ view' = [view EXCEPT ![n] = v]
         \/ view' = [view EXCEPT ![n] = [v EXCEPT !.lastVote = v.current]]
      /\ disk' = Stored(disk, n, v)
  BY <1>1
<1> HIDE DEF v
<1>5. v \in View /\ v.current >= view[n].current
  BY <1>3 DEF Sound, Advances
<1>6. view'[n].current = v.current /\ \A t \in Node \ {n} : view'[t] = view[t]
  BY <1>2, <1>4, <1>5 DEF View
<1> QED
  BY <1>4, <1>5, <1>6, StoredForward

LEMMA FailoverForward ==
    ASSUME IInv, Behind, NEW n \in Node, Failover(n)
    PROVE  Forward
<1>1. /\ view \in [Node -> View] /\ Sound(view[n]) /\ view[n] \in View
      /\ view[n].current \in Nat
  BY CurrentTypes DEF IInv, Tables
<1>2. CASE ScheduleElection(n)
  <2>1. view' = view /\ disk' = disk
    BY <1>2 DEF ScheduleElection
  <2> QED
    BY <2>1, CurrentTypes DEF Forward, Behind
<1>3. CASE StartElection(n)
  <2> DEFINE v == [view[n] EXCEPT !.current = view[n].current + 1]
  <2>1. v \in View /\ v.current >= view[n].current
    <3>1. view[n].current + 1 \in Nat /\ view[n].current + 1 >= view[n].current
      BY <1>1
    <3>2. v \in View /\ v.current = view[n].current + 1
      BY <3>1, <1>1 DEF View, Epoch
    <3> HIDE DEF v
    <3> QED
      BY <3>1, <3>2
  <2>2. view' = [view EXCEPT ![n] = v] /\ disk' = [disk EXCEPT ![n] = v]
    BY <1>3 DEF StartElection
  <2> HIDE DEF v
  <2> QED
    BY <2>1, <2>2, SavedForward
<1>4. CASE WinElection(n)
  <2> DEFINE top == Max({view[n].epoch[n], election[n].epoch})
             v == [view[n] EXCEPT !.epoch[n] = top]
             w == ReplaceYourMaster(v, n)
  <2>1. view' = [view EXCEPT ![n] = w] /\ disk' = [disk EXCEPT ![n] = w]
    BY <1>4 DEF WinElection
  <2>2. IInv'
    BY <1>4, WinElectionStep
  <2>3. w \in View
    <3> HIDE DEF w
    <3>1. view'[n] = w
      BY <2>1, <1>1
    <3> QED
      BY <3>1, <2>2 DEF IInv, Tables
  <2>4. w.current = view[n].current
    <3>1. v.current = view[n].current
      BY <1>1 DEF View
    <3> HIDE DEF v
    <3>2. w.current = v.current
      BY DEF ReplaceYourMaster, Assign
    <3> QED
      BY <3>1, <3>2
  <2> HIDE DEF w, v
  <2>5. w.current >= view[n].current
    BY <2>4, <1>1
  <2> QED
    BY <2>1, <2>3, <2>5, SavedForward
<1>5. CASE Takeover(n)
  <2> DEFINE v == BumpConfigEpoch(view[n], n)
             w == ReplaceYourMaster(v, n)
  <2>1. view' = [view EXCEPT ![n] = w] /\ disk' = [disk EXCEPT ![n] = w]
    BY <1>5 DEF Takeover
  <2>2. Sound(v) /\ Advances(view[n], v)
    BY <1>1, BumpConfigEpochSound
  <2> HIDE DEF v
  <2>3. Sound(w) /\ w.current = v.current
    BY <2>2, ReplaceYourMasterSound
  <2> HIDE DEF w
  <2>4. w \in View /\ w.current >= view[n].current
    BY <2>2, <2>3 DEF Sound, Advances
  <2> QED
    BY <2>1, <2>4, SavedForward
<1> QED
  BY <1>2, <1>3, <1>4, <1>5 DEF Failover

LEMMA RestartForward ==
    ASSUME IInv, Behind, NEW n \in Node, Restart(n)
    PROVE  Forward
<1> DEFINE top == Max({disk[n].current, MaxConfigEpoch(disk[n])})
<1>1. /\ view \in [Node -> View] /\ disk[n] \in View
      /\ \A t \in Node : /\ view[t].current \in Nat /\ disk[t].current \in Nat
                         /\ disk[t].current <= view[t].current
  BY CurrentTypes DEF IInv, Tables, Behind
<1>2. /\ view' = [view EXCEPT ![n] = [disk[n] EXCEPT !.current = top]]
      /\ disk' = disk
  BY DEF Restart
<1>3. top \in Nat /\ top >= disk[n].current
  <2>1. MaxConfigEpoch(disk[n]) \in Nat
    BY <1>1, MaxConfigEpochIs
  <2> QED
    BY <2>1, <1>1, MaxOfTwo
<1> HIDE DEF top
<1>4. view'[n].current = top /\ \A t \in Node \ {n} : view'[t] = view[t]
  BY <1>1, <1>2, <1>3 DEF View
<1>5. ASSUME NEW t \in Node
      PROVE  disk[t].current <= disk'[t].current /\ disk'[t].current <= view'[t].current
  <2>1. CASE t = n
    BY <2>1, <1>1, <1>2, <1>3, <1>4
  <2>2. CASE t # n
    BY <2>2, <1>1, <1>2, <1>4
  <2> QED
    BY <2>1, <2>2
<1> QED
  BY <1>5 DEF Forward

LEMMA NextForward ==
    ASSUME IInv, Behind, [Next]_vars
    PROVE  Forward
<1>1. CASE UNCHANGED vars
  <2>1. view' = view /\ disk' = disk
    BY <1>1 DEF vars
  <2> QED
    BY <2>1, CurrentTypes DEF Forward, Behind
<1> QED
  BY <1>1, PingForward, FailoverForward, ReceiveForward, RestartForward DEF Next

-----------------------------------------------------------------------------
(* Votes *)

\* A vote is counted only while its election is under way. ReceiveAck also
\* counts a late one for the next election, which run cluster_vote shows.
CountedInTime ==
    \A n \in Node : election'[n].count > election[n].count => election[n].sent

Voters(n, e) == {t \in Node : <<t, e, n>> \in votes}

\* Those whose vote is no longer on its way.
Arrived(n, e) ==
    {t \in Voters(n, e) :
       \A m \in net : ~(m.type = "ack" /\ m.from = t /\ m.to = n /\ m.current = e)}

\* The votes an election has counted are votes for it, and every other one is
\* yet to come.
Counts(n) ==
    IF election[n].sent
    THEN /\ election[n].epoch <= disk[n].current
         /\ election[n].count <= Cardinality(Arrived(n, election[n].epoch))
    ELSE election[n].count = 0

\* What n has asked for, it has asked for in its present election or before.
Asked(n, e) == /\ e <= disk[n].current
               /\ election[n].sent => e <= election[n].epoch

\* A request has not been granted, an answer was given.
Posted(m) ==
    /\ m.type = "request" => /\ Asked(m.from, m.current)
                             /\ <<m.to, m.current, m.from>> \notin votes
    /\ m.type = "ack" => <<m.from, m.current, m.to>> \in votes

\* No node is asked twice in an epoch by the same slave, nor answers twice.
Once ==
    \A m, p \in net :
       /\ m.type = p.type /\ m.from = p.from /\ m.to = p.to
       /\ m.current = p.current
       => m = p

Voted ==
    \A t, n \in Node : \A e \in Nat : <<t, e, n>> \in votes => Asked(n, e)

VInv == /\ Behind
        /\ \A n \in Node : Counts(n)
        /\ \A m \in net : Posted(m)
        /\ Once
        /\ Voted

LEMMA VotersFinite ==
    ASSUME NEW n, NEW e
    PROVE  /\ IsFiniteSet(Voters(n, e)) /\ IsFiniteSet(Arrived(n, e))
           /\ Cardinality(Arrived(n, e)) \in Nat
           /\ Cardinality(Arrived(n, e)) <= Cardinality(Voters(n, e))
<1>1. /\ Voters(n, e) \subseteq Node /\ Arrived(n, e) \subseteq Voters(n, e)
      /\ IsFiniteSet(Node)
  BY ClusterAssumption DEF Voters, Arrived
<1>2. IsFiniteSet(Voters(n, e))
  BY <1>1, FS_Subset
<1> QED
  BY <1>1, <1>2, FS_Subset, FS_CardinalityType

\* Votes arrive, and no vote that has arrived is on its way again.
LEMMA ArrivedGrows ==
    ASSUME NEW n, NEW e, votes \subseteq votes',
           \A m \in net' : m.type = "ack" =>
              m \in net \/ <<m.from, m.current, m.to>> \notin votes
    PROVE  Arrived(n, e) \subseteq Arrived(n, e)'
<1> SUFFICES ASSUME NEW t \in Arrived(n, e)
             PROVE  t \in Arrived(n, e)'
  OBVIOUS
<1>1. t \in Node /\ <<t, e, n>> \in votes
  BY DEF Arrived, Voters
<1>2. ASSUME NEW m \in net', m.type = "ack", m.from = t, m.to = n, m.current = e
      PROVE  FALSE
  <2>1. m \in net
    BY <1>1, <1>2
  <2> QED
    BY <2>1, <1>2 DEF Arrived
<1> QED
  BY <1>1, <1>2 DEF Arrived, Voters

LEMMA ArrivedMore ==
    ASSUME NEW n, NEW e, votes \subseteq votes',
           \A m \in net' : m.type = "ack" =>
              m \in net \/ <<m.from, m.current, m.to>> \notin votes
    PROVE  Cardinality(Arrived(n, e)) <= Cardinality(Arrived(n, e)')
<1>1. Arrived(n, e) \subseteq Arrived(n, e)'
  BY ArrivedGrows
<1>2. IsFiniteSet(Arrived(n, e)')
  <2>1. Arrived(n, e)' \subseteq Node /\ IsFiniteSet(Node)
    BY ClusterAssumption DEF Arrived, Voters
  <2> QED
    BY <2>1, FS_Subset
<1> QED
  BY <1>1, <1>2, FS_Subset

LEMMA ElectionTypes ==
    ASSUME IInv, NEW n \in Node
    PROVE  /\ election[n] \in Election
           /\ election[n].epoch \in Nat /\ election[n].sent \in BOOLEAN
           /\ election[n].count \in Nat
           /\ disk[n].current \in Nat /\ view[n].current \in Nat
  BY CurrentTypes DEF IInv, Elections, Election, Epoch

LEMMA PacketTypes ==
    ASSUME IInv, NEW m \in net
    PROVE  /\ m.from \in Node /\ m.to \in Node /\ m.current \in Nat
           /\ m.type \in {"request", "ack"}
  BY DEF IInv, Packets, Message, Epoch

\* An election that goes on as it was.
LEMMA CountsKept ==
    ASSUME IInv, IInv', Forward, NEW n \in Node, Counts(n),
           election'[n] = election[n], votes \subseteq votes',
           \A m \in net' : m.type = "ack" =>
              m \in net \/ <<m.from, m.current, m.to>> \notin votes
    PROVE  Counts(n)'
<1>1. PICK r \in Election : r = election[n]
  BY ElectionTypes
<1>2. election'[n] = r /\ r.epoch \in Nat /\ r.count \in Nat
  BY <1>1 DEF Election, Epoch
<1>3. PICK a \in Nat : a = Cardinality(Arrived(n, r.epoch))
  BY VotersFinite
<1>4. PICK b \in Nat : b = Cardinality(Arrived(n, r.epoch)')
  <2>1. Arrived(n, r.epoch)' \subseteq Node /\ IsFiniteSet(Node)
    BY ClusterAssumption DEF Arrived, Voters
  <2> QED
    BY <2>1, FS_Subset, FS_CardinalityType
<1>5. a <= b
  BY <1>3, <1>4, ArrivedMore
<1>6. /\ disk[n].current \in Nat /\ disk[n].current <= disk'[n].current
      /\ disk'[n].current \in Nat
  <2>1. disk'[n].current \in Nat
    BY DEF IInv, Tables, View, Epoch
  <2> QED
    BY <2>1, ElectionTypes DEF Forward
<1>7. IF r.sent THEN r.epoch <= disk[n].current /\ r.count <= a ELSE r.count = 0
  BY <1>1, <1>3 DEF Counts
<1>8. IF r.sent THEN r.epoch <= disk'[n].current /\ r.count <= b ELSE r.count = 0
  BY <1>2, <1>5, <1>6, <1>7
<1> QED
  BY <1>2, <1>4, <1>8 DEF Counts

\* A node that holds its election, or no longer has one.
Holds(n) == \/ election'[n] = election[n]
            \/ ~election'[n].sent /\ election'[n].count = 0

LEMMA AskedKept ==
    ASSUME IInv, IInv', Forward, NEW n \in Node, NEW e \in Nat, Asked(n, e),
           \/ election'[n].sent => election[n].sent /\ election'[n].epoch = election[n].epoch
           \/ election'[n].epoch > disk[n].current
    PROVE  Asked(n, e)'
<1>1. /\ disk[n].current \in Nat /\ disk'[n].current \in Nat
      /\ disk[n].current <= disk'[n].current /\ election'[n].epoch \in Nat
  BY CurrentTypes DEF Forward, IInv, Tables, Elections, View, Election, Epoch
<1> QED
  BY <1>1 DEF Asked

\* A step that asks for no vote, gives none and counts none.
LEMMA QuietStep ==
    ASSUME IInv, VInv, IInv', Forward, \A n \in Node : Holds(n),
           votes' = votes, net' \subseteq net
    PROVE  VInv'
<1>1. ASSUME NEW n \in Node, NEW e \in Nat, Asked(n, e)
      PROVE  Asked(n, e)'
  BY <1>1, AskedKept DEF Holds
<1>2. Behind'
  BY DEF Behind, Forward
<1>3. ASSUME NEW n \in Node
      PROVE  Counts(n)'
  <2>1. CASE election'[n] = election[n]
    BY <2>1, CountsKept DEF VInv
  <2>2. CASE ~election'[n].sent /\ election'[n].count = 0
    BY <2>2 DEF Counts
  <2> QED
    BY <2>1, <2>2 DEF Holds
<1>4. ASSUME NEW m \in net'
      PROVE  Posted(m)'
  <2>1. m \in net /\ Posted(m) /\ m.from \in Node /\ m.current \in Nat
    BY PacketTypes DEF VInv
  <2> QED
    BY <2>1, <1>1 DEF Posted
<1>5. Once'
  BY DEF VInv, Once
<1>6. Voted'
  BY <1>1 DEF VInv, Voted
<1> QED
  BY <1>2, <1>3, <1>4, <1>5, <1>6 DEF VInv

\* The epoch of an election is new to its own file, so that nobody was asked
\* for a vote in it before.
LEMMA StartElectionVotes ==
    ASSUME IInv, VInv, IInv', Forward, NEW n \in Node, StartElection(n)
    PROVE  VInv'
<1> DEFINE ask(t, e) == [type |-> "request", from |-> n, to |-> t, current |-> e,
                         config |-> Header(n).config, claims |-> Header(n).claims]
<1>1. PICK e \in Nat : e = view[n].current + 1
  BY CurrentTypes
<1>2. /\ ~election[n].sent /\ votes' = votes
      /\ view' = [view EXCEPT ![n] = [view[n] EXCEPT !.current = e]]
      /\ disk' = [disk EXCEPT ![n] = [view[n] EXCEPT !.current = e]]
      /\ election' = [election EXCEPT ![n].epoch = e, ![n].sent = TRUE]
      /\ net' = net \cup {ask(t, e) : t \in Node \ {n}}
  BY <1>1 DEF StartElection, ghosts
<1>3. /\ \A t \in Node \ {n} : election'[t] = election[t]
      /\ election'[n].epoch = e /\ election'[n].sent
      /\ election'[n].count = election[n].count
  BY <1>2 DEF IInv, Elections, Election
<1>4. disk'[n].current = e
  BY <1>2 DEF IInv, Tables, View
<1>5. disk[n].current < e
  <2>1. disk[n].current <= view[n].current
    BY DEF VInv, Behind
  <2> QED
    BY <2>1, <1>1, CurrentTypes
<1>6. ASSUME NEW k \in Node, NEW d \in Nat, Asked(k, d)
      PROVE  Asked(k, d)'
  <2>1. CASE k = n
    BY <2>1, <1>3, <1>5, <1>6, AskedKept
  <2>2. CASE k # n
    BY <2>2, <1>3, <1>6, AskedKept
  <2> QED
    BY <2>1, <2>2
<1>7. /\ Asked(n, e)'
      /\ \A t \in Node : <<t, e, n>> \notin votes
  <2>1. e <= disk'[n].current /\ e <= election'[n].epoch
    BY <1>3, <1>4
  <2>2. ~Asked(n, e)
    BY <1>5, CurrentTypes DEF Asked
  <2> QED
    BY <2>1, <2>2 DEF VInv, Voted, Asked
<1>8. Behind'
  BY DEF Behind, Forward
<1>9. ASSUME NEW k \in Node
      PROVE  Counts(k)'
  <2>1. CASE k # n
    <3>1. \A m \in net' : m.type = "ack" => m \in net
      BY <1>2
    <3> QED
      BY <2>1, <3>1, <1>2, <1>3, CountsKept DEF VInv
  <2>2. CASE k = n
    <3>1. election[n].count = 0
      BY <1>2 DEF VInv, Counts
    <3>2. Cardinality(Arrived(n, e)') \in Nat
      <4>1. Arrived(n, e)' \subseteq Node /\ IsFiniteSet(Node)
        BY ClusterAssumption DEF Arrived, Voters
      <4> QED
        BY <4>1, FS_Subset, FS_CardinalityType
    <3>3. /\ election'[n].epoch <= disk'[n].current
          /\ election'[n].count <= Cardinality(Arrived(n, e)')
      BY <3>1, <3>2, <1>3, <1>4
    <3> QED
      BY <2>2, <3>3, <1>3 DEF Counts
  <2> QED
    BY <2>1, <2>2
<1>10. ASSUME NEW m \in net'
       PROVE  Posted(m)'
  <2>1. CASE m \in net
    <3>1. Posted(m) /\ m.from \in Node /\ m.current \in Nat
      BY <2>1, PacketTypes DEF VInv
    <3> QED
      BY <3>1, <1>2, <1>6 DEF Posted
  <2>2. ASSUME NEW t \in Node, m = ask(t, e)
        PROVE  Posted(m)'
    <3>1. m.type = "request" /\ m.from = n /\ m.to = t /\ m.current = e
      BY <2>2
    <3> QED
      BY <3>1, <1>2, <1>7 DEF Posted
  <2> QED
    BY <2>1, <2>2, <1>2
<1>11. ASSUME NEW m \in net, m.type = "request", m.from = n
       PROVE  m.current # e
  <2>1. m.current <= disk[n].current /\ m.current \in Nat
    BY <1>11, PacketTypes DEF VInv, Posted, Asked
  <2> QED
    BY <2>1, <1>5, CurrentTypes
<1>12. Once'
  <2> SUFFICES ASSUME NEW m \in net', NEW p \in net',
                      m.type = p.type, m.from = p.from, m.to = p.to,
                      m.current = p.current
               PROVE  m = p
    BY DEF Once
  <2>1. \/ m \in net
        \/ m.type = "request" /\ m.from = n /\ m.current = e /\ m = ask(m.to, e)
    BY <1>2
  <2>2. \/ p \in net
        \/ p.type = "request" /\ p.from = n /\ p.current = e /\ p = ask(p.to, e)
    BY <1>2
  <2> QED
    BY <2>1, <2>2, <1>11 DEF VInv, Once
<1>13. Voted'
  BY <1>2, <1>6 DEF VInv, Voted
<1> QED
  BY <1>8, <1>9, <1>10, <1>12, <1>13 DEF VInv

\* A vote answers the one request of that slave in that epoch.
LEMMA VoteVotes ==
    ASSUME IInv, VInv, IInv', Forward, NEW n \in Node, NEW m \in net,
           m.type = "request", m.to = n, election' = election,
           NEW ack \in Message, ack.type = "ack", ack.from = n, ack.to = m.from,
           ack.current = m.current,
           net' = (net \ {m}) \cup {ack},
           votes' = votes \cup {<<n, m.current, m.from>>}
    PROVE  VInv'
<1>1. /\ m.from \in Node /\ m.current \in Nat /\ Asked(m.from, m.current)
      /\ <<n, m.current, m.from>> \notin votes
  BY PacketTypes DEF VInv, Posted
<1>2. ASSUME NEW k \in Node, NEW d \in Nat, Asked(k, d)
      PROVE  Asked(k, d)'
  BY <1>2, AskedKept
<1>3. Behind'
  BY DEF Behind, Forward
<1>4. ASSUME NEW k \in Node
      PROVE  Counts(k)'
  <2>1. \A p \in net' : p.type = "ack" =>
           p \in net \/ <<p.from, p.current, p.to>> \notin votes
    BY <1>1
  <2> QED
    BY <2>1, CountsKept DEF VInv
<1>5. ASSUME NEW p \in net'
      PROVE  Posted(p)'
  <2>1. CASE p = ack
    BY <2>1 DEF Posted
  <2>2. CASE p # ack
    <3>1. /\ p \in net /\ p # m /\ Posted(p) /\ p.from \in Node /\ p.current \in Nat
      BY <2>2, PacketTypes DEF VInv
    <3>2. p.type = "request" => <<p.to, p.current, p.from>> # <<n, m.current, m.from>>
      BY <3>1 DEF VInv, Once
    <3> QED
      BY <3>1, <3>2, <1>2 DEF Posted
  <2> QED
    BY <2>1, <2>2
<1>6. ASSUME NEW p \in net, p.type = "ack", p.from = n, p.to = m.from
      PROVE  p.current # m.current
  BY <1>1, <1>6 DEF VInv, Posted
<1>7. Once'
  <2> SUFFICES ASSUME NEW p \in net', NEW q \in net',
                      p.type = q.type, p.from = q.from, p.to = q.to,
                      p.current = q.current
               PROVE  p = q
    BY DEF Once
  <2>1. (p \in net \/ p = ack) /\ (q \in net \/ q = ack)
    OBVIOUS
  <2> QED
    BY <2>1, <1>6 DEF VInv, Once
<1>8. Voted'
  <2> SUFFICES ASSUME NEW t \in Node, NEW k \in Node, NEW e \in Nat,
                      <<t, e, k>> \in votes'
               PROVE  Asked(k, e)'
    BY DEF Voted
  <2>1. CASE <<t, e, k>> \in votes
    BY <2>1, <1>2 DEF VInv, Voted
  <2>2. CASE <<t, e, k>> = <<n, m.current, m.from>>
    BY <2>2, <1>1, <1>2
  <2> QED
    BY <2>1, <2>2
<1> QED
  BY <1>3, <1>4, <1>5, <1>7, <1>8 DEF VInv

\* A vote that is counted while the election is under way is one for it, and
\* had not arrived before.
LEMMA CountVotes ==
    ASSUME IInv, VInv, IInv', Forward, NEW n \in Node, NEW m \in net,
           m.type = "ack", m.to = n, m.current >= election[n].epoch,
           election[n].sent,
           election' = [election EXCEPT ![n].count = @ + 1],
           net' = net \ {m}, votes' = votes
    PROVE  VInv'
<1>1. /\ \A t \in Node \ {n} : election'[t] = election[t]
      /\ election'[n].epoch = election[n].epoch /\ election'[n].sent
      /\ election'[n].count = election[n].count + 1
  BY DEF IInv, Elections, Election
<1>2. /\ m.from \in Node /\ m.current \in Nat
      /\ <<m.from, m.current, n>> \in votes
  BY PacketTypes DEF VInv, Posted
<1>3. PICK e \in Nat : e = m.current
  BY <1>2
<1>4. election[n].epoch = e
  <2>1. Asked(n, e)
    BY <1>2, <1>3 DEF VInv, Voted
  <2> QED
    BY <2>1, <1>3, ElectionTypes DEF Asked
<1>5. ASSUME NEW k \in Node, NEW d \in Nat, Asked(k, d)
      PROVE  Asked(k, d)'
  <2>1. election'[k].sent => election[k].sent /\ election'[k].epoch = election[k].epoch
    BY <1>1
  <2> QED
    BY <2>1, <1>5, AskedKept
<1>6. Behind'
  BY DEF Behind, Forward
<1>7. Cardinality(Arrived(n, e)') >= Cardinality(Arrived(n, e)) + 1
  <2>1. m.from \notin Arrived(n, e)
    BY <1>3 DEF Arrived
  <2>2. m.from \in Arrived(n, e)'
    <3>1. ASSUME NEW p \in net', p.type = "ack", p.from = m.from, p.to = n,
                 p.current = e
          PROVE  FALSE
      BY <3>1, <1>3 DEF VInv, Once
    <3> QED
      BY <3>1, <1>2, <1>3 DEF Arrived, Voters
  <2>3. Arrived(n, e) \subseteq Arrived(n, e)'
    BY ArrivedGrows
  <2>4. IsFiniteSet(Arrived(n, e)') /\ IsFiniteSet(Arrived(n, e))
    <3>1. Arrived(n, e)' \subseteq Node /\ Arrived(n, e) \subseteq Node
          /\ IsFiniteSet(Node)
      BY ClusterAssumption DEF Arrived, Voters
    <3> QED
      BY <3>1, FS_Subset
  <2>5. PICK A : A = Arrived(n, e)
    OBVIOUS
  <2>6. PICK B : B = Arrived(n, e)'
    OBVIOUS
  <2>7. /\ IsFiniteSet(A \cup {m.from})
        /\ Cardinality(A \cup {m.from}) = Cardinality(A) + 1
    BY <2>1, <2>4, <2>5, FS_AddElement
  <2>8. Cardinality(A \cup {m.from}) <= Cardinality(B)
    BY <2>2, <2>3, <2>4, <2>5, <2>6, FS_Subset
  <2>9. Cardinality(A) \in Nat /\ Cardinality(B) \in Nat
    BY <2>4, <2>5, <2>6, FS_CardinalityType
  <2> QED
    BY <2>5, <2>6, <2>7, <2>8, <2>9
<1>8. ASSUME NEW k \in Node
      PROVE  Counts(k)'
  <2>1. CASE k # n
    BY <2>1, <1>1, CountsKept DEF VInv
  <2>2. CASE k = n
    <3>1. e <= disk[n].current /\ election[n].count <= Cardinality(Arrived(n, e))
      BY <1>4 DEF VInv, Counts
    <3>2. PICK a \in Nat : a = Cardinality(Arrived(n, e))
      BY VotersFinite
    <3>3. PICK b \in Nat : b = Cardinality(Arrived(n, e)')
      <4>1. Arrived(n, e)' \subseteq Node /\ IsFiniteSet(Node)
        BY ClusterAssumption DEF Arrived, Voters
      <4> QED
        BY <4>1, FS_Subset, FS_CardinalityType
    <3>4. election'[n].count <= b
      BY <3>1, <3>2, <3>3, <1>1, <1>7, ElectionTypes
    <3>5. e <= disk'[n].current
      <4>1. disk'[n].current \in Nat
        BY DEF IInv, Tables, View, Epoch
      <4> QED
        BY <4>1, <3>1, ElectionTypes DEF Forward
    <3> QED
      BY <2>2, <3>3, <3>4, <3>5, <1>1, <1>4 DEF Counts
  <2> QED
    BY <2>1, <2>2
<1>9. ASSUME NEW p \in net'
      PROVE  Posted(p)'
  <2>1. p \in net /\ Posted(p) /\ p.from \in Node /\ p.current \in Nat
    BY PacketTypes DEF VInv
  <2> QED
    BY <2>1, <1>5 DEF Posted
<1>10. Once'
  BY DEF VInv, Once
<1>11. Voted'
  BY <1>5 DEF VInv, Voted
<1> QED
  BY <1>6, <1>8, <1>9, <1>10, <1>11 DEF VInv

LEMMA ReceiveRequestVotes ==
    ASSUME IInv, VInv, IInv', Forward, NEW n \in Node, ReceiveRequest(n)
    PROVE  VInv'
<1>1. PICK m \in net :
        LET v == SeeEpochs(view[n], m)
        IN /\ m.type = "request" /\ m.to = n
           /\ \/ /\ net' = net \ {m}
                 /\ UNCHANGED votes
              \/ /\ MayVote(v, n, m)
                 /\ net' = (net \ {m}) \cup
                      {[type |-> "ack", from |-> n, to |-> m.from,
                        current |-> v.current, config |-> v.epoch[n],
                        claims |-> {}]}
                 /\ votes' = votes \cup {<<n, v.current, m.from>>}
           /\ election' = election
  BY DEF ReceiveRequest
<1> DEFINE v == SeeEpochs(view[n], m)
           ack == [type |-> "ack", from |-> n, to |-> m.from,
                   current |-> v.current, config |-> v.epoch[n], claims |-> {}]
<1>2. CASE net' = net \ {m} /\ votes' = votes
  <2>1. \A k \in Node : Holds(k)
    BY <1>1 DEF Holds
  <2> QED
    BY <1>2, <2>1, QuietStep
<1>3. CASE /\ MayVote(v, n, m)
           /\ net' = (net \ {m}) \cup {ack}
           /\ votes' = votes \cup {<<n, v.current, m.from>>}
  <2>1. Sound(view[n]) /\ Epochs(m) /\ m.from \in Node /\ m.current \in Nat
    BY MessageEpochs, PacketTypes DEF IInv, Tables
  <2>2. Sound(v) /\ m.current <= v.current
    BY <2>1, SeeEpochsSound
  <2>3. m.current >= v.current
    BY <1>3 DEF MayVote
  <2> HIDE DEF v
  <2>4. v.current = m.current /\ v.current \in Nat /\ v.epoch[n] \in Nat
    BY <2>1, <2>2, <2>3 DEF Sound, View, Epoch
  <2>5. PICK a : a = ack
    OBVIOUS
  <2>6. /\ a \in Message /\ a.type = "ack" /\ a.from = n /\ a.to = m.from
        /\ a.current = m.current
    BY <2>1, <2>4, <2>5 DEF Message, Epoch
  <2>7. /\ net' = (net \ {m}) \cup {a}
        /\ votes' = votes \cup {<<n, m.current, m.from>>}
    BY <1>3, <2>4, <2>5
  <2> QED
    BY <1>1, <2>6, <2>7, VoteVotes
<1> HIDE DEF v
<1> QED
  BY <1>1, <1>2, <1>3 DEF v

LEMMA ReceiveAckVotes ==
    ASSUME IInv, VInv, IInv', Forward, NEW n \in Node, ReceiveAck(n), CountedInTime
    PROVE  VInv'
<1>1. PICK m \in net :
        /\ m.type = "ack" /\ m.to = n
        /\ net' = net \ {m} /\ votes' = votes
        /\ \/ election' = election
           \/ /\ m.current >= election[n].epoch
              /\ election' = [election EXCEPT ![n].count = @ + 1]
  BY DEF ReceiveAck, ghosts
<1>2. CASE election' = election
  <2>1. \A k \in Node : Holds(k)
    BY <1>2 DEF Holds
  <2> QED
    BY <1>1, <2>1, QuietStep
<1>3. CASE /\ m.current >= election[n].epoch
           /\ election' = [election EXCEPT ![n].count = @ + 1]
  <2>1. election'[n].count = election[n].count + 1 /\ election[n].count \in Nat
    BY <1>3, ElectionTypes DEF IInv, Elections, Election
  <2>2. election[n].sent
    BY <2>1 DEF CountedInTime
  <2> QED
    BY <1>1, <1>3, <2>2, CountVotes
<1> QED
  BY <1>1, <1>2, <1>3

LEMMA NextVotes ==
    ASSUME IInv, VInv, [Next]_vars, [CountedInTime]_vars
    PROVE  VInv'
<1>1. IInv' /\ Forward
  BY NextIInv, NextForward DEF VInv
<1>2. election \in [Node -> Election]
  BY DEF IInv, Elections
<1>3. ASSUME NEW s \in Node, NEW t \in Node \ {s}, Ping(s, t)
      PROVE  VInv'
  <2>1. (\A n \in Node : Holds(n)) /\ votes' = votes /\ net' = net
    BY <1>3 DEF Ping, Holds, ghosts
  <2> QED
    BY <2>1, <1>1, QuietStep
<1>4. ASSUME NEW n \in Node, Failover(n)
      PROVE  VInv'
  <2>1. CASE StartElection(n)
    BY <2>1, <1>1, StartElectionVotes
  <2>2. CASE Takeover(n)
    <3>1. (\A k \in Node : Holds(k)) /\ votes' = votes /\ net' = net
      BY <2>2 DEF Takeover, Holds
    <3> QED
      BY <3>1, <1>1, QuietStep
  <2>3. CASE WinElection(n)
    <3>1. (\A k \in Node : Holds(k)) /\ votes' = votes /\ net' = net
      BY <2>3 DEF WinElection, Holds
    <3> QED
      BY <3>1, <1>1, QuietStep
  <2>4. CASE ScheduleElection(n)
    <3>1. /\ election' = [election EXCEPT ![n].sent = FALSE, ![n].count = 0]
          /\ votes' = votes /\ net' = net
      BY <2>4 DEF ScheduleElection, ghosts
    <3>2. \A k \in Node : Holds(k)
      BY <3>1, <1>2 DEF Holds, Election
    <3> QED
      BY <3>1, <3>2, <1>1, QuietStep
  <2> QED
    BY <1>4, <2>1, <2>2, <2>3, <2>4 DEF Failover
<1>5. ASSUME NEW n \in Node, Restart(n)
      PROVE  VInv'
  <2>1. /\ election' = [election EXCEPT ![n] = NoElection]
        /\ votes' = votes /\ net' \subseteq net
    BY <1>5 DEF Restart
  <2>2. \A k \in Node : Holds(k)
    BY <2>1, <1>2 DEF Holds, NoElection
  <2> QED
    BY <2>1, <2>2, <1>1, QuietStep
<1>6. ASSUME NEW n \in Node, Receive(n), ~UNCHANGED vars
      PROVE  VInv'
  BY <1>1, <1>6, ReceiveRequestVotes, ReceiveAckVotes DEF Receive
<1>7. CASE UNCHANGED vars
  <2>1. (\A n \in Node : Holds(n)) /\ votes' = votes /\ net' = net
    BY <1>7 DEF vars, ghosts, Holds
  <2> QED
    BY <2>1, <1>1, QuietStep
<1> QED
  BY <1>3, <1>4, <1>5, <1>6, <1>7 DEF Next

LEMMA InitVotes == Init => VInv
<1> SUFFICES ASSUME Init PROVE VInv
  OBVIOUS
<1>1. IInv
  BY InitIInv
<1>2. view = disk /\ election = [n \in Node |-> NoElection] /\ net = {} /\ votes = {}
  BY DEF Init
<1>3. Behind
  BY <1>1, <1>2, CurrentTypes DEF Behind
<1>4. \A n \in Node : Counts(n)
  BY <1>2 DEF Counts, NoElection
<1> QED
  BY <1>2, <1>3, <1>4 DEF VInv, Once, Voted

LEMMA WinIsByVotes ==
    ASSUME IInv, VInv, NEW n \in Node, WinElection(n)
    PROVE  2 * Cardinality(Voters(n, election[n].epoch)) > Size(view[n])
<1>1. election[n].sent /\ election[n].count >= NeededQuorum(view[n])
  BY DEF WinElection
<1>2. election[n].count <= Cardinality(Arrived(n, election[n].epoch))
  BY <1>1 DEF VInv, Counts
<1>3. Size(view[n]) \in Nat
  <2>1. IsFiniteSet({m \in Node : IsMaster(view[n], m) /\ SlotsOf(view[n], m) # {}})
    BY ClusterAssumption, FS_Subset
  <2> QED
    BY <2>1, FS_CardinalityType DEF Size
<1>4. PICK s \in Nat : s = Size(view[n])
  BY <1>3
<1>5. PICK e \in Nat : e = election[n].epoch
  BY ElectionTypes
<1>6. PICK a \in Nat : a = Cardinality(Arrived(n, e))
  BY VotersFinite
<1>7. PICK b \in Nat : b = Cardinality(Voters(n, e))
  BY VotersFinite, FS_CardinalityType
<1>8. a <= b
  BY <1>6, <1>7, VotersFinite
<1>9. election[n].count >= s \div 2 + 1
  BY <1>1, <1>4 DEF NeededQuorum
<1>10. a >= s \div 2 + 1
  BY <1>2, <1>5, <1>6, <1>9, ElectionTypes
<1>11. 2 * b > s
  BY <1>8, <1>10
<1> QED
  BY <1>4, <1>5, <1>7, <1>11

\* A slave that wins was voted for, in the epoch of that election, by more than
\* half as many nodes as its table has masters with slots, whatever takeovers,
\* restarts and lost packets there were, as long as votes are counted in time
\* (clusterProcessPacket and clusterHandleSlaveFailover of cluster.c).
THEOREM ElectedInTime ==
    Spec /\ [][CountedInTime]_vars
       => [][\A n \in Node : WinElection(n) =>
               2 * Cardinality(Voters(n, election[n].epoch)) > Size(view[n])]_vars
<1>1. Init => IInv /\ VInv
  BY InitIInv, InitVotes
<1>2. IInv /\ VInv /\ [Next]_vars /\ [CountedInTime]_vars => (IInv /\ VInv)'
  BY NextIInv, NextVotes
<1>3. IInv /\ VInv =>
        [\A n \in Node : WinElection(n) =>
            2 * Cardinality(Voters(n, election[n].epoch)) > Size(view[n])]_vars
  BY WinIsByVotes
<1> QED
  BY <1>1, <1>2, <1>3, PTL DEF Spec

-----------------------------------------------------------------------------
(* One vote an epoch *)

OneVoteAnEpoch ==
    \A t, n, k \in Node : \A e \in Nat :
       <<t, e, n>> \in votes /\ <<t, e, k>> \in votes => n = k

\* A node remembers its last vote, which is the one of the newest epoch.
Remembers ==
    /\ \A n \in Node : view[n].lastVote <= view[n].current
    /\ \A t, n \in Node : \A e \in Nat :
          <<t, e, n>> \in votes => e <= view[t].lastVote

\* lastVoteEpoch is not saved with a vote: only a restart can lose it.
OInv == /\ restarts \in Nat
        /\ restarts = 0 => Remembers /\ OneVoteAnEpoch

LEMMA VoteTypes ==
    ASSUME IInv, NEW n \in Node
    PROVE  view[n].lastVote \in Nat /\ view[n].current \in Nat
  BY DEF IInv, Tables, View, Epoch

\* A step without a vote.
LEMMA NoVoteStep ==
    ASSUME IInv, OInv, IInv', restarts' = restarts, votes' = votes,
           \A n \in Node : /\ view'[n].lastVote = view[n].lastVote
                           /\ view'[n].current >= view[n].current
    PROVE  OInv'
<1>1. ASSUME restarts = 0
      PROVE  Remembers' /\ OneVoteAnEpoch'
  <2>1. Remembers /\ OneVoteAnEpoch
    BY <1>1 DEF OInv
  <2>2. \A n \in Node : view'[n].current \in Nat
    BY DEF IInv, Tables, View, Epoch
  <2>3. \A n \in Node : view'[n].lastVote <= view'[n].current
    BY <2>1, <2>2, VoteTypes DEF Remembers
  <2> QED
    BY <2>1, <2>3 DEF Remembers, OneVoteAnEpoch
<1> QED
  BY <1>1 DEF OInv

\* The last vote is of the current epoch, which it was not before.
LEMMA VoteStep ==
    ASSUME IInv, OInv, IInv', restarts' = restarts,
           NEW n \in Node, NEW e \in Nat, NEW k \in Node,
           votes' = votes \cup {<<n, e, k>>},
           view[n].current <= e, view[n].lastVote # e,
           view'[n].lastVote = e, view'[n].current = e,
           \A t \in Node \ {n} : view'[t] = view[t]
    PROVE  OInv'
<1>1. ASSUME restarts = 0
      PROVE  Remembers' /\ OneVoteAnEpoch'
  <2>1. Remembers /\ OneVoteAnEpoch
    BY <1>1 DEF OInv
  <2>2. view[n].lastVote < e
    BY <2>1, VoteTypes DEF Remembers
  <2>3. \A t \in Node : view'[t].lastVote <= view'[t].current
    <3> SUFFICES ASSUME NEW t \in Node
                 PROVE  view'[t].lastVote <= view'[t].current
      OBVIOUS
    <3>1. CASE t = n
      BY <3>1
    <3>2. CASE t # n
      BY <3>2, <2>1 DEF Remembers
    <3> QED
      BY <3>1, <3>2
  <2>4. ASSUME NEW t \in Node, NEW m \in Node, NEW d \in Nat, <<t, d, m>> \in votes
        PROVE  /\ d <= view'[t].lastVote
               /\ t = n => d # e
    <3>1. d <= view[t].lastVote
      BY <2>1, <2>4 DEF Remembers
    <3>2. CASE t = n
      BY <3>1, <3>2, <2>2, VoteTypes
    <3>3. CASE t # n
      BY <3>1, <3>3
    <3> QED
      BY <3>2, <3>3
  <2>5. ASSUME NEW t \in Node, NEW m \in Node, NEW d \in Nat, <<t, d, m>> \in votes'
        PROVE  /\ <<t, d, m>> \in votes \/ (t = n /\ d = e /\ m = k)
               /\ d <= view'[t].lastVote
    BY <2>4, <2>5
  <2>6. OneVoteAnEpoch'
    <3> SUFFICES ASSUME NEW t \in Node, NEW m \in Node, NEW p \in Node, NEW d \in Nat,
                        <<t, d, m>> \in votes', <<t, d, p>> \in votes'
                 PROVE  m = p
      BY DEF OneVoteAnEpoch
    <3>1. <<t, d, m>> \in votes \/ (t = n /\ d = e /\ m = k)
      BY <2>5
    <3>2. <<t, d, p>> \in votes \/ (t = n /\ d = e /\ p = k)
      BY <2>5
    <3> QED
      BY <3>1, <3>2, <2>1, <2>4 DEF OneVoteAnEpoch
  <2> QED
    BY <2>3, <2>5, <2>6 DEF Remembers
<1> QED
  BY <1>1 DEF OInv

LEMMA PingOne ==
    ASSUME IInv, OInv, NEW s \in Node, NEW t \in Node, s # t, Ping(s, t)
    PROVE  OInv'
<1>1. IInv' /\ view \in [Node -> View] /\ votes' = votes /\ restarts' = restarts
  BY PingStep DEF IInv, Tables, Ping, ghosts
<1>2. PICK v \in View :
        /\ Sound(v) /\ Advances(view[t], v)
        /\ v.lastVote = view[t].lastVote
        /\ \/ view' = [view EXCEPT ![t] = v] /\ disk' = Stored(disk, t, v)
           \/ \E w \in View :
                 /\ Sound(w) /\ Advances(view[s], w)
                 /\ w.lastVote = view[s].lastVote
                 /\ view' = [view EXCEPT ![t] = v, ![s] = w]
                 /\ disk' = Stored(Stored(disk, t, v), s, w)
  BY PingTables
<1>3. ASSUME NEW n \in Node
      PROVE  /\ view'[n].lastVote = view[n].lastVote
             /\ view'[n].current >= view[n].current
  <2>1. view[n].current >= view[n].current
    BY <1>1, VoteTypes
  <2>2. CASE view' = [view EXCEPT ![t] = v]
    BY <2>1, <2>2, <1>1, <1>2 DEF Advances
  <2>3. ASSUME NEW w \in View, Advances(view[s], w),
               w.lastVote = view[s].lastVote,
               view' = [view EXCEPT ![t] = v, ![s] = w]
        PROVE  /\ view'[n].lastVote = view[n].lastVote
               /\ view'[n].current >= view[n].current
    BY <2>1, <2>3, <1>1, <1>2 DEF Advances
  <2> QED
    BY <2>2, <2>3, <1>2
<1> QED
  BY <1>1, <1>3, NoVoteStep

LEMMA ReceiveOne ==
    ASSUME IInv, OInv, NEW n \in Node, Receive(n)
    PROVE  OInv'
<1>1. /\ IInv' /\ view \in [Node -> View] /\ Sound(view[n])
      /\ restarts' = restarts
  BY ReceiveRequestStep, ReceiveAckStep
     DEF IInv, Tables, Receive, ReceiveRequest, ReceiveAck, ghosts
<1>2. PICK m \in net :
        LET v == SeeEpochs(view[n], m)
        IN \/ view' = [view EXCEPT ![n] = v] /\ votes' = votes
           \/ /\ MayVote(v, n, m)
              /\ view' = [view EXCEPT ![n] = [v EXCEPT !.lastVote = v.current]]
              /\ votes' = votes \cup {<<n, v.current, m.from>>}
  BY DEF Receive, ReceiveRequest, ReceiveAck, ghosts
<1> DEFINE v == SeeEpochs(view[n], m)
<1>3. /\ Sound(v) /\ v \in View /\ Advances(view[n], v)
      /\ v.lastVote = view[n].lastVote /\ m.from \in Node
  BY <1>1, MessageEpochs, PacketTypes, SeeEpochsSound, SeeEpochsVote DEF IInv, Sound
<1>4. \/ view' = [view EXCEPT ![n] = v] /\ votes' = votes
      \/ /\ v.lastVote # v.current
         /\ view' = [view EXCEPT ![n] = [v EXCEPT !.lastVote = v.current]]
         /\ votes' = votes \cup {<<n, v.current, m.from>>}
  BY <1>2 DEF MayVote
<1> HIDE DEF v
<1>5. v.current >= view[n].current /\ v.current \in Nat /\ view[n].current \in Nat
  BY <1>1, <1>3, VoteTypes DEF Advances, View, Epoch
<1>6. CASE view' = [view EXCEPT ![n] = v] /\ votes' = votes
  <2>1. ASSUME NEW t \in Node
        PROVE  /\ view'[t].lastVote = view[t].lastVote
               /\ view'[t].current >= view[t].current
    BY <1>1, <1>3, <1>5, <1>6, VoteTypes
  <2> QED
    BY <2>1, <1>1, <1>6, NoVoteStep
<1>7. CASE /\ v.lastVote # v.current
           /\ view' = [view EXCEPT ![n] = [v EXCEPT !.lastVote = v.current]]
           /\ votes' = votes \cup {<<n, v.current, m.from>>}
  <2>1. PICK e \in Nat : e = v.current
    BY <1>5
  <2>2. /\ view'[n].lastVote = e /\ view'[n].current = e
        /\ \A t \in Node \ {n} : view'[t] = view[t]
    BY <2>1, <1>1, <1>3, <1>7 DEF View
  <2>3. /\ votes' = votes \cup {<<n, e, m.from>>}
        /\ view[n].current <= e /\ view[n].lastVote # e
    BY <2>1, <1>3, <1>5, <1>7
  <2> QED
    BY <2>2, <2>3, <1>1, <1>3, VoteStep
<1> QED
  BY <1>4, <1>6, <1>7

LEMMA FailoverOne ==
    ASSUME IInv, OInv, NEW n \in Node, Failover(n)
    PROVE  OInv'
<1>1. /\ IInv' /\ view \in [Node -> View] /\ Sound(view[n]) /\ view[n] \in View
      /\ restarts' = restarts /\ votes' = votes
  BY ScheduleElectionStep, StartElectionStep, WinElectionStep, TakeoverStep
     DEF IInv, Tables, Failover, ScheduleElection, StartElection, WinElection,
         Takeover, ghosts
<1>2. ASSUME NEW w, w.lastVote = view[n].lastVote, w.current >= view[n].current,
             view' = [view EXCEPT ![n] = w]
      PROVE  OInv'
  <2>1. ASSUME NEW t \in Node
        PROVE  /\ view'[t].lastVote = view[t].lastVote
               /\ view'[t].current >= view[t].current
    BY <1>1, <1>2, VoteTypes
  <2> QED
    BY <2>1, <1>1, NoVoteStep
<1>3. CASE ScheduleElection(n)
  <2>1. view' = view
    BY <1>3 DEF ScheduleElection
  <2> QED
    BY <2>1, <1>1, VoteTypes, NoVoteStep
<1>4. CASE StartElection(n)
  <2> DEFINE w == [view[n] EXCEPT !.current = view[n].current + 1]
  <2>1. w.lastVote = view[n].lastVote /\ w.current = view[n].current + 1
    BY <1>1 DEF View
  <2>2. view' = [view EXCEPT ![n] = w]
    BY <1>4 DEF StartElection
  <2> HIDE DEF w
  <2>3. w.current >= view[n].current
    BY <2>1, VoteTypes
  <2> QED
    BY <2>1, <2>2, <2>3, <1>2
<1>5. CASE WinElection(n)
  <2> DEFINE top == Max({view[n].epoch[n], election[n].epoch})
             v == [view[n] EXCEPT !.epoch[n] = top]
             w == ReplaceYourMaster(v, n)
  <2>1. view' = [view EXCEPT ![n] = w]
    BY <1>5 DEF WinElection
  <2>2. top \in Nat
    <3>1. view[n].epoch[n] \in Nat /\ election[n].epoch \in Nat
      BY <1>1, ElectionTypes DEF View, Epoch
    <3> QED
      BY <3>1, MaxOfTwo
  <2> HIDE DEF top
  <2>3. v \in View /\ v.lastVote = view[n].lastVote /\ v.current = view[n].current
    BY <2>2, <1>1 DEF View, Epoch
  <2> HIDE DEF v
  <2>4. w.lastVote = v.lastVote
    BY <2>3, TakeMasterVote
  <2>5. w.current = v.current
    BY DEF ReplaceYourMaster, Assign
  <2> HIDE DEF w
  <2>6. w.current >= view[n].current
    BY <2>3, <2>5, VoteTypes
  <2> QED
    BY <2>1, <2>3, <2>4, <2>6, <1>2
<1>6. CASE Takeover(n)
  <2> DEFINE v == BumpConfigEpoch(view[n], n)
             w == ReplaceYourMaster(v, n)
  <2>1. view' = [view EXCEPT ![n] = w]
    BY <1>6 DEF Takeover
  <2>2. /\ Sound(v) /\ Advances(view[n], v) /\ v \in View
        /\ v.lastVote = view[n].lastVote
    BY <1>1, BumpConfigEpochSound, BumpVote DEF Sound
  <2> HIDE DEF v
  <2>3. w.current = v.current /\ w.lastVote = v.lastVote
    BY <2>2, ReplaceYourMasterSound, TakeMasterVote
  <2> HIDE DEF w
  <2>4. w.current >= view[n].current
    BY <2>2, <2>3 DEF Advances
  <2> QED
    BY <2>1, <2>2, <2>3, <2>4, <1>2
<1> QED
  BY <1>3, <1>4, <1>5, <1>6 DEF Failover

\* Until a node is restarted, no node votes for two slaves in one epoch,
\* although MayVote looks at nothing but the last vote
\* (clusterSendFailoverAuthIfNeeded of cluster.c).
THEOREM VotesOnce == Spec => [](restarts = 0 => OneVoteAnEpoch)
<1>1. Init => IInv /\ OInv
  <2> SUFFICES ASSUME Init PROVE IInv /\ OInv
    OBVIOUS
  <2>1. IInv /\ restarts = 0 /\ votes = {}
    BY InitIInv DEF Init
  <2>2. \A n \in Node : view[n].lastVote = 0
    BY DEF Init
  <2> QED
    BY <2>1, <2>2, VoteTypes DEF OInv, Remembers, OneVoteAnEpoch
<1>2. IInv /\ OInv /\ [Next]_vars => (IInv /\ OInv)'
  <2> SUFFICES ASSUME IInv, OInv, [Next]_vars PROVE (IInv /\ OInv)'
    OBVIOUS
  <2>1. IInv'
    BY NextIInv
  <2>2. ASSUME NEW n \in Node, Restart(n)
        PROVE  OInv'
    <3>1. restarts' \in Nat /\ restarts' # 0
      BY <2>2 DEF Restart, OInv
    <3> QED
      BY <3>1 DEF OInv
  <2>3. CASE UNCHANGED vars
    <3>1. view' = view /\ votes' = votes /\ restarts' = restarts
      BY <2>3 DEF vars, ghosts
    <3> QED
      BY <3>1, <2>1, VoteTypes, NoVoteStep
  <2> QED
    BY <2>1, <2>2, <2>3, PingOne, FailoverOne, ReceiveOne DEF Next
<1>3. OInv => (restarts = 0 => OneVoteAnEpoch)
  BY DEF OInv
<1> QED
  BY <1>1, <1>2, <1>3, PTL DEF Spec
=============================================================================
