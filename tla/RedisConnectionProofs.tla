------------------------ MODULE RedisConnectionProofs ------------------------
(***************************************************************************)
(* Lemmas about RedisConnection: what the commands on their way will leave *)
(* under a key (WillHold, Outcome) when one is appended, applied or lost,  *)
(* the types of the connection, and what an awaited get is promised from   *)
(* the moment it is issued. The proofs about the route files cite them.    *)
(***************************************************************************)
EXTENDS RedisConnection, WellFoundedInduction, TLAPS

(* The queue *)

\* A command that is no write of k leaves what will be held under k.
LEMMA AppendOther ==
    ASSUME NEW S, NEW q \in Seq(S), NEW c \in S, NEW e, NEW k, NEW v,
           ~IsWrite(c, k), WillHold(q, e, k, v)
    PROVE  WillHold(Append(q, c), e, k, v)
<1> DEFINE p == Append(q, c)
<1>1. /\ DOMAIN p = 1..(Len(q) + 1) /\ DOMAIN q = 1..Len(q) /\ Len(q) \in Nat
      /\ \A i \in DOMAIN q : p[i] = q[i]
      /\ p[Len(q) + 1] = c
  OBVIOUS
<1>2. Pending(q, k) => Pending(p, k)
  BY <1>1 DEF Pending
<1>3. ASSUME NEW i \in DOMAIN p, LastWrite(p, k, i)
      PROVE  i \in DOMAIN q /\ LastWrite(q, k, i)
  BY <1>1, <1>3 DEF LastWrite
<1> QED
  BY <1>1, <1>2, <1>3 DEF WillHold

\* A write of k decides alone what will be held under k.
LEMMA AppendWrite ==
    ASSUME NEW S, NEW q \in Seq(S), NEW c \in S, NEW e, NEW k, NEW v,
           IsWrite(c, k), c.val \in {None, v}
    PROVE  WillHold(Append(q, c), e, k, v)
<1> DEFINE p == Append(q, c)
<1>1. /\ DOMAIN p = 1..(Len(q) + 1) /\ Len(q) \in Nat
      /\ p[Len(q) + 1] = c
  OBVIOUS
<1>2. Pending(p, k)
  BY <1>1 DEF Pending
<1>3. ASSUME NEW i \in DOMAIN p, LastWrite(p, k, i)
      PROVE  i = Len(q) + 1
  BY <1>1, <1>3 DEF LastWrite
<1> QED
  BY <1>1, <1>2, <1>3 DEF WillHold

\* del and set of another key.
LEMMA AppendOthers ==
    ASSUME NEW S, NEW q \in Seq(S), NEW c \in S, NEW d \in S, NEW e, NEW k, NEW v,
           ~IsWrite(c, k), ~IsWrite(d, k), WillHold(q, e, k, v)
    PROVE  WillHold(Append(Append(q, c), d), e, k, v)
<1> DEFINE p == Append(q, c)
<1>1. WillHold(p, e, k, v) /\ p \in Seq(S)
  BY AppendOther
<1> HIDE DEF p
<1>2. WillHold(Append(p, d), e, k, v)
  BY <1>1, AppendOther
<1> QED
  BY <1>2 DEF p

\* What is no write of k puts none on its way, nor does taking a command.
LEMMA PendingOther ==
    ASSUME NEW S, NEW q \in Seq(S), NEW c \in S, NEW k,
           ~IsWrite(c, k), ~Pending(q, k)
    PROVE  ~Pending(Append(q, c), k)
  BY DEF Pending

LEMMA PendingOthers ==
    ASSUME NEW S, NEW q \in Seq(S), NEW c \in S, NEW d \in S, NEW k,
           ~IsWrite(c, k), ~IsWrite(d, k), ~Pending(q, k)
    PROVE  ~Pending(Append(Append(q, c), d), k)
<1> DEFINE p == Append(q, c)
<1>1. ~Pending(p, k) /\ p \in Seq(S)
  BY PendingOther
<1> HIDE DEF p
<1>2. ~Pending(Append(p, d), k)
  BY <1>1, PendingOther
<1> QED
  BY <1>2 DEF p

LEMMA PendingTail ==
    ASSUME NEW S, NEW q \in Seq(S), q # <<>>, NEW k, ~Pending(q, k)
    PROVE  ~Pending(Tail(q), k) /\ ~IsWrite(Head(q), k)
<1>1. /\ \A i \in DOMAIN Tail(q) : i + 1 \in DOMAIN q /\ Tail(q)[i] = q[i + 1]
      /\ Head(q) = q[1] /\ 1 \in DOMAIN q
  OBVIOUS
<1> QED
  BY <1>1 DEF Pending

\* The first command is applied: the entry changes, what it will be does not.
LEMMA TakeFirst ==
    ASSUME NEW S, NEW q \in Seq(S), q # <<>>, NEW e, NEW k, NEW v,
           WillHold(q, e, k, v)
    PROVE  WillHold(Tail(q), IF IsWrite(Head(q), k) THEN Head(q).val ELSE e, k, v)
<1> DEFINE p == Tail(q)
<1>1. /\ DOMAIN q = 1..Len(q) /\ Len(q) \in Nat /\ Len(q) > 0
      /\ DOMAIN p = 1..(Len(q) - 1)
      /\ \A i \in DOMAIN p : i + 1 \in DOMAIN q /\ p[i] = q[i + 1]
      /\ \A j \in DOMAIN q : j > 1 => j - 1 \in DOMAIN p /\ p[j - 1] = q[j]
      /\ Head(q) = q[1] /\ 1 \in DOMAIN q
  OBVIOUS
<1>2. ASSUME NEW i \in DOMAIN p, LastWrite(p, k, i)
      PROVE  LastWrite(q, k, i + 1) /\ p[i] = q[i + 1]
  <2>1. ASSUME NEW j \in DOMAIN q, j > i + 1
        PROVE  ~IsWrite(q[j], k)
    <3>1. j - 1 \in DOMAIN p /\ j - 1 > i /\ p[j - 1] = q[j]
      BY <1>1, <2>1
    <3> QED
      BY <3>1, <1>2 DEF LastWrite
  <2> QED
    BY <1>1, <1>2, <2>1 DEF LastWrite
<1>3. ASSUME ~Pending(p, k), NEW j \in DOMAIN q, j # 1
      PROVE  ~IsWrite(q[j], k)
  <2>1. j - 1 \in DOMAIN p /\ p[j - 1] = q[j]
    BY <1>1, <1>3
  <2> QED
    BY <2>1, <1>3 DEF Pending
<1>4. ~Pending(p, k) /\ IsWrite(q[1], k) => LastWrite(q, k, 1)
  BY <1>1, <1>3 DEF LastWrite
<1>5. ~Pending(p, k) /\ ~IsWrite(q[1], k) => ~Pending(q, k)
  BY <1>3 DEF Pending
<1> QED
  BY <1>1, <1>2, <1>4, <1>5 DEF WillHold

\* The queue dies with the process.
LEMMA NoQueue ==
    ASSUME NEW q, NEW e, NEW k, NEW v, ~Pending(q, k), WillHold(q, e, k, v)
    PROVE  WillHold(<<>>, e, k, v)
  BY DEF WillHold, Pending, LastWrite

-----------------------------------------------------------------------------
(* The outcome of the queue *)

\* A queue with a write of k has a last one.
LEMMA LastExists ==
    ASSUME NEW S, NEW q \in Seq(S), NEW k, Pending(q, k)
    PROVE  \E i \in DOMAIN q : LastWrite(q, k, i)
<1> DEFINE T == {n \in Nat : \E i \in DOMAIN q : IsWrite(q[i], k) /\ n = Len(q) - i}
<1>1. DOMAIN q = 1..Len(q) /\ Len(q) \in Nat
  OBVIOUS
<1>2. T \subseteq Nat /\ T # {}
  <2>1. PICK i \in DOMAIN q : IsWrite(q[i], k)
    BY DEF Pending
  <2>2. Len(q) - i \in T
    BY <1>1, <2>1
  <2> QED
    BY <2>2
<1>3. PICK n \in T : \A m \in T : <<m, n>> \notin OpToRel(<, Nat)
  <2> HIDE DEF T
  <2> QED
    BY <1>2, NatLessThanWellFounded, WFMin
<1>4. PICK i \in DOMAIN q : IsWrite(q[i], k) /\ n = Len(q) - i
  BY <1>3
<1>5. ASSUME NEW j \in DOMAIN q, j > i, IsWrite(q[j], k)
      PROVE  FALSE
  <2>1. Len(q) - j \in T /\ Len(q) - j < n
    BY <1>1, <1>4, <1>5
  <2>2. <<Len(q) - j, n>> \in OpToRel(<, Nat)
    BY <1>2, <2>1 DEF OpToRel
  <2> QED
    BY <1>3, <2>1, <2>2
<1> QED
  BY <1>4, <1>5 DEF LastWrite

\* The last write decides; without one the entry stays.
LEMMA OutcomeValue ==
    ASSUME NEW S, NEW q \in Seq(S), NEW e, NEW k, NEW i, LastWrite(q, k, i)
    PROVE  Outcome(q, e, k) = q[i].val
<1>1. DOMAIN q = 1..Len(q) /\ i \in DOMAIN q /\ Pending(q, k)
  BY DEF LastWrite, Pending
<1>2. ASSUME NEW j \in DOMAIN q, LastWrite(q, k, j) PROVE j = i
  <2>1. ~(j > i) /\ ~(i > j)
    BY <1>1, <1>2 DEF LastWrite
  <2> QED
    BY <1>1, <2>1
<1> DEFINE c == CHOOSE j \in DOMAIN q : LastWrite(q, k, j)
<1>3. c \in DOMAIN q /\ LastWrite(q, k, c)
  BY <1>1
<1>4. c = i
  BY <1>2, <1>3
<1> QED
  BY <1>1, <1>4 DEF Outcome

LEMMA OutcomeEntry ==
    ASSUME NEW q, NEW e, NEW k, ~Pending(q, k)
    PROVE  Outcome(q, e, k) = e
  BY DEF Outcome

\* The outcome is the entry, or the value of a write on its way.
LEMMA OutcomeCases ==
    ASSUME NEW S, NEW q \in Seq(S), NEW e, NEW k
    PROVE  \/ ~Pending(q, k) /\ Outcome(q, e, k) = e
           \/ /\ Pending(q, k)
              /\ \E i \in DOMAIN q : LastWrite(q, k, i) /\ Outcome(q, e, k) = q[i].val
  BY LastExists, OutcomeValue, OutcomeEntry

\* A command appended behind the others.
LEMMA OutcomeOther ==
    ASSUME NEW S, NEW q \in Seq(S), NEW c \in S, NEW e, NEW k, ~IsWrite(c, k)
    PROVE  Outcome(Append(q, c), e, k) = Outcome(q, e, k)
<1> DEFINE p == Append(q, c)
<1>1. /\ DOMAIN p = 1..(Len(q) + 1) /\ DOMAIN q = 1..Len(q) /\ Len(q) \in Nat
      /\ \A i \in DOMAIN q : p[i] = q[i]
      /\ p[Len(q) + 1] = c /\ p \in Seq(S)
  OBVIOUS
<1>2. CASE ~Pending(q, k)
  <2>1. ~Pending(p, k)
    BY <1>2, PendingOther
  <2> QED
    BY <1>2, <2>1, OutcomeEntry
<1>3. CASE Pending(q, k)
  <2>1. PICK i \in DOMAIN q : LastWrite(q, k, i)
    BY <1>3, LastExists
  <2>2. LastWrite(p, k, i)
    <3> HIDE DEF p
    <3> QED
      BY <1>1, <2>1 DEF LastWrite
  <2>3. Outcome(q, e, k) = q[i].val
    BY <2>1, OutcomeValue
  <2>4. Outcome(p, e, k) = p[i].val
    <3>1. p \in Seq(S)
      BY <1>1
    <3> HIDE DEF p
    <3> QED
      BY <2>2, <3>1, OutcomeValue
  <2> QED
    BY <1>1, <2>1, <2>3, <2>4
<1> QED
  BY <1>2, <1>3

LEMMA OutcomeWrite ==
    ASSUME NEW S, NEW q \in Seq(S), NEW c \in S, NEW e, NEW k, IsWrite(c, k)
    PROVE  Outcome(Append(q, c), e, k) = c.val
<1> DEFINE p == Append(q, c)
<1>1. /\ DOMAIN p = 1..(Len(q) + 1) /\ Len(q) \in Nat
      /\ p[Len(q) + 1] = c /\ p \in Seq(S)
  OBVIOUS
<1> HIDE DEF p
<1>2. LastWrite(p, k, Len(q) + 1)
  BY <1>1 DEF LastWrite
<1>3. Outcome(p, e, k) = p[Len(q) + 1].val
  BY <1>1, <1>2, OutcomeValue
<1> QED
  BY <1>1, <1>3 DEF p

\* Redis applies the first command.
LEMMA OutcomeTail ==
    ASSUME NEW S, NEW q \in Seq(S), q # <<>>, NEW e, NEW k
    PROVE  Outcome(Tail(q), IF IsWrite(Head(q), k) THEN Head(q).val ELSE e, k)
              = Outcome(q, e, k)
<1> DEFINE p == Tail(q)
           d == IF IsWrite(Head(q), k) THEN Head(q).val ELSE e
<1>1. /\ DOMAIN q = 1..Len(q) /\ Len(q) \in Nat /\ Len(q) > 0
      /\ DOMAIN p = 1..(Len(q) - 1) /\ p \in Seq(S)
      /\ \A i \in DOMAIN p : i + 1 \in DOMAIN q /\ p[i] = q[i + 1]
      /\ \A j \in DOMAIN q : j > 1 => j - 1 \in DOMAIN p /\ p[j - 1] = q[j]
      /\ Head(q) = q[1] /\ 1 \in DOMAIN q
  OBVIOUS
<1> HIDE DEF p
<1>2. CASE Pending(p, k)
  <2>1. PICK i \in DOMAIN p : LastWrite(p, k, i)
    BY <1>1, <1>2, LastExists
  <2>2. ASSUME NEW j \in DOMAIN q, j > i + 1 PROVE ~IsWrite(q[j], k)
    <3>1. j - 1 \in DOMAIN p /\ j - 1 > i /\ p[j - 1] = q[j]
      BY <1>1, <2>2
    <3> QED
      BY <3>1, <2>1 DEF LastWrite
  <2>3. LastWrite(q, k, i + 1)
    BY <1>1, <2>1, <2>2 DEF LastWrite
  <2>4. Outcome(q, e, k) = q[i + 1].val
    BY <2>3, OutcomeValue
  <2>5. Outcome(p, d, k) = p[i].val
    BY <1>1, <2>1, OutcomeValue
  <2> QED
    BY <1>1, <2>4, <2>5 DEF p
<1>3. CASE ~Pending(p, k)
  <2>1. ASSUME NEW j \in DOMAIN q, j # 1 PROVE ~IsWrite(q[j], k)
    <3>1. j - 1 \in DOMAIN p /\ p[j - 1] = q[j]
      BY <1>1, <2>1
    <3> QED
      BY <3>1, <1>3 DEF Pending
  <2>2. Outcome(p, d, k) = d
    BY <1>3, OutcomeEntry
  <2>3. CASE IsWrite(q[1], k)
    <3>1. LastWrite(q, k, 1)
      BY <1>1, <2>1, <2>3 DEF LastWrite
    <3>2. Outcome(q, e, k) = q[1].val
      BY <3>1, OutcomeValue
    <3> QED
      BY <1>1, <2>2, <2>3, <3>2 DEF p
  <2>4. CASE ~IsWrite(q[1], k)
    <3>1. ~Pending(q, k)
      BY <2>1, <2>4 DEF Pending
    <3>2. Outcome(q, e, k) = e
      BY <3>1, OutcomeEntry
    <3> QED
      BY <1>1, <2>2, <2>4, <3>2 DEF p
  <2> QED
    BY <2>3, <2>4
<1> QED
  BY <1>2, <1>3

\* WillHold says which outcomes are allowed.
LEMMA WillHoldOutcome ==
    ASSUME NEW S, NEW q \in Seq(S), NEW e, NEW k, NEW v
    PROVE  WillHold(q, e, k, v) <=> Outcome(q, e, k) \in {None, v}
<1>1. CASE ~Pending(q, k)
  <2>1. \A i \in DOMAIN q : ~LastWrite(q, k, i)
    BY <1>1 DEF Pending, LastWrite
  <2> QED
    BY <1>1, <2>1, OutcomeEntry DEF WillHold
<1>2. CASE Pending(q, k)
  <2>1. PICK i \in DOMAIN q : LastWrite(q, k, i)
    BY <1>2, LastExists
  <2>2. \A j : LastWrite(q, k, j) => Outcome(q, e, k) = q[j].val
    BY OutcomeValue
  <2> QED
    BY <1>2, <2>1, <2>2 DEF WillHold
<1> QED
  BY <1>1, <1>2

-----------------------------------------------------------------------------
(* The connection *)

\* Commands on keys, with the values that are stored and who may wait.
Commands(K, V, R) == [op : {"get", "del", "set"}, key : K, val : V,
                      waiter : R \cup {None}]

\* Three commands, and the keys that they write.
LEMMA CommandType ==
    ASSUME NEW K, NEW V, NEW R, NEW k \in K, NEW v \in V, NEW r \in R \cup {None},
           None \in V
    PROVE  /\ Get(k, r) \in Commands(K, V, R) /\ \A x : ~IsWrite(Get(k, r), x)
           /\ Del(k, r) \in Commands(K, V, R) /\ Del(k, r).val = None
           /\ \A x : IsWrite(Del(k, r), x) <=> x = k
           /\ Set(k, v) \in Commands(K, V, R) /\ Set(k, v).val = v
           /\ \A x : IsWrite(Set(k, v), x) <=> x = k
  BY DEF Get, Del, Set, IsWrite, Commands

LEMMA SetType ==
    ASSUME NEW K, NEW V, NEW R, NEW k \in K, NEW v \in V
    PROVE  /\ Set(k, v) \in Commands(K, V, R) /\ Set(k, v).val = v
           /\ Set(k, v).waiter = None /\ \A x : IsWrite(Set(k, v), x) <=> x = k
  BY DEF Set, IsWrite, Commands

\* The outcome is a value that is stored.
LEMMA OutcomeType ==
    ASSUME NEW K, NEW V, NEW R, NEW q \in Seq(Commands(K, V, R)), NEW e \in V, NEW k
    PROVE  Outcome(q, e, k) \in V
<1> DEFINE C == Commands(K, V, R)
<1>1. \A c \in C : c.val \in V
  BY DEF Commands
<1>2. q \in Seq(C)
  OBVIOUS
<1> HIDE DEF C
<1>3. \A i \in DOMAIN q : q[i].val \in V
  BY <1>1, <1>2
<1> QED
  BY <1>2, <1>3, OutcomeCases

ConnectionType(K, V, R) ==
    /\ cache \in [K -> V]
    /\ redisQ \in Seq(Commands(K, V, R))
    /\ replies \in Seq([req : R, val : V])

LEMMA HeadTail ==
    ASSUME NEW S, NEW q \in Seq(S), q # <<>>
    PROVE  Head(q) \in S /\ Tail(q) \in Seq(S)
  OBVIOUS

LEMMA ServeType ==
    ASSUME NEW K, NEW V, NEW R, None \in V, ConnectionType(K, V, R), Serve
    PROVE  ConnectionType(K, V, R)'
<1> DEFINE c == Head(redisQ)
           v == IF c.op = "get" THEN cache[c.key] ELSE None
<1>1. /\ c \in Commands(K, V, R) /\ redisQ' \in Seq(Commands(K, V, R))
      /\ cache \in [K -> V] /\ replies \in Seq([req : R, val : V])
  BY HeadTail DEF ConnectionType, Serve
<1>2. /\ cache' = IF c.op = "get" THEN cache ELSE [cache EXCEPT ![c.key] = c.val]
      /\ replies' = IF c.waiter = None THEN replies
                    ELSE Append(replies, [req |-> c.waiter, val |-> v])
  BY DEF Serve
<1>3. /\ c.key \in K /\ c.val \in V /\ v \in V
      /\ c.waiter # None => [req |-> c.waiter, val |-> v] \in [req : R, val : V]
  BY <1>1 DEF Commands
<1> HIDE DEF c, v
<1>4. cache' \in [K -> V]
  BY <1>1, <1>2, <1>3
<1>5. replies' \in Seq([req : R, val : V])
  <2> DEFINE a == [req |-> c.waiter, val |-> v]
  <2>1. c.waiter # None => a \in [req : R, val : V]
    BY <1>3
  <2>2. replies' = IF c.waiter = None THEN replies ELSE Append(replies, a)
    BY <1>2
  <2> DEFINE T == [req : R, val : V]
  <2>3. replies \in Seq(T) /\ (c.waiter # None => a \in T)
    BY <1>1, <2>1
  <2> HIDE DEF a, T
  <2>4. replies' \in Seq(T)
    BY <2>2, <2>3
  <2> QED
    BY <2>4 DEF T
<1> QED
  BY <1>1, <1>4, <1>5 DEF ConnectionType

\* Redis applies a command of whatever key.
LEMMA ServeHolds ==
    ASSUME NEW K, NEW V, NEW R, ConnectionType(K, V, R), Serve,
           NEW k \in K, NEW v, WillHold(redisQ, cache[k], k, v)
    PROVE  WillHold(redisQ', cache'[k], k, v)
<1> DEFINE c == Head(redisQ)
<1>1. /\ c \in Commands(K, V, R) /\ redisQ' = Tail(redisQ) /\ redisQ # <<>>
      /\ redisQ \in Seq(Commands(K, V, R)) /\ cache \in [K -> V]
      /\ cache' = IF c.op = "get" THEN cache ELSE [cache EXCEPT ![c.key] = c.val]
  BY HeadTail DEF ConnectionType, Serve
<1>2. cache'[k] = IF IsWrite(c, k) THEN c.val ELSE cache[k]
  <2> HIDE DEF c
  <2> QED
    BY <1>1 DEF IsWrite, Commands
<1>3. WillHold(Tail(redisQ), IF IsWrite(c, k) THEN c.val ELSE cache[k], k, v)
  BY <1>1, TakeFirst
<1> QED
  BY <1>1, <1>2, <1>3

\* redis.del without await and redis.set, as the handlers that write do it.
LEMMA DelThenSetHolds ==
    ASSUME NEW K, NEW V, NEW R, None \in V, ConnectionType(K, V, R),
           NEW k \in K, NEW v \in V, DelThenSet(k, v), UNCHANGED <<cache, replies>>
    PROVE  /\ ConnectionType(K, V, R)'
           /\ WillHold(redisQ', cache'[k], k, v)
           /\ \A x, w : x # k /\ WillHold(redisQ, cache[x], x, w) =>
                 WillHold(redisQ', cache'[x], x, w)
<1> DEFINE d == Del(k, None)
           s == Set(k, v)
           p == Append(redisQ, d)
<1>1. /\ d \in Commands(K, V, R) /\ s \in Commands(K, V, R) /\ s.val = v
      /\ \A x : (IsWrite(d, x) <=> x = k) /\ (IsWrite(s, x) <=> x = k)
  BY DEF Del, Set, IsWrite, Commands
<1>2. /\ redisQ \in Seq(Commands(K, V, R)) /\ redisQ' = Append(p, s)
  BY DEF ConnectionType, DelThenSet
<1> HIDE DEF d, s
<1>3. p \in Seq(Commands(K, V, R))
  BY <1>1, <1>2
<1>4. WillHold(Append(p, s), cache[k], k, v)
  <2> HIDE DEF p
  <2> QED
    BY <1>1, <1>3, AppendWrite
<1>5. ASSUME NEW x, NEW w, x # k, WillHold(redisQ, cache[x], x, w)
      PROVE  WillHold(Append(p, s), cache[x], x, w)
  BY <1>1, <1>2, <1>5, AppendOthers
<1>6. ConnectionType(K, V, R)'
  <2> HIDE DEF p
  <2> QED
    BY <1>1, <1>2, <1>3 DEF ConnectionType
<1> QED
  BY <1>2, <1>4, <1>5, <1>6

\* One command: a get, or a write of k that leaves nothing or v.
LEMMA IssueHolds ==
    ASSUME NEW K, NEW V, NEW R, ConnectionType(K, V, R),
           NEW c \in Commands(K, V, R), Issue(c),
           cache' = cache, replies' \in Seq([req : R, val : V])
    PROVE  /\ ConnectionType(K, V, R)'
           /\ \A x, w : /\ WillHold(redisQ, cache[x], x, w)
                        /\ ~IsWrite(c, x) \/ c.val \in {None, w}
                        => WillHold(redisQ', cache'[x], x, w)
<1>1. redisQ \in Seq(Commands(K, V, R)) /\ redisQ' = Append(redisQ, c)
  BY DEF ConnectionType, Issue
<1>2. ASSUME NEW x, NEW w, WillHold(redisQ, cache[x], x, w), ~IsWrite(c, x)
      PROVE  WillHold(redisQ', cache'[x], x, w)
  BY <1>1, <1>2, AppendOther
<1>3. ASSUME NEW x, NEW w, IsWrite(c, x), c.val \in {None, w}
      PROVE  WillHold(redisQ', cache'[x], x, w)
  BY <1>1, <1>3, AppendWrite
<1>4. ConnectionType(K, V, R)'
  BY <1>1 DEF ConnectionType
<1> QED
  BY <1>2, <1>3, <1>4

\* What Redis will hold: a step of Redis leaves it, a write decides it.
LEMMA ServeFuture ==
    ASSUME NEW K, NEW V, NEW R, ConnectionType(K, V, R), Serve, NEW k \in K
    PROVE  Outcome(redisQ', cache'[k], k) = Outcome(redisQ, cache[k], k)
<1> DEFINE c == Head(redisQ)
<1>1. /\ c \in Commands(K, V, R) /\ redisQ' = Tail(redisQ) /\ redisQ # <<>>
      /\ redisQ \in Seq(Commands(K, V, R)) /\ cache \in [K -> V]
      /\ cache' = IF c.op = "get" THEN cache ELSE [cache EXCEPT ![c.key] = c.val]
  BY HeadTail DEF ConnectionType, Serve
<1>2. cache'[k] = IF IsWrite(c, k) THEN c.val ELSE cache[k]
  <2> HIDE DEF c
  <2> QED
    BY <1>1 DEF IsWrite, Commands
<1>3. Outcome(Tail(redisQ), IF IsWrite(c, k) THEN c.val ELSE cache[k], k)
        = Outcome(redisQ, cache[k], k)
  BY <1>1, OutcomeTail
<1> QED
  BY <1>1, <1>2, <1>3

LEMMA IssueFuture ==
    ASSUME NEW K, NEW V, NEW R, ConnectionType(K, V, R),
           NEW c \in Commands(K, V, R), Issue(c), cache' = cache, NEW k
    PROVE  Outcome(redisQ', cache'[k], k) =
              IF IsWrite(c, k) THEN c.val ELSE Outcome(redisQ, cache[k], k)
<1>1. redisQ \in Seq(Commands(K, V, R)) /\ redisQ' = Append(redisQ, c)
  BY DEF ConnectionType, Issue
<1> QED
  BY <1>1, OutcomeOther, OutcomeWrite

LEMMA DelThenSetFuture ==
    ASSUME NEW K, NEW V, NEW R, None \in V, ConnectionType(K, V, R),
           NEW x \in K, NEW v \in V, DelThenSet(x, v), cache' = cache, NEW k
    PROVE  Outcome(redisQ', cache'[k], k) =
              IF k = x THEN v ELSE Outcome(redisQ, cache[k], k)
<1> DEFINE d == Del(x, None)
           s == Set(x, v)
           p == Append(redisQ, d)
<1>1. /\ d \in Commands(K, V, R) /\ s \in Commands(K, V, R) /\ s.val = v
      /\ (IsWrite(d, k) <=> k = x) /\ (IsWrite(s, k) <=> k = x)
  BY DEF Del, Set, IsWrite, Commands
<1>2. redisQ \in Seq(Commands(K, V, R)) /\ redisQ' = Append(p, s)
  BY DEF ConnectionType, DelThenSet
<1> HIDE DEF d, s
<1>3. p \in Seq(Commands(K, V, R))
  BY <1>1, <1>2
<1>4. k # x => Outcome(p, cache[k], k) = Outcome(redisQ, cache[k], k)
  BY <1>1, <1>2, OutcomeOther
<1> HIDE DEF p
<1>5. Outcome(Append(p, s), cache[k], k) = IF k = x THEN v ELSE Outcome(p, cache[k], k)
  BY <1>1, <1>3, OutcomeOther, OutcomeWrite
<1> QED
  BY <1>2, <1>4, <1>5

-----------------------------------------------------------------------------
(* What a handler waits for: its command is in the queue, once, or the     *)
(* answer is among the replies, once.                                      *)

AskedAt(q, as, r, c, i) ==
    /\ \A j \in DOMAIN as : as[j].req # r
    /\ i \in DOMAIN q /\ q[i] = c /\ c.waiter = r
    /\ \A j \in DOMAIN q : q[j].waiter = r => j = i

AnsweredAt(q, as, r, i) ==
    /\ \A j \in DOMAIN q : q[j].waiter # r
    /\ i \in DOMAIN as /\ as[i].req = r
    /\ \A j \in DOMAIN as : as[j].req = r => j = i

Awaits(r, c) ==
    \E i \in Nat : AskedAt(redisQ, replies, r, c, i) \/ AnsweredAt(redisQ, replies, r, i)

Silent(r) ==
    /\ \A i \in DOMAIN redisQ : redisQ[i].waiter # r
    /\ \A i \in DOMAIN replies : replies[i].req # r

LEMMA SamePrefix ==
    ASSUME NEW S, NEW p \in Seq(S), NEW q \in Seq(S), NEW n \in Nat,
           n <= Len(p), n <= Len(q), \A i \in 1..n : p[i] = q[i]
    PROVE  SubSeq(p, 1, n) = SubSeq(q, 1, n)
  OBVIOUS

LEMMA PromiseAnswered ==
    ASSUME NEW q, NEW es, NEW as, NEW r, NEW i, AnsweredAt(q, as, r, i)
    PROVE  Promise(q, es, as, r) = as[i].val
<1> DEFINE c == CHOOSE j \in DOMAIN as : as[j].req = r
<1>1. c \in DOMAIN as /\ as[c].req = r
  BY DEF AnsweredAt
<1>2. c = i
  BY <1>1 DEF AnsweredAt
<1> QED
  BY <1>1, <1>2 DEF Promise

LEMMA PromiseAsked ==
    ASSUME NEW q, NEW es, NEW as, NEW r, NEW c, NEW i, AskedAt(q, as, r, c, i)
    PROVE  Promise(q, es, as, r) = Outcome(SubSeq(q, 1, i - 1), es[c.key], c.key)
<1> DEFINE n == CHOOSE j \in DOMAIN q : q[j].waiter = r
<1>1. n \in DOMAIN q /\ q[n].waiter = r
  BY DEF AskedAt
<1>2. n = i
  BY <1>1 DEF AskedAt
<1>3. ~ \E j \in DOMAIN as : as[j].req = r
  BY DEF AskedAt
<1>4. Promise(q, es, as, r) = Outcome(SubSeq(q, 1, n - 1), es[q[n].key], q[n].key)
  BY <1>3 DEF Promise
<1> QED
  BY <1>2, <1>4 DEF AskedAt

\* The handlers of others go on: commands without r as waiter are issued, and
\* a reply that is not for r may be delivered.
Grows(r) ==
    /\ Len(redisQ) <= Len(redisQ')
    /\ \A i \in DOMAIN redisQ : redisQ'[i] = redisQ[i]
    /\ \A i \in DOMAIN redisQ' : i > Len(redisQ) => redisQ'[i].waiter # r
    /\ cache' = cache

Passes(r) ==
    \/ replies' = replies
    \/ replies # <<>> /\ replies' = Tail(replies) /\ Head(replies).req # r

LEMMA AwaitsKept ==
    ASSUME NEW K, NEW V, NEW R, ConnectionType(K, V, R), ConnectionType(K, V, R)',
           NEW r, NEW c, Awaits(r, c), Grows(r), Passes(r)
    PROVE  Awaits(r, c)' /\ Promised(r)' = Promised(r)
<1> DEFINE C == Commands(K, V, R)
           T == [req : R, val : V]
<1>1. /\ redisQ \in Seq(C) /\ redisQ' \in Seq(C)
      /\ replies \in Seq(T) /\ replies' \in Seq(T) /\ cache' = cache
  BY DEF ConnectionType, Grows
<1> HIDE DEF C, T
<1>2. /\ DOMAIN redisQ = 1..Len(redisQ) /\ DOMAIN redisQ' = 1..Len(redisQ')
      /\ Len(redisQ) \in Nat /\ Len(redisQ') \in Nat
      /\ DOMAIN replies = 1..Len(replies) /\ Len(replies) \in Nat
  BY <1>1
<1>3. ASSUME NEW i \in DOMAIN redisQ
      PROVE  SubSeq(redisQ', 1, i - 1) = SubSeq(redisQ, 1, i - 1)
  <2>1. /\ i - 1 \in Nat /\ i - 1 <= Len(redisQ) /\ i - 1 <= Len(redisQ')
        /\ \A j \in 1..(i - 1) : redisQ'[j] = redisQ[j]
    BY <1>2 DEF Grows
  <2> QED
    BY <1>1, <2>1, SamePrefix
<1>4. \A j \in DOMAIN redisQ' : redisQ'[j].waiter = r =>
            j \in DOMAIN redisQ /\ redisQ[j].waiter = r
  BY <1>2 DEF Grows
<1>5. ASSUME NEW i \in Nat, i \in DOMAIN redisQ,
             AskedAt(redisQ, replies, r, c, i), AskedAt(redisQ', replies', r, c, i)
      PROVE  Awaits(r, c)' /\ Promised(r)' = Promised(r)
  <2>1. Promised(r) = Outcome(SubSeq(redisQ, 1, i - 1), cache[c.key], c.key)
    BY <1>5, PromiseAsked DEF Promised
  <2>2. Promised(r)' = Outcome(SubSeq(redisQ', 1, i - 1), cache'[c.key], c.key)
    BY <1>5, PromiseAsked DEF Promised
  <2> QED
    BY <1>1, <1>3, <1>5, <2>1, <2>2 DEF Awaits
<1>6. CASE replies' # replies
  <2>0. replies # <<>> /\ replies' = Tail(replies) /\ Head(replies).req # r
    BY <1>6 DEF Passes
  <2>1. /\ DOMAIN replies' = 1..(Len(replies) - 1) /\ Len(replies) > 0
        /\ \A j \in DOMAIN replies' : replies'[j] = replies[j + 1]
        /\ replies[1].req # r
    BY <1>1, <2>0
  <2>2. ASSUME NEW i, AskedAt(redisQ, replies, r, c, i)
        PROVE  AskedAt(redisQ', replies', r, c, i)
    BY <1>2, <1>4, <2>1, <2>2 DEF AskedAt, Grows
  <2>3. ASSUME NEW i, AnsweredAt(redisQ, replies, r, i)
        PROVE  /\ AnsweredAt(redisQ', replies', r, i - 1) /\ i - 1 \in Nat
               /\ replies'[i - 1].val = replies[i].val
    <3>1. /\ \A j \in DOMAIN redisQ : redisQ[j].waiter # r
          /\ i \in DOMAIN replies /\ replies[i].req = r
          /\ \A j \in DOMAIN replies : replies[j].req = r => j = i
      BY <2>3 DEF AnsweredAt
    <3>2. i - 1 \in DOMAIN replies' /\ replies'[i - 1] = replies[i] /\ i - 1 \in Nat
      BY <1>2, <2>1, <3>1
    <3>3. \A j \in DOMAIN replies' : replies'[j].req = r => j = i - 1
      BY <1>2, <2>1, <3>1
    <3>4. \A j \in DOMAIN redisQ' : redisQ'[j].waiter # r
      BY <1>4, <3>1
    <3> QED
      BY <3>1, <3>2, <3>3, <3>4 DEF AnsweredAt
  <2>4. CASE \E i \in Nat : AskedAt(redisQ, replies, r, c, i)
    <3>1. PICK i \in Nat : AskedAt(redisQ, replies, r, c, i)
      BY <2>4
    <3>2. AskedAt(redisQ', replies', r, c, i) /\ i \in DOMAIN redisQ
      BY <2>2, <3>1 DEF AskedAt
    <3> QED
      BY <1>5, <3>1, <3>2
  <2>5. CASE \E i \in Nat : AnsweredAt(redisQ, replies, r, i)
    <3>1. PICK i \in Nat : AnsweredAt(redisQ, replies, r, i)
      BY <2>5
    <3> QED
      BY <2>3, <3>1, PromiseAnswered DEF Awaits, Promised
  <2> QED
    BY <2>4, <2>5 DEF Awaits
<1>7. CASE replies' = replies
  <2>1. ASSUME NEW i, AskedAt(redisQ, replies, r, c, i)
        PROVE  AskedAt(redisQ', replies', r, c, i) /\ i \in DOMAIN redisQ
    BY <1>2, <1>4, <1>7, <2>1 DEF AskedAt, Grows
  <2>2. ASSUME NEW i, AnsweredAt(redisQ, replies, r, i)
        PROVE  AnsweredAt(redisQ', replies', r, i)
    BY <1>4, <1>7, <2>2 DEF AnsweredAt
  <2>3. CASE \E i \in Nat : AskedAt(redisQ, replies, r, c, i)
    BY <1>5, <2>1, <2>3
  <2>4. CASE \E i \in Nat : AnsweredAt(redisQ, replies, r, i)
    BY <1>7, <2>2, <2>4, PromiseAnswered DEF Awaits, Promised
  <2> QED
    BY <2>3, <2>4 DEF Awaits
<1> QED
  BY <1>6, <1>7

\* What a step of Redis does to the queue, the entries and the replies.
LEMMA ServeSteps ==
    ASSUME NEW K, NEW V, NEW R, ConnectionType(K, V, R), ConnectionType(K, V, R)', Serve
    PROVE  /\ DOMAIN redisQ = 1..Len(redisQ) /\ Len(redisQ) \in Nat /\ 1 \in DOMAIN redisQ
           /\ DOMAIN redisQ' = 1..(Len(redisQ) - 1)
           /\ \A j \in DOMAIN redisQ' : redisQ'[j] = redisQ[j + 1]
           /\ DOMAIN replies = 1..Len(replies) /\ Len(replies) \in Nat
           /\ \A k \in K : cache'[k] = IF IsWrite(redisQ[1], k) THEN redisQ[1].val
                                       ELSE cache[k]
           /\ redisQ[1].waiter = None => replies' = replies
           /\ redisQ[1].waiter # None =>
                /\ DOMAIN replies' = 1..(Len(replies) + 1)
                /\ \A j \in DOMAIN replies : replies'[j] = replies[j]
                /\ replies'[Len(replies) + 1].req = redisQ[1].waiter
                /\ redisQ[1].op = "get" =>
                     replies'[Len(replies) + 1].val = cache[redisQ[1].key]
<1> DEFINE C == Commands(K, V, R)
           T == [req : R, val : V]
           c == Head(redisQ)
           a == [req |-> c.waiter, val |-> IF c.op = "get" THEN cache[c.key] ELSE None]
<1>1. /\ redisQ \in Seq(C) /\ redisQ # <<>> /\ redisQ' = Tail(redisQ)
      /\ replies \in Seq(T) /\ cache \in [K -> V]
      /\ replies' = IF c.waiter = None THEN replies ELSE Append(replies, a)
      /\ cache' = IF c.op = "get" THEN cache ELSE [cache EXCEPT ![c.key] = c.val]
  BY DEF ConnectionType, Serve
<1>2. a.req = c.waiter /\ (c.op = "get" => a.val = cache[c.key]) /\ c = redisQ[1]
  BY <1>1
<1> HIDE DEF C, T, c, a
<1>3. /\ DOMAIN redisQ = 1..Len(redisQ) /\ Len(redisQ) \in Nat /\ 1 \in DOMAIN redisQ
      /\ DOMAIN redisQ' = 1..(Len(redisQ) - 1)
      /\ \A j \in DOMAIN redisQ' : redisQ'[j] = redisQ[j + 1]
      /\ DOMAIN replies = 1..Len(replies) /\ Len(replies) \in Nat
  BY <1>1
<1>4. \A k \in K : cache'[k] = IF IsWrite(c, k) THEN c.val ELSE cache[k]
  BY <1>1 DEF IsWrite
<1>5. c.waiter # None =>
        /\ DOMAIN replies' = 1..(Len(replies) + 1)
        /\ \A j \in DOMAIN replies : replies'[j] = replies[j]
        /\ replies'[Len(replies) + 1] = a
  <2> SUFFICES ASSUME c.waiter # None PROVE <1>5!2
    OBVIOUS
  <2>1. replies' = Append(replies, a)
    BY <1>1
  <2> QED
    BY <1>1, <2>1
<1> QED
  BY <1>1, <1>2, <1>3, <1>4, <1>5

\* A step of Redis keeps every promise.
LEMMA AwaitsServe ==
    ASSUME NEW K, NEW V, NEW R, ConnectionType(K, V, R), ConnectionType(K, V, R)', Serve,
           NEW r, r # None, NEW c, c.key \in K, Awaits(r, c)
    PROVE  Awaits(r, c)' /\ (c.op = "get" => Promised(r)' = Promised(r))
<1> DEFINE n == Len(redisQ)
<1>1. ASSUME AskedAt(redisQ, replies, r, c, 1)
      PROVE  Awaits(r, c)' /\ (c.op = "get" => Promised(r)' = Promised(r))
  <2> DEFINE m == Len(replies) + 1
  <2>1. /\ redisQ[1] = c /\ c.waiter = r /\ \A j \in DOMAIN redisQ' : redisQ'[j].waiter # r
        /\ \A j \in DOMAIN replies : replies[j].req # r
    BY <1>1, ServeSteps DEF AskedAt
  <2>2. /\ m \in DOMAIN replies' /\ replies'[m].req = r
        /\ c.op = "get" => replies'[m].val = cache[c.key]
        /\ \A j \in DOMAIN replies' : j # m => j \in DOMAIN replies /\ replies'[j] = replies[j]
    BY <2>1, ServeSteps
  <2>3. m \in Nat
    BY ServeSteps
  <2> HIDE DEF m
  <2>4. AnsweredAt(redisQ', replies', r, m)
    BY <2>1, <2>2 DEF AnsweredAt
  <2>5. Promised(r)' = replies'[m].val
    BY <2>4, PromiseAnswered DEF Promised
  <2>6. Promised(r) = cache[c.key]
    <3>1. Promised(r) = Outcome(SubSeq(redisQ, 1, 1 - 1), cache[c.key], c.key)
      BY <1>1, PromiseAsked DEF Promised
    <3>2. ~Pending(SubSeq(redisQ, 1, 1 - 1), c.key)
      BY DEF Pending
    <3> QED
      BY <3>1, <3>2, OutcomeEntry
  <2> QED
    BY <2>2, <2>3, <2>4, <2>5, <2>6 DEF Awaits
<1>2. ASSUME NEW i \in Nat, i # 1, AskedAt(redisQ, replies, r, c, i)
      PROVE  Awaits(r, c)' /\ (c.op = "get" => Promised(r)' = Promised(r))
  <2>1. /\ i \in DOMAIN redisQ /\ redisQ[i] = c /\ c.waiter = r /\ redisQ[1].waiter # r
        /\ \A j \in DOMAIN replies : replies[j].req # r
        /\ \A j \in DOMAIN redisQ : redisQ[j].waiter = r => j = i
    BY <1>2, ServeSteps DEF AskedAt
  <2>2. \A j \in DOMAIN replies' : replies'[j].req # r
    <3>1. CASE redisQ[1].waiter = None
      BY <2>1, <3>1, ServeSteps
    <3>2. CASE redisQ[1].waiter # None
      <4>1. \A j \in DOMAIN replies' : j \in DOMAIN replies \/ j = Len(replies) + 1
        BY <3>2, ServeSteps
      <4> QED
        BY <2>1, <3>2, <4>1, ServeSteps
    <3> QED
      BY <3>1, <3>2
  <2>3. i \in 2..n /\ n \in Nat
    BY <1>2, <2>1, ServeSteps
  <2>4. i - 1 \in DOMAIN redisQ' /\ redisQ'[i - 1] = c
    BY <2>1, <2>3, ServeSteps
  <2>5. \A j \in DOMAIN redisQ' : redisQ'[j].waiter = r => j = i - 1
    BY <2>1, <2>3, ServeSteps
  <2>6. AskedAt(redisQ', replies', r, c, i - 1) /\ i - 1 \in Nat
    BY <2>1, <2>2, <2>3, <2>4, <2>5 DEF AskedAt
  <2> DEFINE p == SubSeq(redisQ, 1, i - 1)
  <2>7. Promised(r) = Outcome(p, cache[c.key], c.key)
    BY <1>2, PromiseAsked DEF Promised
  <2>8. Promised(r)' = Outcome(SubSeq(redisQ', 1, i - 1 - 1), cache'[c.key], c.key)
    <3> DEFINE h == i - 1
    <3>1. AskedAt(redisQ', replies', r, c, h)
      BY <2>6
    <3> HIDE DEF h
    <3>2. Promised(r)' = Outcome(SubSeq(redisQ', 1, h - 1), cache'[c.key], c.key)
      BY <3>1, PromiseAsked DEF Promised
    <3> QED
      BY <3>2 DEF h
  <2>9. /\ p \in Seq(Commands(K, V, R)) /\ p # <<>> /\ Head(p) = redisQ[1]
        /\ Tail(p) = SubSeq(redisQ', 1, i - 1 - 1)
    <3> DEFINE C == Commands(K, V, R)
    <3>1. redisQ \in Seq(C) /\ redisQ' = Tail(redisQ) /\ redisQ # <<>>
      BY DEF ConnectionType, Serve
    <3> HIDE DEF C
    <3>2. p \in Seq(C) /\ p # <<>> /\ Head(p) = redisQ[1]
      BY <2>3, <3>1
    <3>3. Tail(p) = SubSeq(redisQ', 1, i - 1 - 1)
      BY <2>3, <3>1
    <3> QED
      BY <3>2, <3>3 DEF C
  <2> HIDE DEF p
  <2>10. Outcome(Tail(p), cache'[c.key], c.key) = Outcome(p, cache[c.key], c.key)
    <3>1. cache'[c.key] = IF IsWrite(Head(p), c.key) THEN Head(p).val ELSE cache[c.key]
      BY <2>9, ServeSteps
    <3> QED
      BY <2>9, <3>1, OutcomeTail
  <2> QED
    BY <2>6, <2>7, <2>8, <2>9, <2>10 DEF Awaits
<1>3. ASSUME NEW i \in Nat, AnsweredAt(redisQ, replies, r, i)
      PROVE  Awaits(r, c)' /\ (c.op = "get" => Promised(r)' = Promised(r))
  <2>1. /\ i \in DOMAIN replies /\ replies[i].req = r /\ redisQ[1].waiter # r
        /\ \A j \in DOMAIN replies : replies[j].req = r => j = i
        /\ \A j \in DOMAIN redisQ' : redisQ'[j].waiter # r
    BY <1>3, ServeSteps DEF AnsweredAt
  <2>2. /\ i \in DOMAIN replies' /\ replies'[i] = replies[i]
        /\ \A j \in DOMAIN replies' : replies'[j].req = r => j = i
    <3>1. CASE redisQ[1].waiter = None
      BY <2>1, <3>1, ServeSteps
    <3>2. CASE redisQ[1].waiter # None
      <4>1. \A j \in DOMAIN replies' : j \in DOMAIN replies \/ j = Len(replies) + 1
        BY <3>2, ServeSteps
      <4> QED
        BY <2>1, <3>2, <4>1, ServeSteps
    <3> QED
      BY <3>1, <3>2
  <2>3. AnsweredAt(redisQ', replies', r, i)
    BY <2>1, <2>2 DEF AnsweredAt
  <2> QED
    BY <1>3, <2>2, <2>3, PromiseAnswered DEF Awaits, Promised
<1> QED
  BY <1>1, <1>2, <1>3 DEF Awaits

LEMMA SilentServe ==
    ASSUME NEW K, NEW V, NEW R, ConnectionType(K, V, R), ConnectionType(K, V, R)', Serve,
           NEW r, Silent(r)
    PROVE  Silent(r)'
<1>1. /\ redisQ[1].waiter # r /\ \A j \in DOMAIN redisQ' : redisQ'[j].waiter # r
      /\ \A j \in DOMAIN replies : replies[j].req # r
  BY ServeSteps DEF Silent
<1>2. CASE redisQ[1].waiter = None
  BY <1>1, <1>2, ServeSteps DEF Silent
<1>3. CASE redisQ[1].waiter # None
  <2>1. \A j \in DOMAIN replies' : j \in DOMAIN replies \/ j = Len(replies) + 1
    BY <1>3, ServeSteps
  <2> QED
    BY <1>1, <1>3, <2>1, ServeSteps DEF Silent
<1> QED
  BY <1>2, <1>3

\* The reply delivered first is the one promised, and the only one.
LEMMA AwaitsHead ==
    ASSUME NEW K, NEW V, NEW R, ConnectionType(K, V, R), NEW r, NEW c, Awaits(r, c),
           replies # <<>>, Head(replies).req = r
    PROVE  AnsweredAt(redisQ, replies, r, 1) /\ Promised(r) = Head(replies).val
<1> DEFINE T == [req : R, val : V]
<1>1. replies \in Seq(T)
  BY DEF ConnectionType
<1> HIDE DEF T
<1>2. /\ DOMAIN replies = 1..Len(replies) /\ Len(replies) \in Nat /\ Len(replies) > 0
      /\ 1 \in DOMAIN replies /\ Head(replies) = replies[1]
  BY <1>1
<1>3. PICK i \in Nat : AnsweredAt(redisQ, replies, r, i)
  BY <1>2 DEF Awaits, AskedAt
<1>4. i = 1
  BY <1>2, <1>3 DEF AnsweredAt
<1> QED
  BY <1>2, <1>3, <1>4, PromiseAnswered DEF Promised

\* Once it is delivered the request awaits nothing.
LEMMA SilentDelivered ==
    ASSUME NEW K, NEW V, NEW R, ConnectionType(K, V, R), ConnectionType(K, V, R)',
           NEW r, NEW c, Awaits(r, c), replies # <<>>, Head(replies).req = r,
           Grows(r), replies' = Tail(replies)
    PROVE  Silent(r)'
<1> DEFINE T == [req : R, val : V]
<1>1. replies \in Seq(T)
  BY DEF ConnectionType
<1> HIDE DEF T
<1>2. AnsweredAt(redisQ, replies, r, 1)
  BY AwaitsHead
<1>3. /\ DOMAIN replies = 1..Len(replies) /\ Len(replies) \in Nat
      /\ DOMAIN replies' = 1..(Len(replies) - 1)
      /\ \A j \in DOMAIN replies' : replies'[j] = replies[j + 1]
  BY <1>1
<1>4. \A j \in DOMAIN replies' : replies'[j].req # r
  BY <1>2, <1>3 DEF AnsweredAt
<1>5. DOMAIN redisQ = 1..Len(redisQ) /\ DOMAIN redisQ' = 1..Len(redisQ')
      /\ Len(redisQ) \in Nat /\ Len(redisQ') \in Nat
  BY DEF ConnectionType
<1>6. \A j \in DOMAIN redisQ' : redisQ'[j].waiter # r
  BY <1>2, <1>5 DEF AnsweredAt, Grows
<1> QED
  BY <1>4, <1>6 DEF Silent

\* A request that awaits nothing goes on so while others act.
LEMMA SilentKept ==
    ASSUME NEW K, NEW V, NEW R, ConnectionType(K, V, R), ConnectionType(K, V, R)',
           NEW r, Silent(r), Grows(r), Passes(r)
    PROVE  Silent(r)'
<1> DEFINE T == [req : R, val : V]
<1>1. replies \in Seq(T)
  BY DEF ConnectionType
<1> HIDE DEF T
<1>2. \A j \in DOMAIN replies' : \E i \in DOMAIN replies : replies'[j] = replies[i]
  <2>1. CASE replies' = replies
    BY <2>1
  <2>2. CASE replies # <<>> /\ replies' = Tail(replies)
    <3>1. \A j \in DOMAIN replies' : j + 1 \in DOMAIN replies /\ replies'[j] = replies[j + 1]
      BY <1>1, <2>2
    <3> QED
      BY <3>1
  <2> QED
    BY <2>1, <2>2 DEF Passes
<1>3. DOMAIN redisQ = 1..Len(redisQ) /\ DOMAIN redisQ' = 1..Len(redisQ')
      /\ Len(redisQ) \in Nat /\ Len(redisQ') \in Nat
  BY DEF ConnectionType
<1>4. \A j \in DOMAIN redisQ' : redisQ'[j].waiter # r
  BY <1>3 DEF Silent, Grows
<1> QED
  BY <1>2, <1>4 DEF Silent

\* A request that issues its command awaits it; a get is promised what Redis
\* will hold under its key by then.
LEMMA AwaitsIssued ==
    ASSUME NEW K, NEW V, NEW R, ConnectionType(K, V, R), ConnectionType(K, V, R)',
           NEW r, NEW c, c.waiter = r, Silent(r), Issue(c), UNCHANGED <<cache, replies>>
    PROVE  /\ Awaits(r, c)'
           /\ Promised(r)' = Outcome(redisQ, cache[c.key], c.key)
<1> DEFINE C == Commands(K, V, R)
           n == Len(redisQ) + 1
<1>1. redisQ \in Seq(C) /\ redisQ' \in Seq(C) /\ redisQ' = Append(redisQ, c)
  BY DEF ConnectionType, Issue
<1> HIDE DEF C
<1>2. /\ DOMAIN redisQ = 1..Len(redisQ) /\ Len(redisQ) \in Nat
      /\ DOMAIN redisQ' = 1..n /\ redisQ'[n] = c
      /\ \A i \in DOMAIN redisQ : redisQ'[i] = redisQ[i]
  BY <1>1
<1>3. SubSeq(redisQ', 1, n - 1) = redisQ
  BY <1>1, <1>2
<1> HIDE DEF n
<1>4. AskedAt(redisQ', replies', r, c, n)
  <2>1. n \in DOMAIN redisQ' /\ \A j \in DOMAIN redisQ' : j # n => j \in DOMAIN redisQ
    BY <1>2 DEF n
  <2> QED
    BY <1>2, <2>1 DEF AskedAt, Silent
<1>5. n \in Nat
  BY <1>2 DEF n
<1>6. Promised(r)' = Outcome(SubSeq(redisQ', 1, n - 1), cache'[c.key], c.key)
  BY <1>4, PromiseAsked DEF Promised
<1> QED
  BY <1>3, <1>4, <1>5, <1>6 DEF Awaits

\* What others do.
LEMMA IssueGrows ==
    ASSUME NEW K, NEW V, NEW R, ConnectionType(K, V, R),
           NEW r, NEW c, c.waiter # r, Issue(c), cache' = cache
    PROVE  Grows(r)
  BY DEF ConnectionType, Issue, Grows

LEMMA DelThenSetGrows ==
    ASSUME NEW K, NEW V, NEW R, ConnectionType(K, V, R), ConnectionType(K, V, R)',
           NEW r, r # None, NEW k, NEW v, DelThenSet(k, v), cache' = cache
    PROVE  Grows(r)
<1> DEFINE d == Del(k, None)
           s == Set(k, v)
           C == Commands(K, V, R)
<1>1. redisQ \in Seq(C) /\ redisQ' = Append(Append(redisQ, d), s)
      /\ d.waiter = None /\ s.waiter = None /\ redisQ' \in Seq(C)
  BY DEF ConnectionType, DelThenSet, Del, Set
<1> HIDE DEF d, s, C
<1>2. /\ Len(redisQ) \in Nat /\ Len(redisQ') = Len(redisQ) + 2
      /\ DOMAIN redisQ' = 1..(Len(redisQ) + 2) /\ DOMAIN redisQ = 1..Len(redisQ)
      /\ \A i \in DOMAIN redisQ : redisQ'[i] = redisQ[i]
      /\ redisQ'[Len(redisQ) + 1] = d /\ redisQ'[Len(redisQ) + 2] = s
  BY <1>1
<1>3. ASSUME NEW i \in DOMAIN redisQ', i > Len(redisQ) PROVE redisQ'[i].waiter # r
  <2>1. i = Len(redisQ) + 1 \/ i = Len(redisQ) + 2
    BY <1>2, <1>3
  <2> QED
    BY <1>1, <1>2, <2>1
<1> QED
  BY <1>2, <1>3 DEF Grows

LEMMA SameGrows ==
    ASSUME NEW K, NEW V, NEW R, ConnectionType(K, V, R), NEW r, UNCHANGED <<cache, redisQ>>
    PROVE  Grows(r)
  BY DEF ConnectionType, Grows

-----------------------------------------------------------------------------
(* Where a key has one reader at a time, who goes by the name of the key:  *)
(* while a list is on its way, its get is awaited.                         *)

Listens(asks, k) == IF asks THEN Awaits(k, Get(k, k)) ELSE Silent(k)

\* A reader goes on, and what it is promised stays.
KeepsListening(asks, k) ==
    Listens(asks, k) => Listens(asks, k)' /\ (asks => Promised(k)' = Promised(k))

LEMMA ListensOn ==
    ASSUME NEW K, NEW V, ConnectionType(K, V, K), ConnectionType(K, V, K)',
           NEW k, Grows(k), Passes(k), NEW asks \in BOOLEAN
    PROVE  KeepsListening(asks, k)
<1>1. CASE asks
  <2>1. ASSUME Awaits(k, Get(k, k))
        PROVE  Awaits(k, Get(k, k))' /\ Promised(k)' = Promised(k)
    <3>1. PICK c : c = Get(k, k)
      OBVIOUS
    <3>2. Awaits(k, c)' /\ Promised(k)' = Promised(k)
      BY <2>1, <3>1, AwaitsKept
    <3> QED
      BY <3>1, <3>2
  <2> QED
    BY <1>1, <2>1 DEF KeepsListening, Listens
<1>2. CASE ~asks
  BY <1>2, SilentKept DEF KeepsListening, Listens
<1> QED
  BY <1>1, <1>2

\* Redis goes on, and decides nothing new.
LEMMA ListensServe ==
    ASSUME NEW K, NEW V, None \in V, ConnectionType(K, V, K), Serve
    PROVE  /\ \A k \in K, asks \in BOOLEAN : k # None => KeepsListening(asks, k)
           /\ \A x \in K : Future(redisQ, x)' = Future(redisQ, x)
<1>1. ConnectionType(K, V, K)'
  BY ServeType
<1>2. ASSUME NEW k \in K, k # None, NEW asks \in BOOLEAN
      PROVE  KeepsListening(asks, k)
  <2>1. CASE asks
    <3>1. ASSUME Awaits(k, Get(k, k))
          PROVE  Awaits(k, Get(k, k))' /\ Promised(k)' = Promised(k)
      <4>1. PICK c : c = Get(k, k)
        OBVIOUS
      <4>2. c.key \in K /\ c.op = "get"
        BY <4>1 DEF Get
      <4>3. Awaits(k, c)' /\ Promised(k)' = Promised(k)
        BY <1>1, <1>2, <3>1, <4>1, <4>2, AwaitsServe
      <4> QED
        BY <4>1, <4>3
    <3> QED
      BY <2>1, <3>1 DEF KeepsListening, Listens
  <2>2. CASE ~asks
    BY <1>1, <2>2, SilentServe DEF KeepsListening, Listens
  <2> QED
    BY <2>1, <2>2
<1> QED
  BY <1>2, ServeFuture DEF Future

\* A handler deletes the entry of k, and may set it to v.
LEMMA ListensWrite ==
    ASSUME NEW K, NEW V, None \in V, ConnectionType(K, V, K), ConnectionType(K, V, K)',
           NEW k \in K, NEW v \in V,
           (v = None /\ Issue(Del(k, None))) \/ DelThenSet(k, v),
           UNCHANGED <<cache, replies>>
    PROVE  /\ \A r \in K, asks \in BOOLEAN : r # None => KeepsListening(asks, r)
           /\ \A x : Future(redisQ, x)' = IF x = k THEN v ELSE Future(redisQ, x)
<1>1. PICK d \in Commands(K, V, K) : /\ d = Del(k, None) /\ d.val = None /\ d.waiter = None
                                     /\ \A x : IsWrite(d, x) <=> x = k
  BY DEF Del, IsWrite, Commands
<1>2. ASSUME NEW r \in K, r # None, NEW asks \in BOOLEAN
      PROVE  KeepsListening(asks, r)
  <2>1. Grows(r)
    <3>1. CASE DelThenSet(k, v)
      BY <1>2, <3>1, DelThenSetGrows
    <3>2. CASE Issue(d)
      BY <1>1, <1>2, <3>2, IssueGrows
    <3> QED
      BY <1>1, <3>1, <3>2
  <2> QED
    BY <1>2, <2>1, ListensOn DEF Passes
<1>3. ASSUME NEW x
      PROVE  Outcome(redisQ', cache'[x], x) = IF x = k THEN v ELSE Outcome(redisQ, cache[x], x)
  <2>1. CASE DelThenSet(k, v)
    BY <2>1, DelThenSetFuture
  <2>2. CASE Issue(d) /\ v = None
    BY <1>1, <2>2, IssueFuture
  <2> QED
    BY <1>1, <2>1, <2>2
<1> QED
  BY <1>2, <1>3 DEF Future

\* A reader that asks is promised what Redis will hold by then.
LEMMA ListensAsk ==
    ASSUME NEW K, NEW V, None \in V, ConnectionType(K, V, K), ConnectionType(K, V, K)',
           NEW k \in K, Listens(FALSE, k), Issue(Get(k, k)), UNCHANGED <<cache, replies>>
    PROVE  /\ Listens(TRUE, k)' /\ Promised(k)' = Future(redisQ, k)
           /\ \A r \in K, asks \in BOOLEAN : r # k => KeepsListening(asks, r)
           /\ \A x : Future(redisQ, x)' = Future(redisQ, x)
<1>1. PICK c \in Commands(K, V, K) : /\ c = Get(k, k) /\ c.key = k /\ c.waiter = k
                                     /\ \A x : ~IsWrite(c, x)
  BY DEF Get, IsWrite, Commands
<1>2. Issue(c)
  BY <1>1
<1>3. Awaits(k, c)' /\ Promised(k)' = Outcome(redisQ, cache[k], k)
  BY <1>1, <1>2, AwaitsIssued DEF Listens
<1>4. ASSUME NEW r \in K, r # k, NEW asks \in BOOLEAN
      PROVE  KeepsListening(asks, r)
  BY <1>1, <1>2, <1>4, IssueGrows, ListensOn DEF Passes
<1>5. ASSUME NEW x
      PROVE  Outcome(redisQ', cache'[x], x) = Outcome(redisQ, cache[x], x)
  BY <1>1, <1>2, IssueFuture
<1> QED
  BY <1>1, <1>3, <1>4, <1>5 DEF Listens, Future

\* The first reply goes to its reader, who may set the entry to v.
LEMMA ListensReply ==
    ASSUME NEW K, NEW V, None \in V, None \notin K,
           ConnectionType(K, V, K), ConnectionType(K, V, K)',
           NEW k \in K, replies # <<>>, Head(replies).req = k, replies' = Tail(replies),
           cache' = cache, NEW v \in V, Issue(Set(k, v)) \/ redisQ' = redisQ,
           NEW asks \in BOOLEAN, Listens(asks, k)
    PROVE  /\ asks = TRUE /\ Promised(k) = Head(replies).val /\ Listens(FALSE, k)'
           /\ \A r \in K, other \in BOOLEAN : r # k => KeepsListening(other, r)
<1> DEFINE T == [req : K, val : V]
<1>1. replies \in Seq(T)
  BY DEF ConnectionType
<1> HIDE DEF T
<1>2. 1 \in DOMAIN replies /\ replies[1].req = k
  BY <1>1
<1>3. asks /\ Awaits(k, Get(k, k))
  BY <1>2 DEF Listens, Silent
<1>4. PICK g : g = Get(k, k) /\ Awaits(k, g)
  BY <1>3
<1>5. Promised(k) = Head(replies).val
  BY <1>4, AwaitsHead
<1>6. PICK c \in Commands(K, V, K) : c = Set(k, v) /\ c.waiter = None
  BY SetType
<1>7. ASSUME NEW r \in K PROVE Grows(r)
  <2>1. CASE Issue(c)
    BY <1>6, <1>7, <2>1, IssueGrows
  <2>2. CASE redisQ' = redisQ
    BY <2>2, SameGrows
  <2> QED
    BY <1>6, <2>1, <2>2
<1>8. Silent(k)'
  BY <1>4, <1>7, SilentDelivered
<1>9. ASSUME NEW r \in K, r # k, NEW other \in BOOLEAN
      PROVE  KeepsListening(other, r)
  BY <1>7, <1>9, ListensOn DEF Passes
<1> QED
  BY <1>3, <1>5, <1>8, <1>9 DEF Listens

\* The entry of k is set to v.
LEMMA SetFuture ==
    ASSUME NEW K, NEW V, ConnectionType(K, V, K), ConnectionType(K, V, K)',
           None \in V, NEW k \in K, NEW v \in V, Issue(Set(k, v)), cache' = cache
    PROVE  \A x : Future(redisQ, x)' = IF x = k THEN v ELSE Future(redisQ, x)
<1>1. PICK c \in Commands(K, V, K) : /\ c = Set(k, v) /\ c.val = v
                                     /\ \A x : IsWrite(c, x) <=> x = k
  BY SetType
<1>2. ASSUME NEW x
      PROVE  Outcome(redisQ', cache'[x], x) = IF x = k THEN v ELSE Outcome(redisQ, cache[x], x)
  <2>1. Issue(c)
    BY <1>1
  <2> QED
    BY <1>1, <2>1, IssueFuture
<1> QED
  BY <1>2 DEF Future

\* The process dies: nobody listens, and what no command would write is left.
LEMMA ListensDie ==
    ASSUME redisQ' = <<>>, replies' = <<>>, cache' = cache
    PROVE  /\ \A k : Listens(FALSE, k)'
           /\ \A x : ~Pending(redisQ, x) => Future(redisQ, x)' = Future(redisQ, x)
<1>1. \A x : ~Pending(redisQ', x)
  BY DEF Pending
<1> QED
  BY <1>1, OutcomeEntry DEF Listens, Silent, Future

=============================================================================
