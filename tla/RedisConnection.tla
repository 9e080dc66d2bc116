--------------------------- MODULE RedisConnection ---------------------------
(***************************************************************************)
(* The one ioredis connection of a route file and the Redis server behind  *)
(* it, as the handlers use them: commands are applied in the order of      *)
(* issue, and the replies of the awaited ones come back in that order.     *)
(* Keys are written without a time to live, so nothing ever expires.       *)
(***************************************************************************)
EXTENDS Integers, Sequences

CONSTANT None   \* no value: no entry, no row, no waiter

VARIABLES
    cache,    \* Redis: key -> stored value or None
    redisQ,   \* commands issued and not yet applied
    replies   \* replies awaited by a handler and not yet delivered

connection == <<cache, redisQ, replies>>

\* A command with a waiter is an awaited one.
Get(k, r) == [op |-> "get", key |-> k, val |-> None, waiter |-> r]
Del(k, r) == [op |-> "del", key |-> k, val |-> None, waiter |-> r]
Set(k, v) == [op |-> "set", key |-> k, val |-> v, waiter |-> None]

Issue(c) == redisQ' = Append(redisQ, c)

\* redis.del(...) without await, then redis.set(...) of what Realm holds.
DelThenSet(k, v) == redisQ' = Append(Append(redisQ, Del(k, None)), Set(k, v))

\* Redis takes the next command off the connection and answers a waiter.
Serve ==
    /\ redisQ # <<>>
    /\ LET c == Head(redisQ) IN
        /\ redisQ' = Tail(redisQ)
        /\ cache' = IF c.op = "get" THEN cache
                    ELSE [cache EXCEPT ![c.key] = c.val]
        /\ replies' = IF c.waiter = None THEN replies
                      ELSE Append(replies,
                             [req |-> c.waiter,
                              val |-> IF c.op = "get" THEN cache[c.key]
                                      ELSE None])

-----------------------------------------------------------------------------
(* The writes still on their way. *)

IsWrite(c, k) == c.key = k /\ c.op # "get"

Pending(q, k) == \E i \in DOMAIN q : IsWrite(q[i], k)

LastWrite(q, k, i) ==
    /\ i \in DOMAIN q /\ IsWrite(q[i], k)
    /\ \A j \in DOMAIN q : j > i => ~IsWrite(q[j], k)

\* Once the commands of q are applied, an entry e of k is absent or v.
WillHold(q, e, k, v) ==
    /\ \A i \in DOMAIN q : LastWrite(q, k, i) => q[i].val \in {None, v}
    /\ ~Pending(q, k) => e \in {None, v}

-----------------------------------------------------------------------------
(* What the queue decides already. *)

\* What an entry e of k becomes once the commands of q are applied.
Outcome(q, e, k) ==
    IF Pending(q, k) THEN q[CHOOSE i \in DOMAIN q : LastWrite(q, k, i)].val
    ELSE e

Future(q, k) == Outcome(q, cache[k], k)

\* What a get in flight for r returns once the commands of q are applied to
\* the entries es, or returned already with the replies as.
Promise(q, es, as, r) ==
    IF \E i \in DOMAIN as : as[i].req = r
    THEN as[CHOOSE i \in DOMAIN as : as[i].req = r].val
    ELSE LET i == CHOOSE j \in DOMAIN q : q[j].waiter = r
         IN  Outcome(SubSeq(q, 1, i - 1), es[q[i].key], q[i].key)

Promised(r) == Promise(redisQ, cache, replies, r)
=============================================================================
