---------------------------- MODULE BarangServer ----------------------------
(***************************************************************************)
(* The item and unit endpoints of lib/view-model-js/routes/barang.js: one  *)
(* Node process that keeps items (Barang) with their units (Satuan) in     *)
(* Realm, and copies of them in Redis under data_barang_<gudang> and       *)
(* data_satuan_<barang>, for one warehouse (gudang) of one branch.         *)
(*                                                                         *)
(* Realm reads and writes are synchronous, and awaiting an async function  *)
(* without I/O only yields a microtask, so a handler runs without          *)
(* interruption up to its next `await redis...`: that is one action here.  *)
(* All handlers of the router share one ioredis connection, whose commands *)
(* Redis applies, and whose replies arrive, in the order of issue.         *)
(***************************************************************************)
EXTENDS RedisConnection

CONSTANTS
    Barang,     \* object ids that addbarang may hand out
    Satuan,     \* units an item may have
    Info,       \* the name, kind and dates of an item, taken together
    Amount,     \* quantities of a stock update
    Req,        \* requests that are in flight together
    ListKey,    \* the key data_barang_<gudang>; the key of an item's units is its id
    MinStock, MaxStock,  \* bound: stock values
    MaxQueue,            \* bound: no request is taken beyond so many queued commands
    MaxCrash             \* bound: deaths of the process from outside

Stock == MinStock..MaxStock
Key == Barang \cup {ListKey}
SatuanList == [Satuan -> Stock \cup {None}]
Item == [info : Info, satuan : SatuanList]
Db == [Barang -> Item \cup {None}]

ASSUME BarangAssumption ==
    /\ ListKey \notin Barang
    /\ None \notin Key \cup Req
    /\ None \notin Stock
    /\ None \notin Item
    /\ None \notin SatuanList
    /\ None \notin Db
    /\ None \notin [Barang -> Info \cup {None}]
    /\ Amount \subseteq Stock
    /\ MaxCrash \in Nat

VARIABLES
    db,       \* Realm: the items of the warehouse
    used,     \* ids handed out so far
    req,      \* the awaiting handler of each request
    up,       \* is the server process running
    crashes,
    lost      \* ghost: keys with a write that died with the process

vars == <<db, used, cache, redisQ, replies, req, up, crashes, lost>>

-----------------------------------------------------------------------------
(* What a key stands for. *)

Snapshot(k) ==
    IF k = ListKey THEN db
    ELSE IF db[k] = None THEN None ELSE db[k].satuan

\* Two listings show the same items with the same names, kinds and dates.
SameItems(x, y) ==
    \A b \in Barang :
        /\ x[b] = None <=> y[b] = None
        /\ x[b] # None => x[b].info = y[b].info

Agrees(k, v, truth) ==
    IF k = ListKey THEN SameItems(v, truth) ELSE v = truth

-----------------------------------------------------------------------------
(* Requests and the handlers that await Redis for them. *)

\* The server takes a request. The bound holds requests back, never a reply.
Room(n) == up /\ Len(redisQ) + n <= MaxQueue

NoCall == [op |-> "none", key |-> None, seen |-> None, ok |-> TRUE]
Hung == [NoCall EXCEPT !.op = "hung"]

\* A client that never got an answer may give up and call again.
Free(r) == req[r].op \in {"none", "hung"}

Await(r, o, k) ==
    req' = [req EXCEPT ![r] = [NoCall EXCEPT !.op = o, !.key = k]]

\* `seen` and `ok` are ghosts of a read: what the key stood for when the
\* request came in, and whether no write of it had been lost.
AwaitGet(r, o, k) ==
    /\ req' = [req EXCEPT ![r] =
            [op |-> o, key |-> k, seen |-> Snapshot(k), ok |-> k \notin lost]]
    /\ Issue(Get(k, r))

Settle(r, how) == req' = [req EXCEPT ![r] = how]

RedisStep ==
    /\ Serve
    /\ UNCHANGED <<db, used, req, up, crashes, lost>>

-----------------------------------------------------------------------------
(* Handlers, from the request to the first awaited command. *)

Baranglist(r) ==
    /\ Room(1) /\ Free(r)
    /\ AwaitGet(r, "baranglist", ListKey)
    /\ UNCHANGED <<db, used, cache, replies, up, crashes, lost>>

Getsatuan(r, b) ==
    /\ Room(1) /\ Free(r)
    /\ b \in used
    /\ AwaitGet(r, "getsatuan", b)
    /\ UNCHANGED <<db, used, cache, replies, up, crashes, lost>>

\* Every handler that changes an item awaits the del of the list key.
WriteItem(r, o, b, item) ==
    /\ db' = [db EXCEPT ![b] = item]
    /\ Await(r, o, ListKey)
    /\ Issue(Del(ListKey, r))
    /\ lost' = lost \ {ListKey}
    /\ UNCHANGED <<cache, replies, up, crashes>>

Addbarang(r, b, i) ==
    /\ Room(1) /\ Free(r)
    /\ b \notin used
    /\ used' = used \cup {b}
    /\ WriteItem(r, "addbarang", b,
                 [info |-> i, satuan |-> [s \in Satuan |-> None]])

\* mutant: the handler answers and leaves the list entry alone.
DeletebarangNoDel(r, b) ==
    /\ Room(1) /\ Free(r)
    /\ b \in used
    /\ db' = [db EXCEPT ![b] = None]
    /\ UNCHANGED <<used, cache, redisQ, replies, req, up, crashes, lost>>

\* Deleting an item that is gone already answers 200 all the same.
Deletebarang(r, b) ==
    /\ Room(1) /\ Free(r)
    /\ b \in used
    /\ WriteItem(r, "deletebarang", b, None)
    /\ UNCHANGED used

\* An item that is gone is answered 500 and changes nothing.
Updatebarang(r, b, i) ==
    /\ Room(1) /\ Free(r)
    /\ db[b] # None
    /\ WriteItem(r, "updatebarang", b, [db[b] EXCEPT !.info = i])
    /\ UNCHANGED used

-----------------------------------------------------------------------------
(* Unit handlers: no awaited command, so each is a single step that writes *)
(* Realm, issues del and set, and answers. For an item or a unit that is   *)
(* gone the code throws before any write and changes nothing.              *)

HasSatuan(b, s) == db[b] # None /\ db[b].satuan[s] # None

WriteSatuan(b, list) ==
    /\ db' = [db EXCEPT ![b].satuan = list]
    /\ DelThenSet(b, list)
    /\ lost' = lost \ {b}
    /\ UNCHANGED <<used, cache, replies, req, up, crashes>>

Addsatuan(b, s, n) ==
    /\ Room(2)
    /\ db[b] # None /\ ~HasSatuan(b, s)
    /\ WriteSatuan(b, [db[b].satuan EXCEPT ![s] = n])

Deletesatuan(b, s) ==
    /\ Room(2)
    /\ HasSatuan(b, s)
    /\ WriteSatuan(b, [db[b].satuan EXCEPT ![s] = None])

\* updateJumlahSatuan: `tambah` adds, `kurang` subtracts with no check of the
\* stock left, any other action leaves the unit as it is.
NewJumlah(old, n, action) ==
    CASE action = "tambah" -> old + n
      [] action = "kurang" -> old - n
      [] OTHER -> old

\* mutant: the handler drops the unit entry only when the stock grew.
EditjumlahsatuanNoDel(b, s, n, action) ==
    /\ Room(2)
    /\ HasSatuan(b, s)
    /\ LET new == NewJumlah(db[b].satuan[s], n, action) IN
        /\ new \in Stock
        /\ \/ action = "tambah" /\ WriteSatuan(b, [db[b].satuan EXCEPT ![s] = new])
           \/ /\ action # "tambah"
              /\ db' = [db EXCEPT ![b].satuan[s] = new]
              /\ UNCHANGED <<used, cache, redisQ, replies, req, up, crashes, lost>>

Editjumlahsatuan(b, s, n, action) ==
    /\ Room(2)
    /\ HasSatuan(b, s)
    /\ LET new == NewJumlah(db[b].satuan[s], n, action) IN
        /\ new \in Stock
        /\ WriteSatuan(b, [db[b].satuan EXCEPT ![s] = new])

-----------------------------------------------------------------------------
(* Handlers, from the delivery of the awaited reply to the end. *)

\* The process dies: requests and unsent commands are gone, Realm and Redis
\* keep what they have.
Die ==
    /\ up' = FALSE
    /\ redisQ' = <<>>
    /\ replies' = <<>>
    /\ req' = [r \in Req |-> NoCall]
    /\ lost' = lost \cup {k \in Key : Pending(redisQ, k)}
    /\ UNCHANGED <<db, used, cache>>

Delivered(o) ==
    /\ up
    /\ replies # <<>>
    /\ req[Head(replies).req].op = o

\* mutant: a miss stores the list as it was when the request came in.
BaranglistReplySnapshot ==
    /\ Delivered("baranglist")
    /\ LET rep == Head(replies) IN
        /\ Settle(rep.req, NoCall)
        /\ \/ rep.val # None /\ UNCHANGED redisQ
           \/ rep.val = None /\ Issue(Set(ListKey, req[rep.req].seen))
    /\ replies' = Tail(replies)
    /\ UNCHANGED <<db, used, cache, up, crashes, lost>>

\* A list hit is answered from Redis; a miss is answered with the live Realm
\* list, which is also stored.
BaranglistReply ==
    /\ Delivered("baranglist")
    /\ LET rep == Head(replies) IN
        /\ Settle(rep.req, NoCall)
        /\ \/ rep.val # None /\ UNCHANGED redisQ
           \/ rep.val = None /\ Issue(Set(ListKey, db))
    /\ replies' = Tail(replies)
    /\ UNCHANGED <<db, used, cache, up, crashes, lost>>

\* mutant: a miss stores the units as they were when the request came in.
GetsatuanReplySnapshot ==
    /\ Delivered("getsatuan")
    /\ LET rep == Head(replies)
           b == req[rep.req].key
       IN  \/ /\ rep.val # None
              /\ Settle(rep.req, NoCall)
              /\ UNCHANGED redisQ
           \/ /\ rep.val = None /\ db[b] # None
              /\ Issue(Set(b, req[rep.req].seen))
              /\ Settle(rep.req, Hung)
    /\ replies' = Tail(replies)
    /\ UNCHANGED <<db, used, cache, up, crashes, lost>>

\* mutant: a miss stores the list of the items under the key of the units.
GetsatuanReplyWholeList ==
    /\ Delivered("getsatuan")
    /\ LET rep == Head(replies)
           b == req[rep.req].key
       IN  \/ /\ rep.val # None
              /\ Settle(rep.req, NoCall)
              /\ UNCHANGED redisQ
           \/ /\ rep.val = None /\ db[b] # None
              /\ Issue(Set(b, db))
              /\ Settle(rep.req, Hung)
    /\ replies' = Tail(replies)
    /\ UNCHANGED <<db, used, cache, up, crashes, lost>>

\* mutant: a miss neither answers nor stores.
GetsatuanReplyNoSet ==
    /\ Delivered("getsatuan")
    /\ LET rep == Head(replies) IN
        /\ rep.val = None => db[req[rep.req].key] # None
        /\ Settle(rep.req, IF rep.val = None THEN Hung ELSE NoCall)
    /\ replies' = Tail(replies)
    /\ UNCHANGED <<db, used, cache, redisQ, up, crashes, lost>>

\* A unit hit is answered; a miss fills the entry and never answers.
GetsatuanReply ==
    /\ Delivered("getsatuan")
    /\ LET rep == Head(replies)
           b == req[rep.req].key
       IN  \/ /\ rep.val # None
              /\ Settle(rep.req, NoCall)
              /\ UNCHANGED redisQ
           \/ /\ rep.val = None /\ db[b] # None
              /\ Issue(Set(b, db[b].satuan))
              /\ Settle(rep.req, Hung)
    /\ replies' = Tail(replies)
    /\ UNCHANGED <<db, used, cache, up, crashes, lost>>

\* A miss for an item that is gone: SearchSatuanByIdBarang throws undefined,
\* the catch block reads its message and the rejection ends the process.
GetsatuanFails ==
    /\ Delivered("getsatuan")
    /\ Head(replies).val = None
    /\ db[req[Head(replies).req].key] = None
    /\ Die
    /\ UNCHANGED crashes

\* The new list is read after the del and stored.
AddbarangReply ==
    /\ Delivered("addbarang")
    /\ Issue(Set(ListKey, db))
    /\ Settle(Head(replies).req, NoCall)
    /\ replies' = Tail(replies)
    /\ UNCHANGED <<db, used, cache, up, crashes, lost>>

\* mutant: the handler of updatebarang never gets past its await.
DelReplyDeleteOnly ==
    /\ Delivered("deletebarang") \/ Delivered("updatebarang")
    /\ IF Delivered("deletebarang") THEN Settle(Head(replies).req, NoCall)
       ELSE UNCHANGED req
    /\ replies' = Tail(replies)
    /\ UNCHANGED <<db, used, cache, redisQ, up, crashes, lost>>

DelReply ==
    /\ Delivered("deletebarang") \/ Delivered("updatebarang")
    /\ Settle(Head(replies).req, NoCall)
    /\ replies' = Tail(replies)
    /\ UNCHANGED <<db, used, cache, redisQ, up, crashes, lost>>

-----------------------------------------------------------------------------
(* The process is killed from outside, and started again: Realm is opened  *)
(* from disk and Redis still holds its keys.                               *)

Crash ==
    /\ up /\ crashes < MaxCrash
    /\ crashes' = crashes + 1
    /\ Die

Restart ==
    /\ ~up
    /\ up' = TRUE
    /\ UNCHANGED <<db, used, cache, redisQ, replies, req, crashes, lost>>

-----------------------------------------------------------------------------

Init ==
    /\ db = [b \in Barang |-> None]
    /\ used = {}
    /\ cache = [k \in Key |-> None]
    /\ redisQ = <<>>
    /\ replies = <<>>
    /\ req = [r \in Req |-> NoCall]
    /\ up = TRUE
    /\ crashes = 0
    /\ lost = {}

ItemCall(r) ==
    \/ Baranglist(r)
    \/ \E b \in Barang :
        \/ Getsatuan(r, b)
        \/ Deletebarang(r, b)
        \/ \E i \in Info : Addbarang(r, b, i) \/ Updatebarang(r, b, i)

SatuanCall(b, s) ==
    \/ Deletesatuan(b, s)
    \/ \E n \in Amount : Addsatuan(b, s, n)
    \/ \E n \in Amount, action \in {"tambah", "kurang", "lain"} :
            Editjumlahsatuan(b, s, n, action)

Reply ==
    \/ BaranglistReply
    \/ GetsatuanReply
    \/ GetsatuanFails
    \/ AddbarangReply
    \/ DelReply

Next ==
    \/ \E r \in Req : ItemCall(r)
    \/ \E b \in Barang, s \in Satuan : SatuanCall(b, s)
    \/ RedisStep
    \/ Reply
    \/ Crash
    \/ Restart

Spec == Init /\ [][Next]_vars

\* Redis serves the connection, the event loop delivers replies and the
\* operator (or the process manager) starts a dead server again.
Fairness ==
    /\ WF_vars(RedisStep)
    /\ WF_vars(Reply)
    /\ WF_vars(Restart)

FairSpec == Spec /\ Fairness

-----------------------------------------------------------------------------
(* Properties. *)

Value == Db \cup SatuanList \cup {None}
ValueOf(k) == (IF k = ListKey THEN Db ELSE SatuanList) \cup {None}
Command == [op : {"get", "del", "set"}, key : Key, val : Value,
            waiter : Req \cup {None}]
Call == [op : {"none", "hung", "baranglist", "getsatuan", "addbarang",
               "deletebarang", "updatebarang"},
         key : Key \cup {None}, seen : Value, ok : BOOLEAN]

\* Every variable keeps its type, a key holds only values of its own kind, and
\* a unit request is about an item.
TypeOK ==
    /\ db \in Db
    /\ used \in SUBSET Barang
    /\ cache \in [Key -> Value]
    /\ \A k \in Key : cache[k] \in ValueOf(k)
    /\ redisQ \in Seq(Command)
    /\ \A i \in DOMAIN redisQ : redisQ[i].val \in ValueOf(redisQ[i].key)
    /\ replies \in Seq([req : Req, val : Value])
    /\ req \in [Req -> Call]
    /\ \A r \in Req : req[r].op = "getsatuan" => req[r].key \in Barang
    /\ up \in BOOLEAN
    /\ crashes \in 0..MaxCrash
    /\ lost \in SUBSET Key

Fresh(k, v, truth) == v = None \/ Agrees(k, v, truth)

\* Once Redis has applied the commands of q, its entry of k (e by now) is
\* absent or agrees with truth.
Coherent(q, e, k, truth) ==
    /\ \A i \in DOMAIN q : LastWrite(q, k, i) => Fresh(k, q[i].val, truth)
    /\ ~Pending(q, k) => Fresh(k, e, truth)

CoherentNow(k) == Coherent(redisQ, cache[k], k, Snapshot(k))

\* The unit entry of an item in stock is, after the commands already issued,
\* absent or exactly the units in Realm, whatever requests are in flight,
\* except when a write of it died with the process.
SatuanCoherent ==
    \A b \in Barang : db[b] # None /\ b \notin lost => CoherentNow(b)

\* The list entry is, after the commands already issued, absent or lists
\* exactly the items of the warehouse with their current names, kinds and
\* dates (the units inside it may be old), except when a write of it was lost.
ListCoherent == ListKey \notin lost => CoherentNow(ListKey)

\* An id not handed out yet has left no trace, in Realm or in Redis.
Untouched ==
    \A b \in Barang \ used :
        db[b] = None /\ cache[b] = None /\ ~Pending(redisQ, b)

\* The inductive invariant behind the two: every key that stands for something.
CoherenceInv ==
    /\ TypeOK
    /\ Untouched
    /\ \A k \in Key : k \notin lost /\ Snapshot(k) # None => CoherentNow(k)

\* A hit serves what the database said when the request came in: a read that
\* starts after a write was answered can not return the value before it.
HitServesRequestTime ==
    \A i \in DOMAIN replies :
        LET c == req[replies[i].req] IN
        (c.op \in {"baranglist", "getsatuan"} /\ c.ok /\ c.seen # None
         /\ replies[i].val # None)
            => Agrees(c.key, replies[i].val, c.seen)

\* A handler that awaits Redis is always resumed: it answers, goes silent on a
\* unit miss, or dies with the process.
HandlersResume ==
    \A r \in Req : req[r].op \notin {"none", "hung"} ~> req[r].op \in {"none", "hung"}

\* The silent miss is not for nothing: the entry it left is served to the
\* retry, unless the item is deleted or the server dies first.
SilentMissFills ==
    \A b \in Barang :
        (\E r \in Req : req[r].op = "getsatuan" /\ req[r].key = b /\ up)
            ~> (cache[b] # None \/ db[b] = None \/ ~up)

-----------------------------------------------------------------------------
(* The abstract cache. *)

\* The units inside a list entry are not refreshed with the units, so the
\* abstract cache holds lists without them.
Shape(k, v) ==
    IF k # ListKey \/ v = None THEN v
    ELSE [b \in Barang |-> IF v[b] = None THEN None ELSE v[b].info]

Reads(r) == req[r].op \in {"baranglist", "getsatuan"}

\* What each key stands for, what Redis will hold under it, and the reads on
\* their way with what they will get.
Truths == [k \in Key |-> Shape(k, Snapshot(k))]

Entries == [k \in Key |-> Shape(k, Future(redisQ, k))]

Calls ==
    [r \in Req |->
        [key |-> IF Reads(r) THEN req[r].key ELSE None,
         val |-> IF Reads(r) THEN Shape(req[r].key, Promised(r)) ELSE None]]

Cached == INSTANCE ReadThrough WITH
    Value <- SatuanList \cup [Barang -> Info \cup {None}],
    truth <- Truths, entry <- Entries, call <- Calls, Bypassed <- {}

\* With commands queued, requests overlapping and the process dying, items and
\* units behave like a cache that is read and written in one step: a read is
\* decided when it comes in, and no write is seen late or twice.
ImplementsReadThrough == Cached!Spec
=============================================================================
