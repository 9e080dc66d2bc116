------------------------- MODULE BarangServerProofs -------------------------
(***************************************************************************)
(* Proofs about BarangServer: its type invariant, the coherence of the     *)
(* Redis entries with Realm, what a read in flight is promised, and the    *)
(* refinement of ReadThrough, for any number of items, units and           *)
(* concurrent requests, any bound on the queue and any number of crashes.  *)
(***************************************************************************)
EXTENDS BarangServer, RedisConnectionProofs

-----------------------------------------------------------------------------
(* The command queue. *)

\* A command that is no write of k leaves what Redis will hold under k.
LEMMA CoherentOther ==
    ASSUME NEW q \in Seq(Command), NEW c \in Command, NEW k, NEW e, NEW t,
           ~IsWrite(c, k), Coherent(q, e, k, t)
    PROVE  Coherent(Append(q, c), e, k, t)
<1> DEFINE p == Append(q, c)
<1>1. /\ DOMAIN p = 1..(Len(q) + 1) /\ DOMAIN q = 1..Len(q) /\ Len(q) \in Nat
      /\ \A i \in DOMAIN q : p[i] = q[i]
      /\ p[Len(q) + 1] = c
  OBVIOUS
<1>2. Pending(q, k) => Pending(p, k)
  BY <1>1 DEF Pending
<1>3. ASSUME NEW i \in DOMAIN p, LastWrite(p, k, i)
      PROVE  i \in DOMAIN q /\ LastWrite(q, k, i)
  BY <1>1, <1>3 DEF LastWrite
<1> QED
  BY <1>1, <1>2, <1>3 DEF Coherent

\* A write of k decides alone what Redis will hold under k.
LEMMA CoherentWrite ==
    ASSUME NEW q \in Seq(Command), NEW c \in Command, NEW k, NEW e, NEW t,
           IsWrite(c, k), Fresh(k, c.val, t)
    PROVE  Coherent(Append(q, c), e, k, t)
<1> DEFINE p == Append(q, c)
<1>1. /\ DOMAIN p = 1..(Len(q) + 1) /\ Len(q) \in Nat
      /\ p[Len(q) + 1] = c
  OBVIOUS
<1>2. Pending(p, k)
  BY <1>1 DEF Pending
<1>3. ASSUME NEW i \in DOMAIN p, LastWrite(p, k, i)
      PROVE  i = Len(q) + 1
  BY <1>1, <1>3 DEF LastWrite
<1> QED
  BY <1>1, <1>2, <1>3 DEF Coherent

\* Redis takes the first command: its entry changes, its future does not.
LEMMA TakeCoherent ==
    ASSUME NEW q \in Seq(Command), q # <<>>, NEW k, NEW e, NEW t,
           Coherent(q, e, k, t)
    PROVE  Coherent(Tail(q), IF IsWrite(Head(q), k) THEN Head(q).val ELSE e, k, t)
<1> DEFINE p == Tail(q)
<1>1. /\ DOMAIN q = 1..Len(q) /\ Len(q) \in Nat /\ Len(q) > 0
      /\ DOMAIN p = 1..(Len(q) - 1)
      /\ \A i \in DOMAIN p : i + 1 \in DOMAIN q /\ p[i] = q[i + 1]
      /\ Head(q) = q[1]
  OBVIOUS
<1>2. ASSUME NEW i \in DOMAIN p, LastWrite(p, k, i)
      PROVE  LastWrite(q, k, i + 1)
  <2>1. ASSUME NEW j \in DOMAIN q, j > i + 1
        PROVE  ~IsWrite(q[j], k)
    <3>1. j - 1 \in DOMAIN p /\ j - 1 > i /\ p[j - 1] = q[j]
      BY <1>1, <2>1
    <3> QED
      BY <3>1, <1>2 DEF LastWrite
  <2> QED
    BY <1>1, <1>2, <2>1 DEF LastWrite
<1>3. ASSUME ~Pending(p, k), IsWrite(q[1], k)
      PROVE  LastWrite(q, k, 1)
  <2>1. ASSUME NEW j \in DOMAIN q, j > 1
        PROVE  ~IsWrite(q[j], k)
    <3>1. j - 1 \in DOMAIN p /\ p[j - 1] = q[j]
      BY <1>1, <2>1
    <3> QED
      BY <3>1, <1>3 DEF Pending
  <2> QED
    BY <1>1, <1>3, <2>1 DEF LastWrite
<1>4. ASSUME ~Pending(p, k), ~IsWrite(q[1], k)
      PROVE  ~Pending(q, k)
  <2>1. ASSUME NEW j \in DOMAIN q, j # 1
        PROVE  ~IsWrite(q[j], k)
    <3>1. j - 1 \in DOMAIN p /\ p[j - 1] = q[j]
      BY <1>1, <2>1
    <3> QED
      BY <3>1, <1>4 DEF Pending
  <2> QED
    BY <1>4, <2>1 DEF Pending
<1> QED
  BY <1>1, <1>2, <1>3, <1>4 DEF Coherent

-----------------------------------------------------------------------------
(* Types. *)

\* A key stands for a value of its own kind.
LEMMA SnapshotType ==
    ASSUME TypeOK, NEW k \in Key
    PROVE  Snapshot(k) \in ValueOf(k)
  BY BarangAssumption DEF TypeOK, Snapshot, ValueOf, Key, Db, Item

\* What a key may hold is a value, and it may hold nothing.
LEMMA ValueOfType ==
    ASSUME NEW k \in Key
    PROVE  ValueOf(k) \subseteq Value /\ None \in ValueOf(k)
  BY DEF ValueOf, Value

\* Appending a well-typed command keeps the queue well typed.
LEMMA IssueType ==
    ASSUME NEW q \in Seq(Command), NEW c \in Command,
           \A i \in DOMAIN q : q[i].val \in ValueOf(q[i].key),
           c.val \in ValueOf(c.key)
    PROVE  /\ Append(q, c) \in Seq(Command)
           /\ \A i \in DOMAIN Append(q, c) :
                Append(q, c)[i].val \in ValueOf(Append(q, c)[i].key)
  OBVIOUS

\* Issuing a well-typed command keeps the queue of the connection well typed.
LEMMA IssuedType ==
    ASSUME TypeOK, NEW c \in Command, c.val \in ValueOf(c.key), Issue(c)
    PROVE  /\ redisQ' \in Seq(Command)
           /\ \A i \in DOMAIN redisQ' : redisQ'[i].val \in ValueOf(redisQ'[i].key)
<1>1. /\ redisQ \in Seq(Command)
      /\ \A i \in DOMAIN redisQ : redisQ[i].val \in ValueOf(redisQ[i].key)
  BY DEF TypeOK
<1> QED
  BY <1>1, IssueType DEF Issue

\* The three commands are well typed, and are about the key they are given.
LEMMA CommandsTyped ==
    ASSUME NEW k \in Key, NEW r \in Req \cup {None}, NEW v \in ValueOf(k)
    PROVE  /\ Get(k, r) \in Command /\ Get(k, r).val \in ValueOf(k)
           /\ Del(k, r) \in Command /\ Del(k, r).val \in ValueOf(k)
           /\ Set(k, v) \in Command /\ Set(k, v).val \in ValueOf(k)
           /\ Get(k, r).key = k /\ Del(k, r).key = k /\ Set(k, v).key = k
<1>1. v \in Value /\ None \in Value /\ None \in ValueOf(k)
  BY ValueOfType
<1> QED
  BY <1>1 DEF Get, Del, Set, Command

\* The two idle states of a request.
LEMMA NoCallType == NoCall \in Call /\ Hung \in Call
  BY DEF NoCall, Hung, Call, Value

\* The server starts with every variable of its type: an empty warehouse, an
\* empty Redis, nothing in flight.
LEMMA InitType == Init => TypeOK
<1> SUFFICES ASSUME Init PROVE TypeOK
  OBVIOUS
<1>1. req \in [Req -> Call] /\ \A r \in Req : req[r].op # "getsatuan"
  BY NoCallType DEF Init, NoCall
<1>2. 0 \in 0..MaxCrash
  BY BarangAssumption
<1> QED
  BY <1>1, <1>2 DEF Init, TypeOK, Db, Value, ValueOf, Key

\* A handler that changes an item keeps the types.
LEMMA WriteItemType ==
    ASSUME TypeOK, NEW r \in Req, NEW b \in Barang, NEW item \in Item \cup {None},
           NEW o \in {"addbarang", "deletebarang", "updatebarang"},
           used' \in SUBSET Barang,
           WriteItem(r, o, b, item)
    PROVE  TypeOK'
<1> USE DEF WriteItem
<1>1. db' \in Db
  BY DEF TypeOK, Db
<1>2. ListKey \in Key
  BY DEF Key
<1>3. /\ redisQ' \in Seq(Command)
      /\ \A i \in DOMAIN redisQ' : redisQ'[i].val \in ValueOf(redisQ'[i].key)
  <2>1. None \in ValueOf(ListKey)
    BY <1>2, ValueOfType
  <2>2. Del(ListKey, r) \in Command /\ Del(ListKey, r).val \in ValueOf(Del(ListKey, r).key)
    BY <1>2, <2>1, CommandsTyped
  <2> QED
    BY <2>2, IssuedType
<1>4. [NoCall EXCEPT !.op = o, !.key = ListKey] \in Call
  BY <1>2 DEF NoCall, Call, Value
<1>5. /\ req' \in [Req -> Call]
      /\ \A s \in Req : req'[s].op = "getsatuan" => req'[s].key \in Barang
  BY <1>4 DEF TypeOK, Await, NoCall
<1> QED
  BY <1>1, <1>3, <1>5 DEF TypeOK

\* A handler that changes units keeps the types.
LEMMA WriteSatuanType ==
    ASSUME TypeOK, NEW b \in Barang, NEW list \in SatuanList, db[b] # None,
           WriteSatuan(b, list)
    PROVE  TypeOK'
<1> USE DEF WriteSatuan
<1>1. db' \in Db
  BY DEF TypeOK, Db, Item
<1>2. b \in Key /\ list \in ValueOf(b)
  BY BarangAssumption DEF Key, ValueOf
<1>3. /\ redisQ' \in Seq(Command)
      /\ \A i \in DOMAIN redisQ' : redisQ'[i].val \in ValueOf(redisQ'[i].key)
  <2> DEFINE q == Append(redisQ, Del(b, None))
  <2>1. /\ q \in Seq(Command)
        /\ \A i \in DOMAIN q : q[i].val \in ValueOf(q[i].key)
    <3> DEFINE c == Del(b, None)
    <3>1. c \in Command /\ c.val \in ValueOf(c.key)
      BY <1>2, CommandsTyped
    <3>2. /\ redisQ \in Seq(Command)
          /\ \A i \in DOMAIN redisQ : redisQ[i].val \in ValueOf(redisQ[i].key)
      BY DEF TypeOK
    <3> HIDE DEF c
    <3>3. /\ Append(redisQ, c) \in Seq(Command)
          /\ \A i \in DOMAIN Append(redisQ, c) :
               Append(redisQ, c)[i].val \in ValueOf(Append(redisQ, c)[i].key)
      BY <3>1, <3>2, IssueType
    <3> QED
      BY <3>3 DEF c
  <2>2. /\ Set(b, list) \in Command /\ Set(b, list).val \in ValueOf(Set(b, list).key)
    BY <1>2, CommandsTyped
  <2> HIDE DEF q
  <2>3. /\ Append(q, Set(b, list)) \in Seq(Command)
        /\ \A i \in DOMAIN Append(q, Set(b, list)) :
             Append(q, Set(b, list))[i].val \in ValueOf(Append(q, Set(b, list))[i].key)
    BY <2>1, <2>2, IssueType
  <2>4. redisQ' = Append(q, Set(b, list))
    BY DEF DelThenSet, q
  <2> QED
    BY <2>3, <2>4
<1> QED
  BY <1>1, <1>3 DEF TypeOK

\* A handler that starts with a get keeps the types.
LEMMA AwaitGetType ==
    ASSUME TypeOK, NEW r \in Req, NEW o \in {"baranglist", "getsatuan"},
           NEW k \in Key, o = "getsatuan" => k \in Barang, AwaitGet(r, o, k)
    PROVE  /\ redisQ' \in Seq(Command)
           /\ \A i \in DOMAIN redisQ' : redisQ'[i].val \in ValueOf(redisQ'[i].key)
           /\ req' \in [Req -> Call]
           /\ \A s \in Req : req'[s].op = "getsatuan" => req'[s].key \in Barang
<1>1. Get(k, r) \in Command /\ Get(k, r).val \in ValueOf(Get(k, r).key)
  <2>1. None \in ValueOf(k)
    BY ValueOfType
  <2> QED
    BY <2>1, CommandsTyped
<1>2. Issue(Get(k, r))
  BY DEF AwaitGet
<1>3. /\ redisQ' \in Seq(Command)
      /\ \A i \in DOMAIN redisQ' : redisQ'[i].val \in ValueOf(redisQ'[i].key)
  BY <1>1, <1>2, IssuedType
<1>4. Snapshot(k) \in Value
  BY SnapshotType, ValueOfType
<1>5. [op |-> o, key |-> k, seen |-> Snapshot(k), ok |-> k \notin lost] \in Call
  <2>1. o \in {"none", "hung", "baranglist", "getsatuan", "addbarang",
               "deletebarang", "updatebarang"} /\ (k \notin lost) \in BOOLEAN
    OBVIOUS
  <2> QED
    BY <1>4, <2>1, SMT DEF Call
<1>6. /\ req' \in [Req -> Call]
      /\ \A s \in Req : req'[s].op = "getsatuan" => req'[s].key \in Barang
  BY <1>5 DEF TypeOK, AwaitGet
<1> QED
  BY <1>3, <1>6

\* A handler that ends keeps the types of the requests.
LEMMA SettleType ==
    ASSUME TypeOK, NEW r \in Req, NEW how \in {NoCall, Hung}, Settle(r, how)
    PROVE  /\ req' \in [Req -> Call]
           /\ \A s \in Req : req'[s].op = "getsatuan" => req'[s].key \in Barang
<1>1. how \in Call /\ how.op # "getsatuan"
  <2>1. NoCall.op = "none" /\ Hung.op = "hung"
    BY DEF NoCall, Hung
  <2> QED
    BY <2>1, NoCallType
<1> QED
  BY <1>1 DEF TypeOK, Settle

\* The death of the process keeps the types.
LEMMA DieType ==
    ASSUME TypeOK, Die, crashes' \in 0..MaxCrash
    PROVE  TypeOK'
<1>1. /\ req' \in [Req -> Call]
      /\ \A s \in Req : req'[s].op # "getsatuan"
  BY NoCallType DEF Die, NoCall
<1>2. lost' \in SUBSET Key
  BY DEF Die, TypeOK
<1>3. /\ redisQ' = <<>> /\ replies' = <<>> /\ up' = FALSE
      /\ db' = db /\ used' = used /\ cache' = cache
  BY DEF Die
<1>4. /\ redisQ' \in Seq(Command) /\ DOMAIN redisQ' = {}
      /\ replies' \in Seq([req : Req, val : Value])
  BY <1>3
<1>5. db' \in Db /\ used' \in SUBSET Barang /\ cache' \in [Key -> Value]
      /\ \A k \in Key : cache'[k] \in ValueOf(k)
  BY <1>3 DEF TypeOK
<1> QED
  BY <1>1, <1>2, <1>3, <1>4, <1>5 DEF TypeOK

\* A step of Redis keeps the types.
LEMMA RedisStepType ==
    ASSUME TypeOK, RedisStep
    PROVE  TypeOK'
<1> DEFINE c == Head(redisQ)
           v == IF c.op = "get" THEN cache[c.key] ELSE None
<1>1. /\ redisQ \in Seq(Command) /\ redisQ # <<>>
      /\ 1 \in DOMAIN redisQ /\ c = redisQ[1] /\ c \in Command
      /\ c.val \in ValueOf(c.key)
  BY DEF TypeOK, RedisStep, Serve
<1>2. /\ redisQ' \in Seq(Command)
      /\ \A i \in DOMAIN redisQ' : redisQ'[i].val \in ValueOf(redisQ'[i].key)
  BY <1>1 DEF RedisStep, Serve, TypeOK
<1>3. /\ cache' \in [Key -> Value]
      /\ \A k \in Key : cache'[k] \in ValueOf(k)
  <2>1. c.key \in Key /\ c.val \in Value
    BY <1>1 DEF Command
  <2>2. cache' = cache \/ cache' = [cache EXCEPT ![c.key] = c.val]
    BY DEF RedisStep, Serve
  <2> QED
    BY <1>1, <2>1, <2>2 DEF TypeOK
<1>4. replies' \in Seq([req : Req, val : Value])
  <2>1. v \in Value
    BY <1>1 DEF Command, Value, TypeOK
  <2>2. CASE c.waiter = None
    BY <2>2 DEF RedisStep, Serve, TypeOK
  <2>3. CASE c.waiter # None
    <3>1. [req |-> c.waiter, val |-> v] \in [req : Req, val : Value]
      BY <1>1, <2>1, <2>3 DEF Command
    <3>2. replies' = Append(replies, [req |-> c.waiter, val |-> v])
      BY <2>3 DEF RedisStep, Serve
    <3> QED
      BY <3>1, <3>2 DEF TypeOK
  <2> QED
    BY <2>2, <2>3
<1>5. UNCHANGED <<db, used, req, up, crashes, lost>>
  BY DEF RedisStep, Serve
<1> QED
  BY <1>2, <1>3, <1>4, <1>5 DEF TypeOK

\* A delivered reply belongs to a request and shrinks the reply queue.
LEMMA DeliveredType ==
    ASSUME TypeOK, NEW o, Delivered(o)
    PROVE  /\ Head(replies).req \in Req
           /\ Tail(replies) \in Seq([req : Req, val : Value])
           /\ req[Head(replies).req].op = o
<1>1. replies \in Seq([req : Req, val : Value]) /\ replies # <<>>
  BY DEF TypeOK, Delivered
<1>2. Head(replies) \in [req : Req, val : Value]
      /\ Tail(replies) \in Seq([req : Req, val : Value])
  BY <1>1, HeadTail
<1> QED
  BY <1>2 DEF Delivered

\* The continuation of a handler: it settles its request, may issue one
\* well-typed command and takes one reply.
LEMMA ReplyType ==
    ASSUME TypeOK, NEW o, Delivered(o),
           NEW how \in {NoCall, Hung}, Settle(Head(replies).req, how),
           \/ UNCHANGED redisQ
           \/ \E c \in Command : c.val \in ValueOf(c.key) /\ Issue(c),
           replies' = Tail(replies),
           UNCHANGED <<db, used, cache, up, crashes, lost>>
    PROVE  TypeOK'
<1>1. /\ req' \in [Req -> Call]
      /\ \A s \in Req : req'[s].op = "getsatuan" => req'[s].key \in Barang
  BY DeliveredType, SettleType
<1>2. /\ redisQ' \in Seq(Command)
      /\ \A i \in DOMAIN redisQ' : redisQ'[i].val \in ValueOf(redisQ'[i].key)
  <2>1. CASE UNCHANGED redisQ
    BY <2>1 DEF TypeOK
  <2>2. CASE \E c \in Command : c.val \in ValueOf(c.key) /\ Issue(c)
    BY <2>2, IssuedType
  <2> QED
    BY <2>1, <2>2
<1>3. replies' \in Seq([req : Req, val : Value])
  BY DeliveredType
<1> QED
  BY <1>1, <1>2, <1>3 DEF TypeOK

\* A set of what Realm holds now is a well-typed command.
LEMMA SetNowType ==
    ASSUME TypeOK, NEW k \in Key
    PROVE  /\ Set(k, Snapshot(k)) \in Command
           /\ Set(k, Snapshot(k)).val \in ValueOf(Set(k, Snapshot(k)).key)
<1>1. Snapshot(k) \in ValueOf(k)
  BY SnapshotType
<1>2. None \in Req \cup {None}
  OBVIOUS
<1> QED
  BY <1>1, <1>2, CommandsTyped

\* The keys: the list key is not the id of an item.
LEMMA KeyFacts == ListKey \in Key /\ Barang \subseteq Key /\ ListKey \notin Barang
  BY BarangAssumption DEF Key

\* A new quantity, or none, keeps a unit list a unit list.
LEMMA SatuanUpdateType ==
    ASSUME TypeOK, NEW b \in Barang, NEW s \in Satuan, db[b] # None,
           NEW n \in Stock \cup {None}
    PROVE  [db[b].satuan EXCEPT ![s] = n] \in SatuanList
<1>1. db[b].satuan \in SatuanList
  BY DEF TypeOK, Db, Item
<1> QED
  BY <1>1 DEF SatuanList

\* A unit handler writes a unit list of an item in stock.
LEMMA SatuanWrites ==
    ASSUME TypeOK, NEW b \in Barang, NEW s \in Satuan, SatuanCall(b, s)
    PROVE  db[b] # None /\ \E list \in SatuanList : WriteSatuan(b, list)
<1> DEFINE Goal == db[b] # None /\ \E list \in SatuanList : WriteSatuan(b, list)
<1>1. ASSUME NEW n \in Amount, Addsatuan(b, s, n) PROVE Goal
  <2>1. [db[b].satuan EXCEPT ![s] = n] \in SatuanList
    BY <1>1, BarangAssumption, SatuanUpdateType DEF Addsatuan
  <2> QED
    BY <1>1, <2>1 DEF Addsatuan
<1>2. ASSUME Deletesatuan(b, s) PROVE Goal
  <2>1. db[b] # None
    BY <1>2 DEF Deletesatuan, HasSatuan
  <2>2. [db[b].satuan EXCEPT ![s] = None] \in SatuanList
    BY <2>1, SatuanUpdateType
  <2> QED
    BY <1>2, <2>1, <2>2 DEF Deletesatuan
<1>3. ASSUME NEW n \in Amount, NEW a, Editjumlahsatuan(b, s, n, a) PROVE Goal
  <2> DEFINE new == NewJumlah(db[b].satuan[s], n, a)
  <2>1. db[b] # None /\ new \in Stock \cup {None}
    BY <1>3 DEF Editjumlahsatuan, HasSatuan
  <2>2. [db[b].satuan EXCEPT ![s] = new] \in SatuanList
    BY <2>1, SatuanUpdateType
  <2>3. WriteSatuan(b, [db[b].satuan EXCEPT ![s] = new])
    BY <1>3 DEF Editjumlahsatuan
  <2> QED
    BY <2>1, <2>2, <2>3
<1> QED
  BY <1>1, <1>2, <1>3 DEF SatuanCall

\* Every step keeps the types.
LEMMA NextType ==
    ASSUME TypeOK, Next
    PROVE  TypeOK'
<1>1. ASSUME NEW r \in Req, Baranglist(r) PROVE TypeOK'
  BY <1>1, AwaitGetType, KeyFacts DEF Baranglist, TypeOK
<1>2. ASSUME NEW r \in Req, NEW b \in Barang, Getsatuan(r, b) PROVE TypeOK'
  BY <1>2, AwaitGetType, KeyFacts DEF Getsatuan, TypeOK
<1>3. ASSUME NEW r \in Req, NEW b \in Barang, NEW i \in Info, Addbarang(r, b, i)
      PROVE  TypeOK'
  <2>1. [info |-> i, satuan |-> [s \in Satuan |-> None]] \in Item \cup {None}
    BY DEF Item, SatuanList
  <2>2. used' \in SUBSET Barang
    BY <1>3 DEF Addbarang, TypeOK
  <2> QED
    BY <1>3, <2>1, <2>2, WriteItemType DEF Addbarang
<1>4. ASSUME NEW r \in Req, NEW b \in Barang, Deletebarang(r, b) PROVE TypeOK'
  <2>1. used' \in SUBSET Barang
    BY <1>4 DEF Deletebarang, TypeOK
  <2> QED
    BY <1>4, <2>1, WriteItemType DEF Deletebarang
<1>5. ASSUME NEW r \in Req, NEW b \in Barang, NEW i \in Info, Updatebarang(r, b, i)
      PROVE  TypeOK'
  <2>1. [db[b] EXCEPT !.info = i] \in Item \cup {None}
    BY <1>5 DEF Updatebarang, TypeOK, Db, Item
  <2>2. used' \in SUBSET Barang
    BY <1>5 DEF Updatebarang, TypeOK
  <2> QED
    BY <1>5, <2>1, <2>2, WriteItemType DEF Updatebarang
<1>6. ASSUME NEW b \in Barang, NEW s \in Satuan, SatuanCall(b, s) PROVE TypeOK'
  BY <1>6, SatuanWrites, WriteSatuanType
<1>9. CASE RedisStep
  BY <1>9, RedisStepType
<1>10. CASE BaranglistReply
  <2>1. Set(ListKey, db) \in Command /\ Set(ListKey, db).val \in ValueOf(Set(ListKey, db).key)
    BY SetNowType, KeyFacts DEF Snapshot
  <2> QED
    BY <1>10, <2>1, ReplyType DEF BaranglistReply
<1>11. CASE GetsatuanReply
  <2> DEFINE b == req[Head(replies).req].key
  <2>1. b \in Barang
    BY <1>11, DeliveredType DEF GetsatuanReply, TypeOK
  <2>2. db[b] # None => Set(b, db[b].satuan) \in Command
                        /\ Set(b, db[b].satuan).val \in ValueOf(Set(b, db[b].satuan).key)
    BY <2>1, SetNowType, KeyFacts DEF Snapshot
  <2>3. \/ Settle(Head(replies).req, NoCall) /\ UNCHANGED redisQ
        \/ /\ Settle(Head(replies).req, Hung)
           /\ \E c \in Command : c.val \in ValueOf(c.key) /\ Issue(c)
    BY <1>11, <2>2 DEF GetsatuanReply
  <2> QED
    BY <1>11, <2>3, ReplyType DEF GetsatuanReply
<1>12. CASE GetsatuanFails
  BY <1>12, DieType DEF GetsatuanFails, TypeOK
<1>13. CASE AddbarangReply
  <2>1. Set(ListKey, db) \in Command /\ Set(ListKey, db).val \in ValueOf(Set(ListKey, db).key)
    BY SetNowType, KeyFacts DEF Snapshot
  <2> QED
    BY <1>13, <2>1, ReplyType DEF AddbarangReply
<1>14. CASE DelReply
  BY <1>14, ReplyType DEF DelReply
<1>15. CASE Crash
  <2>1. crashes' \in 0..MaxCrash
    BY <1>15, BarangAssumption DEF Crash, TypeOK
  <2> QED
    BY <1>15, <2>1, DieType DEF Crash
<1>16. CASE Restart
  BY <1>16 DEF Restart, TypeOK
<1> QED
  BY <1>1, <1>2, <1>3, <1>4, <1>5, <1>6, <1>9, <1>10, <1>11, <1>12,
     <1>13, <1>14, <1>15, <1>16 DEF Next, ItemCall, Reply

\* TypeOK holds in every reachable state: every handler leaves Realm, Redis,
\* the connection and the requests well formed, and a key of one kind never
\* receives a value of the other.
THEOREM TypeInvariant == Spec => []TypeOK
<1>1. TypeOK /\ UNCHANGED vars => TypeOK'
  BY DEF TypeOK, vars
<1> QED
  BY InitType, NextType, <1>1, PTL DEF Spec

-----------------------------------------------------------------------------
(* Coherence of the entries. *)

\* The list key always stands for the items of the warehouse.
LEMMA ListSnapshot == TypeOK => Snapshot(ListKey) = db /\ db # None
  BY BarangAssumption DEF Snapshot, TypeOK

\* The key of an item stands for its units, or for nothing once it is gone.
LEMMA SatuanSnapshot ==
    ASSUME NEW b \in Barang
    PROVE  Snapshot(b) = IF db[b] = None THEN None ELSE db[b].satuan
  BY BarangAssumption DEF Snapshot

\* An absent entry and a current one are fresh.
LEMMA FreshNow == \A k, t : Fresh(k, None, t) /\ Fresh(k, t, t)
  BY DEF Fresh, Agrees, SameItems

\* An item handler: the list entry is deleted, no unit entry is touched.
LEMMA WriteItemCoherent ==
    ASSUME CoherenceInv, TypeOK', NEW r \in Req, NEW b \in Barang,
           NEW item \in Item \cup {None}, NEW o, WriteItem(r, o, b, item),
           used' = used \cup {b},
           \/ b \notin used
           \/ item = None
           \/ db[b] # None /\ item.satuan = db[b].satuan
    PROVE  CoherenceInv'
<1> DEFINE c == Del(ListKey, r)
<1>1. /\ c \in Command /\ IsWrite(c, ListKey) /\ c.val = None
      /\ \A a \in Barang : ~IsWrite(c, a)
  BY KeyFacts DEF Del, IsWrite, Command, Value
<1>2. /\ redisQ \in Seq(Command) /\ redisQ' = Append(redisQ, c) /\ cache' = cache
      /\ db' = [db EXCEPT ![b] = item] /\ db \in [Barang -> Item \cup {None}]
      /\ lost' = lost \ {ListKey}
  BY DEF CoherenceInv, TypeOK, WriteItem, Issue, Db
<1>3. Untouched'
  <2>1. ASSUME NEW a \in Barang \ used'
        PROVE  db'[a] = None /\ cache'[a] = None /\ ~Pending(redisQ', a)
    BY <1>1, <1>2, PendingOther DEF CoherenceInv, Untouched
  <2> QED
    BY <2>1 DEF Untouched
<1>4. CoherentNow(ListKey)'
  <2>1. Coherent(Append(redisQ, c), cache'[ListKey], ListKey, Snapshot(ListKey)')
    BY <1>1, <1>2, CoherentWrite, FreshNow
  <2> QED
    BY <1>2, <2>1 DEF CoherentNow
<1>5. ASSUME NEW a \in Barang, a \notin lost', Snapshot(a)' # None
      PROVE  CoherentNow(a)'
  <2>1. db'[a] # None /\ Snapshot(a)' = db'[a].satuan
    BY <1>5, KeyFacts DEF Snapshot
  <2>2. a \notin lost /\ a \in Key
    BY <1>2, <1>5, KeyFacts
  <2>3. CASE db[a] # None /\ db'[a].satuan = db[a].satuan
    <3>1. Coherent(redisQ, cache[a], a, Snapshot(a)')
      BY <2>1, <2>2, <2>3, SatuanSnapshot, BarangAssumption
      DEF CoherenceInv, CoherentNow, TypeOK, Db, Item
    <3>2. Coherent(Append(redisQ, c), cache[a], a, Snapshot(a)')
      BY <1>1, <1>2, <3>1, CoherentOther
    <3> QED
      BY <1>2, <3>2 DEF CoherentNow
  <2>4. CASE a = b /\ b \notin used
    <3>1. cache[a] = None /\ ~Pending(redisQ, a)
      BY <2>4 DEF CoherenceInv, Untouched
    <3>2. ~Pending(redisQ', a)
      BY <1>1, <1>2, <3>1, PendingOther
    <3> QED
      BY <1>2, <3>1, <3>2, FreshNow DEF CoherentNow, Coherent, Pending, LastWrite
  <2> QED
    BY <1>2, <2>1, <2>3, <2>4
<1> QED
  BY <1>3, <1>4, <1>5 DEF CoherenceInv, Key

\* A unit handler: the unit entry is deleted and set to the units just written;
\* the list entry is left alone, and lists the same items as before.
LEMMA WriteSatuanCoherent ==
    ASSUME CoherenceInv, TypeOK', NEW b \in Barang, NEW list \in SatuanList,
           db[b] # None, WriteSatuan(b, list)
    PROVE  CoherenceInv'
<1> DEFINE d == Del(b, None)
           c == Set(b, list)
           q == Append(redisQ, d)
<1>1. /\ d \in Command /\ c \in Command /\ c.val = list /\ b \in Key
      /\ IsWrite(d, b) /\ IsWrite(c, b)
      /\ \A a \in Key : a # b => ~IsWrite(d, a) /\ ~IsWrite(c, a)
  BY KeyFacts DEF Del, Set, IsWrite, Command, Value
<1>2. /\ redisQ \in Seq(Command) /\ redisQ' = Append(q, c) /\ cache' = cache
      /\ db' = [db EXCEPT ![b].satuan = list] /\ db \in [Barang -> Item \cup {None}]
      /\ lost' = lost \ {b} /\ used' = used
  BY DEF CoherenceInv, TypeOK, WriteSatuan, DelThenSet, Db
<1>3. /\ q \in Seq(Command)
      /\ b \in used
      /\ db'[b] # None /\ db'[b].satuan = list /\ db'[b].info = db[b].info
      /\ \A a \in Barang : a # b => db'[a] = db[a]
  <2>1. db[b] \in Item /\ db'[b] = [db[b] EXCEPT !.satuan = list]
    BY <1>2
  <2>2. db'[b] \in Item /\ db'[b].satuan = list /\ db'[b].info = db[b].info
    BY <2>1 DEF Item
  <2>3. q \in Seq(Command)
    BY <1>1, <1>2
  <2> QED
    BY <1>2, <2>2, <2>3, BarangAssumption DEF CoherenceInv, Untouched
<1> HIDE DEF c, d, q
<1>4. \A a \in Key : a # b /\ ~Pending(redisQ, a) => ~Pending(redisQ', a)
  BY <1>1, <1>2, <1>3, PendingOther DEF q
<1>5. \A a \in Key : \A e, t : a # b /\ Coherent(redisQ, e, a, t) => Coherent(redisQ', e, a, t)
  BY <1>1, <1>2, <1>3, CoherentOther DEF q
<1>6. Untouched'
  BY <1>2, <1>3, <1>4, KeyFacts DEF CoherenceInv, Untouched
<1>7. CoherentNow(b)'
  <2>1. Snapshot(b)' = list
    BY <1>3, KeyFacts DEF Snapshot
  <2>2. Coherent(Append(q, c), cache'[b], b, Snapshot(b)')
    BY <1>1, <1>3, <2>1, CoherentWrite, FreshNow
  <2> QED
    BY <1>2, <2>2 DEF CoherentNow
<1>8. ASSUME NEW a \in Barang, a # b, a \notin lost', Snapshot(a)' # None
      PROVE  CoherentNow(a)'
  <2>1. Snapshot(a)' = Snapshot(a) /\ a \notin lost /\ a \in Key
    BY <1>2, <1>3, <1>8, KeyFacts DEF Snapshot
  <2>2. Coherent(redisQ, cache[a], a, Snapshot(a)')
    BY <1>8, <2>1 DEF CoherenceInv, CoherentNow
  <2> QED
    BY <1>2, <1>5, <1>8, <2>1, <2>2 DEF CoherentNow
<1>9. ASSUME ListKey \notin lost' PROVE CoherentNow(ListKey)'
  <2>1. Snapshot(ListKey) = db /\ Snapshot(ListKey)' = db' /\ db # None
    BY ListSnapshot DEF CoherenceInv, Snapshot
  <2>2. Coherent(redisQ, cache[ListKey], ListKey, db)
    BY <1>2, <1>9, <2>1, KeyFacts DEF CoherenceInv, CoherentNow
  <2>3. \A v : SameItems(v, db) => SameItems(v, db')
    BY <1>2, <1>3 DEF SameItems
  <2>4. \A v : Fresh(ListKey, v, db) => Fresh(ListKey, v, db')
    BY <2>3 DEF Fresh, Agrees
  <2>5. Coherent(redisQ, cache[ListKey], ListKey, db')
    BY <2>2, <2>4 DEF Coherent
  <2> QED
    BY <1>2, <1>5, <2>1, <2>5, KeyFacts DEF CoherentNow
<1> QED
  BY <1>6, <1>7, <1>8, <1>9 DEF CoherenceInv, Key

\* An item handler writes an item: a new one, none, or one with the same units.
LEMMA ItemWrites ==
    ASSUME CoherenceInv, NEW r \in Req, NEW b \in Barang,
           \/ Deletebarang(r, b)
           \/ \E i \in Info : Addbarang(r, b, i) \/ Updatebarang(r, b, i)
    PROVE  /\ Free(r)
           /\ used' = used \cup {b}
           /\ \E o \in {"addbarang", "deletebarang", "updatebarang"},
                 item \in Item \cup {None} :
                /\ WriteItem(r, o, b, item)
                /\ \/ b \notin used
                   \/ item = None
                   \/ db[b] # None /\ item.satuan = db[b].satuan
<1>1. CASE Deletebarang(r, b)
  BY <1>1 DEF Deletebarang
<1>2. ASSUME NEW i \in Info, Addbarang(r, b, i)
      PROVE  /\ Free(r) /\ used' = used \cup {b} /\ b \notin used
             /\ \E item \in Item \cup {None} : WriteItem(r, "addbarang", b, item)
  <2>1. [info |-> i, satuan |-> [s \in Satuan |-> None]] \in Item \cup {None}
    BY DEF Item, SatuanList
  <2> QED
    BY <1>2, <2>1 DEF Addbarang
<1>3. ASSUME NEW i \in Info, Updatebarang(r, b, i)
      PROVE  /\ Free(r) /\ used' = used \cup {b}
             /\ \E item \in Item \cup {None} :
                  /\ WriteItem(r, "updatebarang", b, item)
                  /\ db[b] # None /\ item.satuan = db[b].satuan
  <2>1. db[b] \in Item /\ db[b] # None
    BY <1>3 DEF Updatebarang, CoherenceInv, TypeOK, Db
  <2>2. /\ [db[b] EXCEPT !.info = i] \in Item \cup {None}
        /\ [db[b] EXCEPT !.info = i].satuan = db[b].satuan
    BY <2>1 DEF Item
  <2>3. used' = used \cup {b}
    BY <1>3, <2>1 DEF Updatebarang, CoherenceInv, Untouched
  <2> QED
    BY <1>3, <2>1, <2>2, <2>3 DEF Updatebarang
<1> QED
  BY <1>1, <1>2, <1>3

\* Redis applies a command: what it will hold in the end does not change.
LEMMA RedisStepCoherent ==
    ASSUME CoherenceInv, TypeOK', RedisStep
    PROVE  CoherenceInv'
<1> DEFINE c == Head(redisQ)
<1>1. /\ redisQ \in Seq(Command) /\ redisQ # <<>> /\ redisQ' = Tail(redisQ)
      /\ cache \in [Key -> Value]
      /\ UNCHANGED <<db, used, lost>>
  BY DEF CoherenceInv, TypeOK, RedisStep, Serve
<1>2. c \in Command
  BY <1>1, HeadTail
<1>3. ASSUME NEW k \in Key
      PROVE  cache'[k] = IF IsWrite(c, k) THEN c.val ELSE cache[k]
  <2>1. cache' = IF c.op = "get" THEN cache ELSE [cache EXCEPT ![c.key] = c.val]
    BY DEF RedisStep, Serve
  <2> QED
    BY <1>1, <1>2, <2>1 DEF IsWrite, Command
<1>4. ASSUME NEW b \in Barang \ used'
      PROVE  db'[b] = None /\ cache'[b] = None /\ ~Pending(redisQ', b)
  <2>1. db[b] = None /\ cache[b] = None /\ ~Pending(redisQ, b)
    BY <1>1, <1>4 DEF CoherenceInv, Untouched
  <2>2. ~Pending(redisQ', b) /\ ~IsWrite(c, b)
    BY <1>1, <2>1, PendingTail
  <2> QED
    BY <1>1, <1>3, <2>1, <2>2, KeyFacts
<1>5. ASSUME NEW k \in Key, k \notin lost', Snapshot(k)' # None
      PROVE  CoherentNow(k)'
  <2>1. Snapshot(k)' = Snapshot(k)
    BY <1>1 DEF Snapshot
  <2>2. Coherent(redisQ, cache[k], k, Snapshot(k))
    BY <1>1, <1>5, <2>1 DEF CoherenceInv, CoherentNow
  <2>3. Coherent(Tail(redisQ), IF IsWrite(c, k) THEN c.val ELSE cache[k], k, Snapshot(k))
    BY <1>1, <2>2, TakeCoherent
  <2> QED
    BY <1>1, <1>3, <2>1, <2>3 DEF CoherentNow
<1> QED
  BY <1>4, <1>5 DEF CoherenceInv, Untouched

\* A command that writes nothing, or writes what Realm holds now under a key
\* already handed out, keeps the invariant while Realm stands still.
LEMMA IssueCoherent ==
    ASSUME CoherenceInv, TypeOK', NEW c \in Command, Issue(c),
           \/ c.op = "get"
           \/ /\ c.op # "get" /\ c.val = Snapshot(c.key)
              /\ c.key = ListKey \/ c.key \in used,
           UNCHANGED <<db, used, cache, lost>>
    PROVE  CoherenceInv'
<1>1. redisQ \in Seq(Command) /\ redisQ' = Append(redisQ, c)
  BY DEF CoherenceInv, TypeOK, Issue
<1>2. ASSUME NEW b \in Barang \ used'
      PROVE  db'[b] = None /\ cache'[b] = None /\ ~Pending(redisQ', b)
  <2>1. db[b] = None /\ cache[b] = None /\ ~Pending(redisQ, b)
    BY <1>2 DEF CoherenceInv, Untouched
  <2>2. ~IsWrite(c, b)
    BY <1>2, KeyFacts DEF IsWrite
  <2> QED
    BY <1>1, <2>1, <2>2, PendingOther
<1>3. ASSUME NEW k \in Key, k \notin lost', Snapshot(k)' # None
      PROVE  CoherentNow(k)'
  <2>1. Snapshot(k)' = Snapshot(k)
    BY DEF Snapshot
  <2>2. Coherent(redisQ, cache[k], k, Snapshot(k))
    BY <1>3, <2>1 DEF CoherenceInv, CoherentNow
  <2>3. CASE ~IsWrite(c, k)
    BY <1>1, <2>1, <2>2, <2>3, CoherentOther DEF CoherentNow
  <2>4. CASE IsWrite(c, k)
    <3>1. Fresh(k, c.val, Snapshot(k))
      BY <2>4, FreshNow DEF IsWrite
    <3> QED
      BY <1>1, <2>1, <2>4, <3>1, CoherentWrite DEF CoherentNow
  <2> QED
    BY <2>3, <2>4
<1> QED
  BY <1>2, <1>3 DEF CoherenceInv, Untouched

\* The process dies: a key with a write on the way is given up as lost, any
\* other entry is what Redis already holds.
LEMMA DieCoherent ==
    ASSUME CoherenceInv, TypeOK', Die
    PROVE  CoherenceInv'
<1>1. /\ redisQ' = <<>> /\ UNCHANGED <<db, used, cache>>
      /\ lost' = lost \cup {k \in Key : Pending(redisQ, k)}
  BY DEF Die
<1>2. \A k : ~Pending(redisQ', k) /\ \A i \in DOMAIN redisQ' : ~LastWrite(redisQ', k, i)
  BY <1>1 DEF Pending, LastWrite
<1>3. Untouched'
  BY <1>1, <1>2 DEF CoherenceInv, Untouched
<1>4. ASSUME NEW k \in Key, k \notin lost', Snapshot(k)' # None
      PROVE  CoherentNow(k)'
  <2>1. Snapshot(k)' = Snapshot(k)
    BY <1>1 DEF Snapshot
  <2>2. Coherent(redisQ, cache[k], k, Snapshot(k)) /\ ~Pending(redisQ, k)
    BY <1>1, <1>4, <2>1 DEF CoherenceInv, CoherentNow
  <2> QED
    BY <1>1, <1>2, <2>1, <2>2 DEF CoherentNow, Coherent
<1> QED
  BY <1>3, <1>4 DEF CoherenceInv

\* What a key will hold depends on the queue, the entry and the truth alone.
LEMMA FrameCoherent ==
    ASSUME CoherenceInv, TypeOK', UNCHANGED <<db, used, cache, redisQ, lost>>
    PROVE  CoherenceInv'
<1>1. \A k : CoherentNow(k)' = CoherentNow(k) /\ Snapshot(k)' = Snapshot(k)
  BY DEF CoherentNow, Snapshot
<1> QED
  BY <1>1 DEF CoherenceInv, Untouched

\* An empty Redis is coherent.
LEMMA InitCoherent == Init => CoherenceInv
<1> SUFFICES ASSUME Init PROVE CoherenceInv
  OBVIOUS
<1>1. redisQ = <<>> /\ \A k \in Key : cache[k] = None
  BY DEF Init
<1>2. \A k : ~Pending(redisQ, k) /\ \A i \in DOMAIN redisQ : ~LastWrite(redisQ, k, i)
  BY <1>1 DEF Pending, LastWrite
<1>3. \A k \in Key : CoherentNow(k)
  BY <1>1, <1>2, FreshNow DEF CoherentNow, Coherent
<1>4. Untouched
  BY <1>1, <1>2, KeyFacts DEF Untouched, Init
<1> QED
  BY <1>3, <1>4, InitType DEF CoherenceInv

\* Every step keeps every key coherent.
LEMMA NextCoherent ==
    ASSUME CoherenceInv, Next
    PROVE  CoherenceInv'
<1> TypeOK /\ TypeOK'
  BY NextType DEF CoherenceInv
<1> ListKey \in Key
  BY KeyFacts
<1>1. ASSUME NEW r \in Req, NEW k \in Key, NEW o, AwaitGet(r, o, k),
             UNCHANGED <<db, used, cache, lost>>
      PROVE  CoherenceInv'
  <2>1. Get(k, r) \in Command /\ Get(k, r).op = "get"
    BY DEF Get, Command, Value
  <2> QED
    BY <1>1, <2>1, IssueCoherent DEF AwaitGet
<1>2. ASSUME NEW r \in Req, Baranglist(r) PROVE CoherenceInv'
  BY <1>1, <1>2 DEF Baranglist
<1>3. ASSUME NEW r \in Req, NEW b \in Barang, Getsatuan(r, b) PROVE CoherenceInv'
  BY <1>1, <1>3, KeyFacts DEF Getsatuan
<1>4. ASSUME NEW r \in Req, NEW b \in Barang,
             \/ Deletebarang(r, b)
             \/ \E i \in Info : Addbarang(r, b, i) \/ Updatebarang(r, b, i)
      PROVE  CoherenceInv'
  BY <1>4, ItemWrites, WriteItemCoherent
<1>5. ASSUME NEW b \in Barang, NEW s \in Satuan, SatuanCall(b, s) PROVE CoherenceInv'
  BY <1>5, SatuanWrites, WriteSatuanCoherent
<1>10. CASE RedisStep
  BY <1>10, RedisStepCoherent
<1>11. Set(ListKey, db) \in Command /\ Set(ListKey, db).op # "get"
       /\ Set(ListKey, db).val = Snapshot(ListKey) /\ Set(ListKey, db).key = ListKey
  BY SetNowType, ListSnapshot DEF Set
<1>12. CASE BaranglistReply
  <2>1. CASE UNCHANGED redisQ
    BY <1>12, <2>1, FrameCoherent DEF BaranglistReply
  <2>2. CASE Issue(Set(ListKey, db))
    BY <1>11, <1>12, <2>2, IssueCoherent DEF BaranglistReply
  <2> QED
    BY <1>12, <2>1, <2>2 DEF BaranglistReply
<1>13. CASE GetsatuanReply
  <2> DEFINE b == req[Head(replies).req].key
  <2>1. b \in Barang
    BY <1>13, DeliveredType DEF GetsatuanReply, TypeOK
  <2>2. CASE UNCHANGED redisQ
    BY <1>13, <2>2, FrameCoherent DEF GetsatuanReply
  <2>3. CASE db[b] # None /\ Issue(Set(b, db[b].satuan))
    <3>1. Snapshot(b) = db[b].satuan /\ b \in used /\ b \in Key
      BY <2>1, <2>3, SatuanSnapshot, KeyFacts DEF CoherenceInv, Untouched
    <3>2. /\ Set(b, db[b].satuan) \in Command /\ Set(b, db[b].satuan).op # "get"
          /\ Set(b, db[b].satuan).val = Snapshot(b) /\ Set(b, db[b].satuan).key = b
      BY <3>1, SetNowType DEF Set
    <3> QED
      BY <1>13, <2>3, <3>1, <3>2, IssueCoherent DEF GetsatuanReply
  <2> QED
    BY <1>13, <2>2, <2>3 DEF GetsatuanReply
<1>14. CASE GetsatuanFails
  BY <1>14, DieCoherent DEF GetsatuanFails
<1>15. CASE AddbarangReply
  BY <1>11, <1>15, IssueCoherent DEF AddbarangReply
<1>16. CASE DelReply
  BY <1>16, FrameCoherent DEF DelReply
<1>17. CASE Crash
  BY <1>17, DieCoherent DEF Crash
<1>18. CASE Restart
  BY <1>18, FrameCoherent DEF Restart
<1> QED
  BY <1>2, <1>3, <1>4, <1>5, <1>10, <1>12, <1>13, <1>14,
     <1>15, <1>16, <1>17, <1>18 DEF Next, ItemCall, Reply

\* The inductive invariant holds in every reachable state.
THEOREM CoherenceInvariant == Spec => []CoherenceInv
<1>1. CoherenceInv /\ UNCHANGED vars => CoherenceInv'
  <2> SUFFICES ASSUME CoherenceInv, UNCHANGED vars PROVE CoherenceInv'
    OBVIOUS
  <2>1. TypeOK'
    BY DEF CoherenceInv, TypeOK, vars
  <2> QED
    BY <2>1, FrameCoherent DEF vars
<1> QED
  BY InitCoherent, NextCoherent, <1>1, PTL DEF Spec

\* Whatever requests are in flight, the unit entry Redis will hold for an item
\* in stock is absent or equals the units in Realm, unless a write of it died
\* with the process.
THEOREM SatuanCoherence == Spec => []SatuanCoherent
<1>1. CoherenceInv => SatuanCoherent
  <2> SUFFICES ASSUME CoherenceInv, NEW b \in Barang, db[b] # None, b \notin lost
               PROVE  CoherentNow(b)
    BY DEF SatuanCoherent
  <2>1. Snapshot(b) # None
    BY SatuanSnapshot, BarangAssumption DEF CoherenceInv, TypeOK, Db, Item
  <2> QED
    BY <2>1, KeyFacts DEF CoherenceInv
<1> QED
  BY <1>1, CoherenceInvariant, PTL

\* The list entry Redis will hold is absent or lists exactly the items of the
\* warehouse, unless a write of it died with the process.
THEOREM ListCoherence == Spec => []ListCoherent
<1>1. CoherenceInv => ListCoherent
  BY ListSnapshot, KeyFacts DEF CoherenceInv, ListCoherent
<1> QED
  BY <1>1, CoherenceInvariant, PTL

-----------------------------------------------------------------------------
(* What the reads on their way are promised. *)

Writes(r) == req[r].op \in {"addbarang", "deletebarang", "updatebarang"}

\* A handler waits for the one command it issued, a free request for nothing.
Waiting(r) ==
    \/ Free(r) /\ Silent(r)
    \/ /\ Reads(r) /\ req[r].key \in Key /\ Awaits(r, Get(req[r].key, r))
       /\ req[r].op = "baranglist" => req[r].key = ListKey
    \/ Writes(r) /\ Awaits(r, Del(ListKey, r))

\* A read is promised a miss, or a value of its key's kind, which agrees with
\* what the key stood for when the request came in.
Served(r) ==
    Reads(r) =>
        /\ Promised(r) \in ValueOf(req[r].key)
        /\ req[r].ok /\ req[r].seen # None =>
             Promised(r) = None \/ Agrees(req[r].key, Promised(r), req[r].seen)

ServiceInv ==
    /\ CoherenceInv
    /\ \A r \in Req : Waiting(r) /\ Served(r)

\* The step goes on without r: its row stays, and so does what it waits for.
Kept(r) ==
    /\ req'[r] = req[r]
    /\ Waiting(r)' /\ Served(r)'
    /\ Reads(r) => Promised(r)' = Promised(r)

\* The connection, as the lemmas about it have it.
LEMMA Connected ==
    /\ TypeOK => ConnectionType(Key, Value, Req)
    /\ TypeOK' => ConnectionType(Key, Value, Req)'
    /\ Command = Commands(Key, Value, Req)
    /\ None \in Value
    /\ None \notin Req
    /\ ListKey \in Key
  BY BarangAssumption DEF TypeOK, ConnectionType, Command, Commands, Value, Key

\* A handler is at one of these: free, reading or writing.
LEMMA OpFacts ==
    ASSUME NEW r
    PROVE  /\ Reads(r) => ~Free(r) /\ ~Writes(r)
           /\ Writes(r) => ~Free(r)
  BY DEF Reads, Writes, Free

\* A request whose row of req stays waits on while others act, for the same.
LEMMA WaitingKept ==
    ASSUME TypeOK, TypeOK', NEW r \in Req, Waiting(r), Served(r), Grows(r), Passes(r),
           req'[r] = req[r]
    PROVE  Kept(r)
<1>1. ConnectionType(Key, Value, Req) /\ ConnectionType(Key, Value, Req)'
  BY Connected
<1>2. CASE Free(r) /\ Silent(r)
  <2>1. Silent(r)'
    BY <1>1, <1>2, SilentKept
  <2> QED
    BY <1>2, <2>1, OpFacts DEF Kept, Waiting, Served, Free, Reads
<1>3. CASE /\ Reads(r) /\ req[r].key \in Key /\ Awaits(r, Get(req[r].key, r))
           /\ req[r].op = "baranglist" => req[r].key = ListKey
  <2>1. PICK c : c = Get(req[r].key, r) /\ Awaits(r, c)
    BY <1>3
  <2>2. Awaits(r, c)' /\ Promised(r)' = Promised(r)
    BY <1>1, <2>1, AwaitsKept
  <2> QED
    BY <1>3, <2>1, <2>2 DEF Kept, Waiting, Served, Reads
<1>4. CASE Writes(r) /\ Awaits(r, Del(ListKey, r))
  <2>1. PICK c : c = Del(ListKey, r) /\ Awaits(r, c)
    BY <1>4
  <2>2. Awaits(r, c)'
    BY <1>1, <2>1, AwaitsKept
  <2> QED
    BY <1>4, <2>1, <2>2, OpFacts DEF Kept, Waiting, Served, Reads, Writes
<1> QED
  BY <1>2, <1>3, <1>4 DEF Waiting

\* Nor does Redis applying a command change what a request waits for.
LEMMA WaitingServe ==
    ASSUME TypeOK, TypeOK', NEW r \in Req, Waiting(r), Served(r), Serve, req'[r] = req[r]
    PROVE  Kept(r)
<1>1. ConnectionType(Key, Value, Req) /\ ConnectionType(Key, Value, Req)' /\ r # None
  BY Connected
<1>2. CASE Free(r) /\ Silent(r)
  <2>1. Silent(r)'
    BY <1>1, <1>2, SilentServe
  <2> QED
    BY <1>2, <2>1, OpFacts DEF Kept, Waiting, Served, Free, Reads
<1>3. CASE /\ Reads(r) /\ req[r].key \in Key /\ Awaits(r, Get(req[r].key, r))
           /\ req[r].op = "baranglist" => req[r].key = ListKey
  <2>1. PICK c : c = Get(req[r].key, r) /\ Awaits(r, c)
    BY <1>3
  <2>2. c.key \in Key /\ c.op = "get"
    BY <1>3, <2>1 DEF Get
  <2>3. Awaits(r, c)' /\ Promised(r)' = Promised(r)
    BY <1>1, <2>1, <2>2, AwaitsServe
  <2> QED
    BY <1>3, <2>1, <2>3 DEF Kept, Waiting, Served, Reads
<1>4. CASE Writes(r) /\ Awaits(r, Del(ListKey, r))
  <2>1. PICK c : c = Del(ListKey, r) /\ Awaits(r, c)
    BY <1>4
  <2>2. c.key \in Key
    BY <2>1, Connected DEF Del
  <2>3. Awaits(r, c)'
    BY <1>1, <2>1, <2>2, AwaitsServe
  <2> QED
    BY <1>4, <2>1, <2>3, OpFacts DEF Kept, Waiting, Served, Reads, Writes
<1> QED
  BY <1>2, <1>3, <1>4 DEF Waiting

\* What a coherent key will hold is fresh, and of the key's kind.
LEMMA CoherentOutcome ==
    ASSUME NEW q \in Seq(Command), NEW e, NEW k, NEW t, Coherent(q, e, k, t)
    PROVE  Fresh(k, Outcome(q, e, k), t)
<1>1. \/ ~Pending(q, k) /\ Outcome(q, e, k) = e
      \/ \E i \in DOMAIN q : LastWrite(q, k, i) /\ Outcome(q, e, k) = q[i].val
  BY OutcomeCases
<1> QED
  BY <1>1 DEF Coherent

LEMMA OutcomeOfKind ==
    ASSUME NEW q \in Seq(Command), \A i \in DOMAIN q : q[i].val \in ValueOf(q[i].key),
           NEW k, NEW e \in ValueOf(k)
    PROVE  Outcome(q, e, k) \in ValueOf(k)
<1>1. \/ Outcome(q, e, k) = e
      \/ \E i \in DOMAIN q : LastWrite(q, k, i) /\ Outcome(q, e, k) = q[i].val
  BY OutcomeCases
<1> QED
  BY <1>1 DEF LastWrite, IsWrite

LEMMA FutureOfKind ==
    ASSUME NEW k \in Key
    PROVE  /\ TypeOK => Future(redisQ, k) \in ValueOf(k)
           /\ TypeOK' => Future(redisQ, k)' \in ValueOf(k)
  BY OutcomeOfKind DEF TypeOK, Future

-----------------------------------------------------------------------------
(* One lemma per kind of step: what the requests wait for, and what Redis  *)
(* will hold.                                                              *)

\* A read comes in: it is promised what Redis will hold under its key.
LEMMA AwaitGetService ==
    ASSUME ServiceInv, TypeOK', NEW r \in Req, Free(r),
           NEW o \in {"baranglist", "getsatuan"}, NEW k \in Key, AwaitGet(r, o, k),
           o = "baranglist" => k = ListKey, UNCHANGED <<cache, replies>>
    PROVE  /\ Waiting(r)' /\ Served(r)' /\ Reads(r)' /\ req'[r].key = k
           /\ Promised(r)' = Future(redisQ, k)
           /\ \A s \in Req : s # r => Kept(s)
           /\ \A x \in Key : Future(redisQ, x)' = Future(redisQ, x)
<1>1. /\ TypeOK /\ CoherenceInv /\ \A s \in Req : Waiting(s) /\ Served(s)
      /\ ConnectionType(Key, Value, Req) /\ ConnectionType(Key, Value, Req)'
  BY Connected DEF ServiceInv, CoherenceInv
<1>2. PICK c \in Commands(Key, Value, Req) :
        /\ c = Get(k, r) /\ c.key = k /\ c.waiter = r /\ \A x : ~IsWrite(c, x)
  <2>1. Get(k, r) \in Commands(Key, Value, Req) /\ \A x : ~IsWrite(Get(k, r), x)
    BY Connected, CommandType
  <2> QED
    BY <2>1 DEF Get
<1>3. /\ Issue(c)
      /\ req' = [req EXCEPT ![r] =
            [op |-> o, key |-> k, seen |-> Snapshot(k), ok |-> k \notin lost]]
  BY <1>2 DEF AwaitGet
<1>4. /\ req'[r].op = o /\ req'[r].key = k /\ req'[r].seen = Snapshot(k)
      /\ req'[r].ok <=> k \notin lost
      /\ \A s \in Req : s # r => req'[s] = req[s]
  BY <1>1, <1>3 DEF TypeOK
<1>5. ASSUME NEW s \in Req, s # r PROVE Kept(s)
  <2>1. Grows(s) /\ Passes(s)
    BY <1>1, <1>2, <1>3, <1>5, IssueGrows DEF Passes
  <2> QED
    BY <1>1, <1>4, <1>5, <2>1, WaitingKept
<1>6. Silent(r)
  BY <1>1, OpFacts DEF Waiting
<1>7. Awaits(r, c)' /\ Promised(r)' = Outcome(redisQ, cache[k], k)
  BY <1>1, <1>2, <1>3, <1>6, AwaitsIssued
<1>8. Waiting(r)' /\ Reads(r)'
  BY <1>2, <1>4, <1>7 DEF Waiting, Reads
<1>9. Served(r)'
  <2>1. Promised(r)' \in ValueOf(k)
    BY <1>1, <1>7, FutureOfKind DEF Future
  <2>2. k \notin lost /\ Snapshot(k) # None => Fresh(k, Promised(r)', Snapshot(k))
    BY <1>1, <1>7, CoherentOutcome DEF CoherenceInv, CoherentNow, TypeOK
  <2>3. PICK v, t : v = Promised(r)' /\ t = Snapshot(k)
    OBVIOUS
  <2>4. k \notin lost /\ t # None => v = None \/ Agrees(k, v, t)
    BY <2>2, <2>3 DEF Fresh
  <2> QED
    BY <1>4, <2>1, <2>3, <2>4 DEF Served
<1>10. \A x \in Key : Future(redisQ, x)' = Future(redisQ, x)
  BY <1>1, <1>2, <1>3, IssueFuture DEF Future
<1> QED
  BY <1>4, <1>5, <1>7, <1>8, <1>9, <1>10 DEF Future

\* A write of an item comes in: it waits for the del of the list key.
LEMMA WriteItemService ==
    ASSUME ServiceInv, TypeOK', NEW r \in Req, Free(r), NEW b, NEW item,
           NEW o \in {"addbarang", "deletebarang", "updatebarang"},
           WriteItem(r, o, b, item)
    PROVE  /\ Waiting(r)' /\ Served(r)' /\ ~Reads(r)'
           /\ \A s \in Req : s # r => Kept(s)
           /\ \A x \in Key : Future(redisQ, x)' =
                IF x = ListKey THEN None ELSE Future(redisQ, x)
<1>1. /\ TypeOK /\ \A s \in Req : Waiting(s) /\ Served(s)
      /\ ConnectionType(Key, Value, Req) /\ ConnectionType(Key, Value, Req)'
  BY Connected DEF ServiceInv, CoherenceInv
<1>2. PICK c \in Commands(Key, Value, Req) :
        /\ c = Del(ListKey, r) /\ c.key = ListKey /\ c.waiter = r /\ c.val = None
        /\ \A x : IsWrite(c, x) <=> x = ListKey
  <2>1. /\ Del(ListKey, r) \in Commands(Key, Value, Req) /\ Del(ListKey, r).val = None
        /\ \A x : IsWrite(Del(ListKey, r), x) <=> x = ListKey
    BY Connected, CommandType
  <2> QED
    BY <2>1 DEF Del
<1>3. /\ Issue(c) /\ UNCHANGED <<cache, replies>>
      /\ req' = [req EXCEPT ![r] = [NoCall EXCEPT !.op = o, !.key = ListKey]]
  BY <1>2 DEF WriteItem, Await
<1>4. req'[r].op = o /\ \A s \in Req : s # r => req'[s] = req[s]
  BY <1>1, <1>3 DEF TypeOK, NoCall
<1>5. ASSUME NEW s \in Req, s # r PROVE Kept(s)
  <2>1. Grows(s) /\ Passes(s)
    BY <1>1, <1>2, <1>3, <1>5, IssueGrows DEF Passes
  <2> QED
    BY <1>1, <1>4, <1>5, <2>1, WaitingKept
<1>6. Silent(r)
  BY <1>1, OpFacts DEF Waiting
<1>7. Awaits(r, c)'
  BY <1>1, <1>2, <1>3, <1>6, AwaitsIssued
<1>8. Waiting(r)' /\ ~Reads(r)' /\ Served(r)'
  BY <1>2, <1>4, <1>7 DEF Waiting, Reads, Writes, Served
<1>9. \A x \in Key : Future(redisQ, x)' =
        IF x = ListKey THEN None ELSE Future(redisQ, x)
  BY <1>1, <1>2, <1>3, IssueFuture DEF Future
<1> QED
  BY <1>5, <1>8, <1>9

\* A write of units: no request is concerned.
LEMMA WriteSatuanService ==
    ASSUME ServiceInv, TypeOK', NEW b \in Barang, NEW list \in SatuanList,
           WriteSatuan(b, list)
    PROVE  /\ \A s \in Req : Kept(s)
           /\ \A x \in Key : Future(redisQ, x)' =
                IF x = b THEN list ELSE Future(redisQ, x)
<1>1. /\ TypeOK /\ \A s \in Req : Waiting(s) /\ Served(s)
      /\ ConnectionType(Key, Value, Req) /\ ConnectionType(Key, Value, Req)'
  BY Connected DEF ServiceInv, CoherenceInv
<1>2. DelThenSet(b, list) /\ UNCHANGED <<cache, replies, req>>
  BY DEF WriteSatuan
<1>3. ASSUME NEW s \in Req PROVE Kept(s)
  <2>1. Grows(s) /\ Passes(s)
    BY <1>1, <1>2, Connected, DelThenSetGrows DEF Passes
  <2> QED
    BY <1>1, <1>2, <2>1, WaitingKept
<1>4. \A x \in Key : Future(redisQ, x)' = IF x = b THEN list ELSE Future(redisQ, x)
  <2>1. list \in Value /\ b \in Key
    BY KeyFacts DEF Value
  <2> QED
    BY <1>1, <1>2, <2>1, Connected, DelThenSetFuture DEF Future
<1> QED
  BY <1>3, <1>4

\* A handler resumes: its reply is what a read was promised, and ends the wait.
\* It may issue a command that nobody waits for.
LEMMA ReplyService ==
    ASSUME ServiceInv, TypeOK', NEW o, Delivered(o),
           NEW r, r = Head(replies).req, NEW how \in {NoCall, Hung}, Settle(r, how),
           replies' = Tail(replies), cache' = cache,
           \/ UNCHANGED redisQ
           \/ \E c \in Command : c.waiter = None /\ Issue(c)
    PROVE  /\ r \in Req /\ req[r].op = o /\ ~Free(r)
           /\ Reads(r) => /\ Promised(r) = Head(replies).val
                          /\ Promised(r) \in ValueOf(req[r].key) /\ req[r].key \in Key
           /\ Waiting(r)' /\ Served(r)' /\ ~Reads(r)'
           /\ \A s \in Req : s # r => Kept(s)
<1>1. /\ TypeOK /\ \A s \in Req : Waiting(s) /\ Served(s)
      /\ ConnectionType(Key, Value, Req) /\ ConnectionType(Key, Value, Req)'
  BY Connected DEF ServiceInv, CoherenceInv
<1>2. r \in Req /\ req[r].op = o /\ replies # <<>>
  BY <1>1, DeliveredType DEF Delivered
<1>3. ~Silent(r)
  <2> DEFINE T == [req : Req, val : Value]
  <2>1. replies \in Seq(T)
    BY <1>1 DEF TypeOK
  <2> HIDE DEF T
  <2>2. 1 \in DOMAIN replies /\ Head(replies) = replies[1]
    BY <1>2, <2>1
  <2> QED
    BY <2>2 DEF Silent
<1>4. PICK c : /\ Awaits(r, c)
               /\ \/ Reads(r) /\ req[r].key \in Key /\ c = Get(req[r].key, r)
                  \/ Writes(r) /\ c = Del(ListKey, r)
  BY <1>1, <1>2, <1>3 DEF Waiting
<1>5. ~Free(r)
  BY <1>4, OpFacts
<1>6. Promised(r) = Head(replies).val
  BY <1>1, <1>2, <1>4, AwaitsHead
<1>7. \A s \in Req : Grows(s)
  <2>1. CASE UNCHANGED redisQ
    BY <1>1, <2>1, SameGrows
  <2>2. CASE \E d \in Command : d.waiter = None /\ Issue(d)
    BY <1>1, <2>2, IssueGrows, Connected
  <2> QED
    BY <2>1, <2>2
<1>8. Silent(r)'
  BY <1>1, <1>2, <1>4, <1>7, SilentDelivered
<1>9. req'[r] = how /\ \A s \in Req : s # r => req'[s] = req[s]
  BY <1>1, <1>2 DEF TypeOK, Settle
<1>10. Waiting(r)' /\ Served(r)' /\ ~Reads(r)'
  <2>1. how.op \in {"none", "hung"}
    BY DEF NoCall, Hung
  <2> QED
    BY <1>8, <1>9, <2>1 DEF Waiting, Served, Reads, Free
<1>11. ASSUME NEW s \in Req, s # r PROVE Kept(s)
  <2>1. Passes(s)
    BY <1>2, <1>11 DEF Passes
  <2> QED
    BY <1>1, <1>7, <1>9, <1>11, <2>1, WaitingKept
<1>12. Reads(r) => Promised(r) \in ValueOf(req[r].key) /\ req[r].key \in Key
  BY <1>1, <1>2, <1>4, OpFacts DEF Served
<1> QED
  BY <1>2, <1>5, <1>6, <1>10, <1>11, <1>12

\* Redis applies a command: nobody is promised anything else.
LEMMA RedisStepService ==
    ASSUME ServiceInv, TypeOK', RedisStep
    PROVE  /\ \A s \in Req : Kept(s)
           /\ \A x \in Key : Future(redisQ, x)' = Future(redisQ, x)
<1>1. /\ TypeOK /\ \A s \in Req : Waiting(s) /\ Served(s)
      /\ ConnectionType(Key, Value, Req) /\ Serve /\ req' = req
  BY Connected DEF ServiceInv, CoherenceInv, RedisStep
<1>2. \A s \in Req : Kept(s)
  BY <1>1, WaitingServe
<1>3. \A x \in Key : Future(redisQ, x)' = Future(redisQ, x)
  BY <1>1, ServeFuture DEF Future
<1> QED
  BY <1>2, <1>3

\* The process dies: nobody waits, and a key with no write on its way keeps
\* what Redis holds.
LEMMA DieService ==
    ASSUME ServiceInv, Die
    PROVE  /\ \A s \in Req : Waiting(s)' /\ Served(s)' /\ ~Reads(s)'
           /\ \A x \in Key \ lost' : Future(redisQ, x)' = Future(redisQ, x)
<1>1. /\ redisQ' = <<>> /\ replies' = <<>> /\ cache' = cache
      /\ \A s \in Req : req'[s].op = "none"
      /\ lost' = lost \cup {k \in Key : Pending(redisQ, k)}
  BY DEF Die, NoCall
<1>2. \A s \in Req : Waiting(s)' /\ Served(s)' /\ ~Reads(s)'
  BY <1>1 DEF Waiting, Served, Reads, Free, Silent
<1>3. \A x \in Key \ lost' : Future(redisQ, x)' = Future(redisQ, x)
  <2>1. \A x : ~Pending(redisQ', x)
    BY <1>1 DEF Pending
  <2> QED
    BY <1>1, <2>1, OutcomeEntry DEF Future
<1> QED
  BY <1>2, <1>3

\* A step that leaves the connection and the requests alone.
LEMMA FrameService ==
    ASSUME ServiceInv, UNCHANGED <<cache, redisQ, replies, req>>
    PROVE  /\ \A s \in Req : Kept(s)
           /\ \A x \in Key : Future(redisQ, x)' = Future(redisQ, x)
<1>1. \A s \in Req : Waiting(s) /\ Served(s)
  BY DEF ServiceInv
<1>2. \A s \in Req : /\ Promised(s)' = Promised(s) /\ (Reads(s)' <=> Reads(s))
                     /\ (Waiting(s)' <=> Waiting(s))
  BY DEF Promised, Reads, Waiting, Writes, Free, Silent, Awaits
<1> QED
  BY <1>1, <1>2 DEF Kept, Served, Future

\* A command that stores what Realm holds is one nobody waits for.
LEMMA SetNow ==
    ASSUME TypeOK, NEW k \in Key, Issue(Set(k, Snapshot(k)))
    PROVE  /\ \E c \in Command : c.waiter = None /\ Issue(c)
           /\ cache' = cache => \A x \in Key :
                Future(redisQ, x)' = IF x = k THEN Snapshot(k) ELSE Future(redisQ, x)
<1>1. PICK v \in Value : v = Snapshot(k)
  BY SnapshotType, ValueOfType
<1>2. PICK c \in Commands(Key, Value, Req) :
        /\ c = Set(k, v) /\ c.val = v /\ c.waiter = None
        /\ \A x : IsWrite(c, x) <=> x = k
  BY SetType
<1>3. Issue(c) /\ c \in Command /\ ConnectionType(Key, Value, Req)
  BY <1>1, <1>2, Connected
<1>4. cache' = cache => \A x \in Key :
        Future(redisQ, x)' = IF x = k THEN v ELSE Future(redisQ, x)
  BY <1>2, <1>3, IssueFuture DEF Future
<1> QED
  BY <1>1, <1>2, <1>3, <1>4

-----------------------------------------------------------------------------
(* The handlers that resume, as the lemmas about their steps have them. *)

LEMMA BaranglistReplies ==
    ASSUME TypeOK, BaranglistReply
    PROVE  /\ Delivered("baranglist") /\ Settle(Head(replies).req, NoCall)
           /\ replies' = Tail(replies) /\ UNCHANGED <<db, cache, lost>>
           /\ \/ Head(replies).val # None /\ UNCHANGED redisQ
              \/ /\ Head(replies).val = None /\ Issue(Set(ListKey, Snapshot(ListKey)))
                 /\ \E c \in Command : c.waiter = None /\ Issue(c)
<1>1. Snapshot(ListKey) = db /\ ListKey \in Key
  BY ListSnapshot, KeyFacts
<1> QED
  BY <1>1, SetNow DEF BaranglistReply

LEMMA GetsatuanReplies ==
    ASSUME TypeOK, GetsatuanReply, NEW b, b = req[Head(replies).req].key
    PROVE  /\ Delivered("getsatuan") /\ b \in Barang
           /\ \E how \in {NoCall, Hung} : Settle(Head(replies).req, how)
           /\ replies' = Tail(replies) /\ UNCHANGED <<db, cache, lost>>
           /\ \/ Head(replies).val # None /\ UNCHANGED redisQ
              \/ /\ Head(replies).val = None /\ Snapshot(b) # None
                 /\ Issue(Set(b, Snapshot(b)))
                 /\ \E c \in Command : c.waiter = None /\ Issue(c)
<1>1. b \in Barang /\ b \in Key
  BY DeliveredType, KeyFacts DEF GetsatuanReply, TypeOK
<1>2. CASE Head(replies).val = None
  <2>1. db[b] # None /\ Issue(Set(b, db[b].satuan))
    BY <1>2 DEF GetsatuanReply
  <2>2. Snapshot(b) = db[b].satuan /\ Snapshot(b) # None
    BY <1>1, <2>1, SatuanSnapshot, BarangAssumption DEF TypeOK, Db, Item
  <2>3. Issue(Set(b, Snapshot(b)))
    BY <2>1, <2>2
  <2> QED
    BY <1>1, <1>2, <2>2, <2>3, SetNow DEF GetsatuanReply
<1>3. CASE Head(replies).val # None
  BY <1>1, <1>3 DEF GetsatuanReply
<1> QED
  BY <1>2, <1>3

LEMMA AddbarangReplies ==
    ASSUME TypeOK, AddbarangReply
    PROVE  /\ Delivered("addbarang") /\ Settle(Head(replies).req, NoCall)
           /\ replies' = Tail(replies) /\ UNCHANGED <<db, cache, lost>>
           /\ Issue(Set(ListKey, Snapshot(ListKey)))
           /\ \E c \in Command : c.waiter = None /\ Issue(c)
<1>1. Snapshot(ListKey) = db /\ ListKey \in Key
  BY ListSnapshot, KeyFacts
<1> QED
  BY <1>1, SetNow DEF AddbarangReply

-----------------------------------------------------------------------------
(* The service invariant. *)

LEMMA InitService == Init => ServiceInv
<1> SUFFICES ASSUME Init PROVE ServiceInv
  OBVIOUS
<1>1. CoherenceInv
  BY InitCoherent
<1>2. \A r \in Req : Waiting(r) /\ Served(r)
  <2>1. redisQ = <<>> /\ replies = <<>> /\ \A r \in Req : req[r].op = "none"
    BY DEF Init, NoCall
  <2> QED
    BY <2>1 DEF Waiting, Served, Reads, Free, Silent
<1> QED
  BY <1>1, <1>2 DEF ServiceInv

LEMMA NextService ==
    ASSUME ServiceInv, Next
    PROVE  ServiceInv'
<1> DEFINE All == \A r \in Req : Waiting(r)' /\ Served(r)'
<1>1. TypeOK /\ TypeOK' /\ CoherenceInv /\ CoherenceInv'
  BY NextType, NextCoherent DEF ServiceInv, CoherenceInv
<1> SUFFICES All
  BY <1>1 DEF ServiceInv
<1>2. (\A r \in Req : Kept(r)) => All
  BY DEF Kept
<1>3. ASSUME NEW r \in Req, Baranglist(r) PROVE All
  BY <1>1, <1>3, AwaitGetService, KeyFacts DEF Baranglist, Kept
<1>4. ASSUME NEW r \in Req, NEW b \in Barang, Getsatuan(r, b) PROVE All
  BY <1>1, <1>4, AwaitGetService, KeyFacts DEF Getsatuan, Kept
<1>5. ASSUME NEW r \in Req, NEW b \in Barang,
             \/ Deletebarang(r, b)
             \/ \E i \in Info : Addbarang(r, b, i) \/ Updatebarang(r, b, i)
      PROVE  All
  BY <1>1, <1>5, ItemWrites, WriteItemService DEF Kept
<1>6. ASSUME NEW b \in Barang, NEW s \in Satuan, SatuanCall(b, s) PROVE All
  BY <1>1, <1>2, <1>6, SatuanWrites, WriteSatuanService
<1>9. CASE RedisStep
  BY <1>1, <1>2, <1>9, RedisStepService
<1>10. CASE BaranglistReply
  BY <1>1, <1>10, BaranglistReplies, ReplyService DEF Kept
<1>11. CASE GetsatuanReply
  BY <1>1, <1>11, GetsatuanReplies, ReplyService DEF Kept
<1>12. CASE AddbarangReply
  BY <1>1, <1>12, AddbarangReplies, ReplyService DEF Kept
<1>13. CASE DelReply
  BY <1>1, <1>13, ReplyService DEF DelReply, Kept
<1>14. CASE GetsatuanFails \/ Crash
  BY <1>14, DieService DEF GetsatuanFails, Crash
<1>15. CASE Restart
  BY <1>2, <1>15, FrameService DEF Restart
<1> QED
  BY <1>1, <1>3, <1>4, <1>5, <1>6, <1>9, <1>10, <1>11, <1>12, <1>13,
     <1>14, <1>15 DEF Next, ItemCall, Reply

\* In every reachable state a handler that awaits a command of barang.js has
\* one command in the queue or one reply, and what a read will be given agrees
\* with what its key stood for when it came in.
THEOREM ServiceInvariant == Spec => []ServiceInv
<1>1. ServiceInv /\ UNCHANGED vars => ServiceInv'
  <2> SUFFICES ASSUME ServiceInv, UNCHANGED vars PROVE ServiceInv'
    OBVIOUS
  <2>1. TypeOK'
    BY DEF ServiceInv, CoherenceInv, TypeOK, vars
  <2>2. CoherenceInv'
    BY <2>1, FrameCoherent DEF ServiceInv, vars
  <2> QED
    BY <2>2, FrameService DEF vars, ServiceInv, Kept
<1> QED
  BY InitService, NextService, <1>1, PTL DEF Spec

\* A hit serves what the key stood for when the request came in: no read that
\* starts after a write was answered returns the value before it.
THEOREM RequestTimeService == Spec => []HitServesRequestTime
<1>1. ServiceInv => HitServesRequestTime
  <2> SUFFICES ASSUME ServiceInv, NEW i \in DOMAIN replies,
                      req[replies[i].req].op \in {"baranglist", "getsatuan"},
                      req[replies[i].req].ok, req[replies[i].req].seen # None,
                      replies[i].val # None
               PROVE  Agrees(req[replies[i].req].key, replies[i].val,
                             req[replies[i].req].seen)
    BY DEF HitServesRequestTime
  <2> DEFINE T == [req : Req, val : Value]
  <2>1. replies \in Seq(T)
    BY DEF ServiceInv, CoherenceInv, TypeOK
  <2> HIDE DEF T
  <2>2. PICK r \in Req : r = replies[i].req
    <3>1. replies[i] \in T
      BY <2>1
    <3> QED
      BY <3>1 DEF T
  <2>3. Reads(r) /\ Waiting(r) /\ Served(r)
    BY <2>2 DEF ServiceInv, Reads
  <2>4. PICK c : Awaits(r, c)
    BY <2>3, OpFacts DEF Waiting
  <2>5. Promised(r) = replies[i].val
    <3>1. PICK n \in Nat : AnsweredAt(redisQ, replies, r, n)
      BY <2>2, <2>4 DEF Awaits, AskedAt
    <3>2. n = i
      BY <2>2, <3>1 DEF AnsweredAt
    <3> QED
      BY <3>1, <3>2, PromiseAnswered DEF Promised
  <2> QED
    BY <2>2, <2>3, <2>5 DEF Served
<1> QED
  BY <1>1, ServiceInvariant, PTL

-----------------------------------------------------------------------------
(* The refinement. *)

Shapes == SatuanList \cup [Barang -> Info \cup {None}]

\* What the abstract cache sees of a value: the units of an item as they are,
\* of a list all but the units.
LEMMA ShapeFacts ==
    /\ \A b \in Barang : \A v : Shape(b, v) = v
    /\ \A k : Shape(k, None) = None
    /\ \A k \in Key : \A v \in ValueOf(k) :
        /\ Shape(k, v) \in Shapes \cup {None}
        /\ Shape(k, v) = None <=> v = None
    /\ \A x \in Db, y \in Db : SameItems(x, y) => Shape(ListKey, x) = Shape(ListKey, y)
<1>1. \A b \in Barang : \A v : Shape(b, v) = v
  BY KeyFacts DEF Shape
<1>2. \A k : Shape(k, None) = None
  BY DEF Shape
<1>3. ASSUME NEW x \in Db
      PROVE  /\ Shape(ListKey, x) = [b \in Barang |-> IF x[b] = None THEN None ELSE x[b].info]
             /\ Shape(ListKey, x) \in [Barang -> Info \cup {None}]
  <2>1. x # None
    BY BarangAssumption
  <2>2. \A b \in Barang : x[b] = None \/ x[b].info \in Info
    BY DEF Db, Item
  <2> QED
    BY <2>1, <2>2 DEF Shape
<1>4. ASSUME NEW k \in Key, NEW v \in ValueOf(k)
      PROVE  /\ Shape(k, v) \in Shapes \cup {None}
             /\ Shape(k, v) = None <=> v = None
  <2>1. CASE k = ListKey
    BY <1>2, <1>3, <2>1, BarangAssumption DEF ValueOf, Shapes
  <2>2. CASE k # ListKey
    BY <1>1, <2>2 DEF ValueOf, Shapes, Key
  <2> QED
    BY <2>1, <2>2
<1>5. ASSUME NEW x \in Db, NEW y \in Db, SameItems(x, y)
      PROVE  Shape(ListKey, x) = Shape(ListKey, y)
  <2>1. \A b \in Barang : /\ x[b] = None <=> y[b] = None
                          /\ x[b] # None => x[b].info = y[b].info
    BY <1>5 DEF SameItems
  <2>2. [b \in Barang |-> IF x[b] = None THEN None ELSE x[b].info]
          = [b \in Barang |-> IF y[b] = None THEN None ELSE y[b].info]
    BY <2>1
  <2> QED
    BY <1>3, <2>2
<1> QED
  BY <1>1, <1>2, <1>3, <1>4, <1>5

\* The mapped state has the abstract types.
LEMMA MappedTypes ==
    /\ TypeOK => Truths \in [Key -> Shapes \cup {None}]
    /\ TypeOK' => Truths' \in [Key -> Shapes \cup {None}]
    /\ TypeOK => Entries \in [Key -> Shapes \cup {None}]
    /\ TypeOK' => Entries' \in [Key -> Shapes \cup {None}]
<1>1. ASSUME NEW k \in Key
      PROVE  /\ TypeOK => Snapshot(k) \in ValueOf(k)
             /\ TypeOK' => Snapshot(k)' \in ValueOf(k)
  BY BarangAssumption DEF TypeOK, Snapshot, ValueOf, Key, Db, Item
<1> QED
  BY <1>1, ShapeFacts, FutureOfKind DEF Truths, Entries

\* The mapped call of a request, and when it is idle.
LEMMA CallsFacts ==
    ASSUME ServiceInv, NEW r \in Req
    PROVE  /\ Reads(r) => /\ req[r].key \in Key
                          /\ Calls[r].key = req[r].key
                          /\ Calls[r].val = Shape(req[r].key, Promised(r))
           /\ Calls[r] = Cached!Idle <=> ~Reads(r)
<1>1. Reads(r) => req[r].key \in Key /\ req[r].key # None
  BY OpFacts, BarangAssumption DEF ServiceInv, Waiting
<1>2. Calls[r] = [key |-> IF Reads(r) THEN req[r].key ELSE None,
                  val |-> IF Reads(r) THEN Shape(req[r].key, Promised(r)) ELSE None]
  BY DEF Calls
<1> QED
  BY <1>1, <1>2 DEF Cached!Idle

\* How the mapped state changes.
LEMMA TruthsSame ==
    ASSUME db' = db
    PROVE  Truths' = Truths
  BY DEF Truths, Snapshot

LEMMA EntriesSame ==
    ASSUME \A x \in Key : Future(redisQ, x)' = Future(redisQ, x)
    PROVE  Entries' = Entries
  BY DEF Entries

LEMMA CallKept ==
    ASSUME NEW r \in Req, Kept(r) \/ (~Reads(r) /\ ~Reads(r)')
    PROVE  Calls'[r] = Calls[r]
<1>1. CASE Kept(r)
  BY <1>1 DEF Kept, Calls, Reads
<1>2. CASE ~Reads(r) /\ ~Reads(r)'
  BY <1>2 DEF Calls
<1> QED
  BY <1>1, <1>2

LEMMA CallsSame ==
    ASSUME \A r \in Req : Kept(r) \/ (~Reads(r) /\ ~Reads(r)')
    PROVE  Calls' = Calls
<1>1. \A r \in Req : Calls'[r] = Calls[r]
  BY CallKept
<1>2. Calls' = [r \in Req |-> Calls'[r]] /\ Calls = [r \in Req |-> Calls[r]]
  BY DEF Calls
<1> QED
  BY <1>1, <1>2

LEMMA CallsOne ==
    ASSUME NEW r \in Req, \A s \in Req : s # r => Kept(s)
    PROVE  \A c : Calls'[r] = c => Calls' = [Calls EXCEPT ![r] = c]
<1>1. \A s \in Req : s # r => Calls'[s] = Calls[s]
  BY CallKept
<1>2. DOMAIN Calls = Req /\ Calls' = [s \in Req |-> Calls'[s]]
  BY DEF Calls
<1> QED
  BY <1>1, <1>2

\* A read that comes in reads the abstract cache at that moment.
LEMMA AwaitGetReads ==
    ASSUME ServiceInv, TypeOK', NEW r \in Req, Free(r),
           NEW o \in {"baranglist", "getsatuan"}, NEW k \in Key, AwaitGet(r, o, k),
           o = "baranglist" => k = ListKey, UNCHANGED <<db, cache, replies, lost>>
    PROVE  Cached!Read(r, k)
<1>1. /\ Reads(r)' /\ req'[r].key = k /\ Promised(r)' = Future(redisQ, k)
      /\ \A s \in Req : s # r => Kept(s)
      /\ \A x \in Key : Future(redisQ, x)' = Future(redisQ, x)
  BY AwaitGetService
<1>2. Truths' = Truths /\ Entries' = Entries
  BY <1>1, TruthsSame, EntriesSame
<1>3. Calls[r] = Cached!Idle
  BY CallsFacts, OpFacts
<1>4. Calls'[r] = [key |-> k, val |-> Entries[k]]
  <2>1. Entries[k] = Shape(k, Future(redisQ, k))
    BY DEF Entries
  <2>2. Calls'[r] = [key |-> IF Reads(r)' THEN req'[r].key ELSE None,
                     val |-> IF Reads(r)' THEN Shape(req'[r].key, Promised(r)') ELSE None]
    BY DEF Calls, Shape
  <2> QED
    BY <1>1, <2>1, <2>2
<1>5. Calls' = [Calls EXCEPT ![r] = [key |-> k, val |-> Entries[k]]]
  BY <1>1, <1>4, CallsOne
<1> QED
  BY <1>2, <1>3, <1>5 DEF Cached!Read

\* The end of a read: after a miss the key is filled, if it stands for anything.
LEMMA ReplyAnswers ==
    ASSUME ServiceInv, TypeOK', NEW o \in {"baranglist", "getsatuan"}, Delivered(o),
           NEW r, r = Head(replies).req, NEW how \in {NoCall, Hung}, Settle(r, how),
           replies' = Tail(replies), UNCHANGED <<db, cache, lost>>,
           NEW k, k = req[r].key,
           \/ Head(replies).val # None /\ UNCHANGED redisQ
           \/ /\ Head(replies).val = None /\ Snapshot(k) # None
              /\ Issue(Set(k, Snapshot(k)))
              /\ \E c \in Command : c.waiter = None /\ Issue(c)
    PROVE  r \in Req /\ Cached!Answer(r)
<1>1. /\ r \in Req /\ req[r].op = o /\ ~Reads(r)'
      /\ Reads(r) => /\ Promised(r) = Head(replies).val
                     /\ Promised(r) \in ValueOf(k) /\ k \in Key
      /\ \A s \in Req : s # r => Kept(s)
  BY ReplyService
<1>2. /\ Reads(r) /\ k \in Key /\ Promised(r) = Head(replies).val
      /\ Promised(r) \in ValueOf(k)
  BY <1>1 DEF Reads
<1>3. /\ Calls[r].key = k /\ Calls[r] # Cached!Idle
      /\ Calls[r].val = None <=> Head(replies).val = None
  <2>1. Calls[r].key = k /\ Calls[r].val = Shape(k, Promised(r)) /\ Calls[r] # Cached!Idle
    BY <1>1, <1>2, CallsFacts
  <2> QED
    BY <1>2, <2>1, ShapeFacts
<1>4. TypeOK /\ Truths' = Truths /\ lost' = lost
  BY TruthsSame DEF ServiceInv, CoherenceInv
<1>5. Truths[k] = Shape(k, Snapshot(k)) /\ (Truths[k] = None <=> Snapshot(k) = None)
  BY <1>2, <1>4, ShapeFacts, SnapshotType DEF Truths
<1>6. Entries' = IF Calls[r].val = None /\ Truths[k] # None
                 THEN [Entries EXCEPT ![k] = Truths[k]] ELSE Entries
  <2>1. CASE Head(replies).val # None
    <3>1. \A x \in Key : Future(redisQ, x)' = Future(redisQ, x)
      BY <2>1 DEF Future
    <3> QED
      BY <1>3, <2>1, <3>1, EntriesSame
  <2>2. CASE Head(replies).val = None
    <3>1. \A x \in Key :
            Future(redisQ, x)' = IF x = k THEN Snapshot(k) ELSE Future(redisQ, x)
      BY <1>2, <1>4, <2>2, SetNow
    <3>2. \A x \in Key : Entries'[x] = IF x = k THEN Truths[k] ELSE Entries[x]
      <4>1. \A x \in Key : /\ Entries'[x] = Shape(x, Future(redisQ, x)')
                           /\ Entries[x] = Shape(x, Future(redisQ, x))
        BY DEF Entries, Shape
      <4> QED
        BY <1>5, <3>1, <4>1
    <3>3. DOMAIN Entries = Key /\ Entries' = [x \in Key |-> Entries'[x]]
      BY DEF Entries
    <3>4. Entries' = [Entries EXCEPT ![k] = Truths[k]]
      BY <3>2, <3>3
    <3> QED
      BY <1>3, <1>5, <2>2, <3>4
  <2> QED
    BY <2>1, <2>2
<1>7. Calls' = [Calls EXCEPT ![r] = Cached!Idle]
  <2>1. Calls'[r] = Cached!Idle
    BY <1>1 DEF Calls, Cached!Idle
  <2> QED
    BY <1>1, <2>1, CallsOne
<1> QED
  BY <1>1, <1>3, <1>4, <1>6, <1>7 DEF Cached!Answer

\* A write of an item empties the list entry; what stands under the key of the
\* item is as it was, is none, or has no entry yet.
LEMMA WriteItemWrites ==
    ASSUME ServiceInv, TypeOK', NEW r \in Req, Free(r), NEW b \in Barang,
           NEW item \in Item \cup {None},
           NEW o \in {"addbarang", "deletebarang", "updatebarang"},
           WriteItem(r, o, b, item),
           \/ b \notin used
           \/ item = None
           \/ db[b] # None /\ item.satuan = db[b].satuan
    PROVE  Cached!Write
<1>1. /\ \A s \in Req : s # r => Kept(s)
      /\ ~Reads(r) /\ ~Reads(r)'
      /\ \A x \in Key : Future(redisQ, x)' =
            IF x = ListKey THEN None ELSE Future(redisQ, x)
  BY WriteItemService, OpFacts
<1>2. /\ TypeOK /\ db' = [db EXCEPT ![b] = item] /\ db \in [Barang -> Item \cup {None}]
      /\ lost' = lost \ {ListKey}
  BY DEF ServiceInv, CoherenceInv, TypeOK, Db, WriteItem
<1>3. Calls' = Calls
  BY <1>1, CallsSame
<1>4. Entries'[ListKey] = None
  BY <1>1, ShapeFacts, KeyFacts DEF Entries, Shape
<1>5. ASSUME NEW a \in Barang
      PROVE  /\ Entries'[a] = Entries[a] /\ a \in Key
             /\ Truths[a] = IF db[a] = None THEN None ELSE db[a].satuan
             /\ Truths'[a] = IF db'[a] = None THEN None ELSE db'[a].satuan
  BY <1>1, KeyFacts DEF Entries, Truths, Snapshot, Shape
<1>6. b \notin used => Entries[b] = None
  <2> SUFFICES ASSUME b \notin used PROVE Entries[b] = None
    OBVIOUS
  <2>1. cache[b] = None /\ ~Pending(redisQ, b)
    BY DEF ServiceInv, CoherenceInv, Untouched
  <2>2. Future(redisQ, b) = None
    BY <2>1, OutcomeEntry DEF Future
  <2> QED
    BY <2>2, ShapeFacts, KeyFacts DEF Entries
<1>7. ASSUME NEW x \in Key
      PROVE  \/ Entries'[x] \in {None, Truths'[x]}
             \/ Entries'[x] = Entries[x] /\ Truths'[x] \in {Truths[x], None}
  <2>1. CASE x = ListKey
    BY <1>4, <2>1
  <2>2. CASE x = b
    <3>1. CASE b \notin used
      BY <1>5, <1>6, <2>2, <3>1
    <3>2. CASE item = None
      BY <1>2, <1>5, <2>2, <3>2
    <3>3. CASE item # None /\ db[b] # None /\ item.satuan = db[b].satuan
      BY <1>2, <1>5, <2>2, <3>3
    <3> QED
      BY <3>1, <3>2, <3>3
  <2>3. CASE x # ListKey /\ x # b
    BY <1>2, <1>5, <2>3 DEF Key
  <2> QED
    BY <2>1, <2>2, <2>3
<1> QED
  BY <1>2, <1>3, <1>4, <1>7, MappedTypes, KeyFacts DEF Cached!Write, Cached!Current, Shapes

\* A write of units replaces the entry; the abstract list does not see it.
LEMMA WriteSatuanWrites ==
    ASSUME ServiceInv, TypeOK', NEW b \in Barang, NEW list \in SatuanList,
           db[b] # None, WriteSatuan(b, list)
    PROVE  Cached!Write
<1>1. /\ \A s \in Req : Kept(s)
      /\ \A x \in Key : Future(redisQ, x)' = IF x = b THEN list ELSE Future(redisQ, x)
  BY WriteSatuanService
<1>2. /\ TypeOK /\ db' = [db EXCEPT ![b].satuan = list] /\ db \in Db /\ db' \in Db
      /\ lost' = lost \ {b}
  BY DEF ServiceInv, CoherenceInv, TypeOK, WriteSatuan
<1>3. /\ db'[b] # None /\ db'[b].satuan = list /\ db'[b].info = db[b].info
      /\ \A a \in Barang : a # b => db'[a] = db[a]
  <2>1. db[b] \in Item /\ db'[b] = [db[b] EXCEPT !.satuan = list]
    BY <1>2 DEF Db
  <2>2. db'[b] \in Item /\ db'[b].satuan = list /\ db'[b].info = db[b].info
    BY <2>1 DEF Item
  <2> QED
    BY <1>2, <2>2, BarangAssumption DEF Db
<1>4. Calls' = Calls
  BY <1>1, CallsSame
<1>5. Entries'[b] = list /\ Truths'[b] = list /\ b \in Key
  BY <1>1, <1>3, KeyFacts DEF Entries, Truths, Snapshot, Shape
<1>6. ASSUME NEW x \in Key, x # b
      PROVE  Entries'[x] = Entries[x] /\ Truths'[x] = Truths[x]
  <2>1. Entries'[x] = Entries[x]
    BY <1>1, <1>6 DEF Entries, Shape
  <2>2. CASE x = ListKey
    <3>1. SameItems(db', db)
      BY <1>3 DEF SameItems
    <3>2. Shape(ListKey, db') = Shape(ListKey, db)
      BY <1>2, <3>1, ShapeFacts
    <3> QED
      BY <2>1, <2>2, <3>2 DEF Truths, Snapshot, Shape
  <2>3. CASE x # ListKey
    BY <1>3, <1>6, <2>1, <2>3 DEF Truths, Snapshot, Shape, Key
  <2> QED
    BY <2>2, <2>3
<1> QED
  BY <1>2, <1>4, <1>5, <1>6, MappedTypes DEF Cached!Write, Cached!Current, Shapes

\* The list that addbarang stores after its del is a write of its own.
LEMMA AddbarangReplyWrites ==
    ASSUME ServiceInv, TypeOK', AddbarangReply
    PROVE  Cached!Write
<1>1. /\ TypeOK /\ Issue(Set(ListKey, Snapshot(ListKey))) /\ ListKey \in Key
      /\ Delivered("addbarang") /\ Settle(Head(replies).req, NoCall)
      /\ replies' = Tail(replies) /\ UNCHANGED <<db, cache, lost>>
      /\ \E c \in Command : c.waiter = None /\ Issue(c)
  BY AddbarangReplies, KeyFacts DEF ServiceInv, CoherenceInv
<1>2. PICK r : r = Head(replies).req
  OBVIOUS
<1>3. /\ r \in Req /\ req[r].op = "addbarang" /\ ~Reads(r)'
      /\ \A s \in Req : s # r => Kept(s)
  BY <1>1, <1>2, ReplyService
<1>4. Calls' = Calls
  BY <1>3, CallsSame DEF Reads
<1>5. \A x \in Key : Future(redisQ, x)' =
        IF x = ListKey THEN Snapshot(ListKey) ELSE Future(redisQ, x)
  BY <1>1, SetNow
<1>6. Truths' = Truths /\ \A x \in Key :
        Entries'[x] = IF x = ListKey THEN Truths[ListKey] ELSE Entries[x]
  BY <1>1, <1>5, TruthsSame DEF Entries, Truths, Shape
<1> QED
  BY <1>1, <1>4, <1>6, MappedTypes DEF Cached!Write, Cached!Current, Shapes

\* The end of a delete or an update changes nothing that is mapped.
LEMMA DelReplySame ==
    ASSUME ServiceInv, TypeOK', DelReply
    PROVE  UNCHANGED <<Truths, Entries, Calls, lost>>
<1>1. PICK r : r = Head(replies).req
  OBVIOUS
<1>2. /\ r \in Req /\ req[r].op \in {"deletebarang", "updatebarang"} /\ ~Reads(r)'
      /\ \A s \in Req : s # r => Kept(s)
  BY <1>1, ReplyService DEF DelReply
<1>3. Calls' = Calls
  BY <1>2, CallsSame DEF Reads
<1>4. \A x \in Key : Future(redisQ, x)' = Future(redisQ, x)
  BY DEF DelReply, Future
<1> QED
  BY <1>3, <1>4, TruthsSame, EntriesSame DEF DelReply

\* The death of the process loses the reads in flight, and the keys it was
\* writing.
LEMMA DieDies ==
    ASSUME ServiceInv, TypeOK', Die
    PROVE  Cached!Die
<1>1. /\ \A s \in Req : ~Reads(s)'
      /\ \A x \in Key \ lost' : Future(redisQ, x)' = Future(redisQ, x)
  BY DieService
<1>2. Truths' = Truths /\ lost \subseteq lost' /\ lost' \subseteq Key
  BY TruthsSame DEF Die, ServiceInv, CoherenceInv, TypeOK
<1>3. \A x \in Key \ lost' : Entries'[x] = Entries[x]
  BY <1>1 DEF Entries, Shape
<1>4. Calls' = [r \in Req |-> Cached!Idle]
  BY <1>1 DEF Calls, Cached!Idle
<1> QED
  BY <1>2, <1>3, <1>4, MappedTypes DEF Cached!Die, Shapes

\* With commands queued, requests overlapping and the process dying, items and
\* units behave like a cache that is read and written in one step: every step
\* is a read, an answer, a write or a death of ReadThrough, or changes nothing
\* there.
THEOREM BarangImplements == Spec => ImplementsReadThrough
<1> DEFINE mapped == <<Truths, Entries, Calls, lost>>
<1>1. Init => Cached!Init
  <2> SUFFICES ASSUME Init PROVE Cached!Init
    OBVIOUS
  <2>1. Truths \in [Key -> Shapes \cup {None}] /\ lost = {}
    BY InitType, MappedTypes DEF Init
  <2>2. Entries = [k \in Key |-> None]
    <3>1. \A k \in Key : ~Pending(redisQ, k) /\ cache[k] = None
      BY DEF Init, Pending
    <3> QED
      BY <3>1, OutcomeEntry, ShapeFacts DEF Entries, Future
  <2>3. Calls = [r \in Req |-> Cached!Idle]
    BY DEF Init, Calls, NoCall, Reads, Cached!Idle
  <2> QED
    BY <2>1, <2>2, <2>3 DEF Cached!Init, Shapes
<1>2. ServiceInv /\ [Next]_vars => [Cached!Next]_mapped
  <2> SUFFICES ASSUME ServiceInv, [Next]_vars
               PROVE  [Cached!Next]_mapped
    OBVIOUS
  <2>1. TypeOK /\ TypeOK' /\ CoherenceInv
    BY NextType DEF ServiceInv, CoherenceInv, TypeOK, vars
  <2>2. ASSUME NEW r \in Req, Baranglist(r) PROVE Cached!Next
    BY <2>1, <2>2, AwaitGetReads, KeyFacts DEF Baranglist, Cached!Next
  <2>3. ASSUME NEW r \in Req, NEW b \in Barang, Getsatuan(r, b) PROVE Cached!Next
    BY <2>1, <2>3, AwaitGetReads, KeyFacts DEF Getsatuan, Cached!Next
  <2>4. ASSUME NEW r \in Req, NEW b \in Barang,
               \/ Deletebarang(r, b)
               \/ \E i \in Info : Addbarang(r, b, i) \/ Updatebarang(r, b, i)
        PROVE  Cached!Next
    BY <2>1, <2>4, ItemWrites, WriteItemWrites DEF Cached!Next
  <2>5. ASSUME NEW b \in Barang, NEW s \in Satuan, SatuanCall(b, s) PROVE Cached!Next
    BY <2>1, <2>5, SatuanWrites, WriteSatuanWrites DEF Cached!Next
  <2>6. CASE BaranglistReply
    <3>1. PICK r, k : r = Head(replies).req /\ k = req[r].key
      OBVIOUS
    <3>2. k = ListKey /\ Snapshot(ListKey) # None
      <4>1. r \in Req /\ req[r].op = "baranglist"
        BY <2>1, <2>6, <3>1, DeliveredType DEF BaranglistReply
      <4> QED
        BY <2>1, <3>1, <4>1, ListSnapshot DEF ServiceInv, Waiting, Free, Writes
    <3> QED
      BY <2>1, <2>6, <3>1, <3>2, BaranglistReplies, ReplyAnswers DEF Cached!Next
  <2>7. CASE GetsatuanReply
    <3>1. PICK r, k : r = Head(replies).req /\ k = req[r].key
      OBVIOUS
    <3> QED
      BY <2>1, <2>7, <3>1, GetsatuanReplies, ReplyAnswers DEF Cached!Next
  <2>8. CASE AddbarangReply
    BY <2>1, <2>8, AddbarangReplyWrites DEF Cached!Next
  <2>9. CASE DelReply
    BY <2>1, <2>9, DelReplySame
  <2>10. CASE GetsatuanFails \/ Crash
    BY <2>1, <2>10, DieDies DEF GetsatuanFails, Crash, Cached!Next
  <2>11. CASE RedisStep
    BY <2>1, <2>11, RedisStepService, TruthsSame, EntriesSame, CallsSame DEF RedisStep
  <2>12. CASE Restart \/ UNCHANGED vars
    <3>1. UNCHANGED <<db, cache, redisQ, replies, req, lost>>
      BY <2>12 DEF Restart, vars
    <3> QED
      BY <3>1, FrameService, TruthsSame, EntriesSame, CallsSame
  <2> QED
    BY <2>2, <2>3, <2>4, <2>5, <2>6, <2>7, <2>8, <2>9, <2>10, <2>11, <2>12
    DEF Next, ItemCall, Reply
<1> QED
  BY <1>1, <1>2, ServiceInvariant, PTL DEF Spec, ImplementsReadThrough, Cached!Spec

===============================================================================
