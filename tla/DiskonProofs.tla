----------------------------- MODULE DiskonProofs -----------------------------
(***************************************************************************)
(* Proofs about Diskon, for any branches, managers, names, discounts,      *)
(* items and crashes: names are unique over all branches, the entries in   *)
(* Redis are coherent up to the keys that the handlers leave behind, and   *)
(* the lists behave like those of the abstract cache.                      *)
(***************************************************************************)
EXTENDS Diskon, RedisConnectionProofs

(* The inductive invariant *)

Stored == Table \cup {None}

\* The connection of this module.
Wired == ConnectionType(Cabang, Stored, Cabang)

\* A queue of commands that store under a key what belongs there.
GoodQueue(q) == \A i \in DOMAIN q : q[i].val \in Entry(q[i].key)

GoodEntries == GoodQueue(redisQ) /\ \A c \in Cabang : cache[c] \in Entry(c)

\* A discount has an id that was handed out.
GoodRows == \A d \in DiskonId : diskon[d] # None => d \in used

\* A manager in the state k adds items to an id that was handed out.
GoodClient(ids, k) == k.pc = "add" => k.target \in ids

Clients == \A c \in Cabang : GoodClient(used, client[c])

IInv == TypeOK /\ GoodRows /\ NamaUnik /\ Clients /\ DiskonCoherent

-----------------------------------------------------------------------------
(* Types *)

ServerType ==
    /\ diskon \in Table
    /\ used \in SUBSET DiskonId
    /\ client \in [Cabang -> Client]
    /\ reading \in [Cabang -> BOOLEAN]
    /\ up \in BOOLEAN
    /\ lost \in SUBSET Cabang

LEMMA AllTyped ==
    /\ TypeOK <=> ServerType /\ Wired /\ GoodEntries
    /\ TypeOK' <=> ServerType' /\ Wired' /\ GoodEntries'
<1>1. TypeOK <=> ServerType /\ Wired /\ GoodEntries
  BY DEF TypeOK, ServerType, Wired, ConnectionType, Stored, Command, Commands,
         GoodEntries, GoodQueue
<1>2. TypeOK' <=> ServerType' /\ Wired' /\ GoodEntries'
  BY DEF TypeOK, ServerType, Wired, ConnectionType, Stored, Command, Commands,
         GoodEntries, GoodQueue
<1> QED
  BY <1>1, <1>2

LEMMA Parts ==
    ASSUME ServerType', Wired', GoodEntries', GoodRows', NamaUnik', Clients',
           DiskonCoherent'
    PROVE  IInv'
  BY AllTyped DEF IInv

LEMMA ListingType ==
    ASSUME NEW t \in Table, NEW c \in Cabang
    PROVE  Listing(t, c) \in Table /\ Listing(t, c) \in Entry(c)
<1>1. Listing(t, c) \in Table
  BY DEF Listing, Table
<1>2. \A d \in DiskonId : Listing(t, c)[d] # None => Listing(t, c)[d].cabang = c
  BY DEF Listing
<1> QED
  BY <1>1, <1>2 DEF Entry

LEMMA QueueAppend ==
    ASSUME NEW S, NEW q \in Seq(S), NEW k \in S, GoodQueue(q), k.val \in Entry(k.key)
    PROVE  GoodQueue(Append(q, k))
  BY DEF GoodQueue

LEMMA QueueTail ==
    ASSUME NEW S, NEW q \in Seq(S), q # <<>>, GoodQueue(q)
    PROVE  GoodQueue(Tail(q)) /\ Head(q).val \in Entry(Head(q).key)
<1>1. /\ \A i \in DOMAIN Tail(q) : i + 1 \in DOMAIN q /\ Tail(q)[i] = q[i + 1]
      /\ Head(q) = q[1] /\ 1 \in DOMAIN q
  OBVIOUS
<1> QED
  BY <1>1 DEF GoodQueue

-----------------------------------------------------------------------------
(* Rows and managers *)

\* A row of c that changes is in no list but that of c.
LEMMA ListingOther ==
    ASSUME diskon \in Table, diskon' \in Table, NEW d \in DiskonId, NEW r, NEW c,
           diskon' = [diskon EXCEPT ![d] = r],
           diskon[d] # None => diskon[d].cabang = c, r # None => r.cabang = c
    PROVE  \A x \in Cabang \ {c} : Listing(diskon', x) = Listing(diskon, x)
<1>1. diskon'[d] = r /\ \A e \in DiskonId : e # d => diskon'[e] = diskon[e]
  BY DEF Table
<1> QED
  BY <1>1 DEF Listing

\* The managers, when at most the one of c goes on, to k.
LEMMA ClientStep ==
    ASSUME IInv, used \subseteq used',
           NEW c \in Cabang, NEW k \in Client, GoodClient(used, k),
           client' = [client EXCEPT ![c] = k]
    PROVE  Clients' /\ client' \in [Cabang -> Client]
<1>1. client \in [Cabang -> Client]
  BY DEF IInv, TypeOK
<1>2. \A x \in Cabang : client'[x] = IF x = c THEN k ELSE client[x]
  BY <1>1
<1>3. \A x \in Cabang : GoodClient(used, client'[x])
  BY <1>2 DEF IInv, Clients
<1>4. \A x \in Cabang : GoodClient(used', client'[x])
  BY <1>3 DEF GoodClient
<1> QED
  BY <1>1, <1>4 DEF Clients

LEMMA ClientsLeft ==
    ASSUME IInv, used \subseteq used', client' = client
    PROVE  Clients'
  BY DEF IInv, Clients, GoodClient

\* One row changes, keeping the name if it had one, or taking a name that is
\* nobody's.
LEMMA RowStep ==
    ASSUME IInv, NEW d \in DiskonId, NEW r \in Row \cup {None},
           diskon' = [diskon EXCEPT ![d] = r],
           used \subseteq used', r # None => d \in used',
           r # None /\ diskon[d] # None => r.nama = diskon[d].nama,
           r # None /\ diskon[d] = None => Bernama(r.nama) = {}
    PROVE  diskon' \in Table /\ GoodRows' /\ NamaUnik'
<1>1. diskon \in Table
  BY DEF IInv, TypeOK
<1>2. /\ diskon' \in Table /\ diskon'[d] = r
      /\ \A e \in DiskonId : e # d => diskon'[e] = diskon[e]
  BY <1>1 DEF Table
<1>3. GoodRows'
  BY <1>2 DEF GoodRows, IInv
<1>4. NamaUnik'
  BY <1>2 DEF IInv, NamaUnik, Ids, Bernama
<1> QED
  BY <1>2, <1>3, <1>4

LEMMA RowsLeft ==
    ASSUME IInv, UNCHANGED <<diskon, used>>
    PROVE  GoodRows' /\ NamaUnik'
  BY DEF IInv, GoodRows, NamaUnik, Ids

-----------------------------------------------------------------------------
(* The connection *)

\* Nothing is sent, and no discount changes.
LEMMA QuietEntries ==
    ASSUME IInv, UNCHANGED <<diskon, lost, cache, redisQ, replies>>
    PROVE  Wired' /\ GoodEntries' /\ DiskonCoherent'
<1>1. Wired' /\ GoodEntries'
  BY AllTyped DEF IInv, Wired, ConnectionType, GoodEntries, GoodQueue
<1>2. DiskonCoherent'
  BY DEF IInv, DiskonCoherent
<1> QED
  BY <1>1, <1>2

\* del and set of the key of c; another list that changes is among those missed.
LEMMA RefreshEntries ==
    ASSUME IInv, NEW c \in Cabang, Refresh(c), diskon' \in Table
    PROVE  Wired' /\ GoodEntries' /\ DiskonCoherent'
<1> DEFINE v == Listing(diskon', c)
           d == Del(c, None)
           s == Set(c, v)
<1>1. v \in Stored /\ v \in Entry(c) /\ None \in Stored /\ None \in Entry(c)
  BY ListingType DEF Stored, Entry
<1>2. /\ d \in Commands(Cabang, Stored, Cabang) /\ d.key = c /\ d.val = None
      /\ s \in Commands(Cabang, Stored, Cabang) /\ s.key = c /\ s.val = v
  BY <1>1 DEF Del, Set, Commands
<1>3. /\ DelThenSet(c, v) /\ redisQ' = Append(Append(redisQ, d), s)
      /\ UNCHANGED <<cache, replies>> /\ lost' = (lost \ {c}) \cup Missed(c)
  BY DEF Refresh, DelThenSet
<1> HIDE DEF v, d, s
<1>4. Wired /\ GoodEntries
  BY AllTyped DEF IInv
<1>5. /\ Wired' /\ WillHold(redisQ', cache'[c], c, v)
      /\ \A x, w : x # c /\ WillHold(redisQ, cache[x], x, w) =>
            WillHold(redisQ', cache'[x], x, w)
  BY <1>1, <1>3, <1>4, DelThenSetHolds DEF Wired
<1>6. GoodEntries'
  <2> DEFINE q == Append(redisQ, d)
  <2>1. redisQ \in Seq(Commands(Cabang, Stored, Cabang)) /\ GoodQueue(redisQ)
    BY <1>4 DEF Wired, ConnectionType, GoodEntries
  <2>2. q \in Seq(Commands(Cabang, Stored, Cabang)) /\ GoodQueue(q)
    BY <1>1, <1>2, <2>1, QueueAppend
  <2> HIDE DEF q
  <2>3. GoodQueue(Append(q, s))
    BY <1>1, <1>2, <2>2, QueueAppend
  <2> QED
    BY <1>3, <1>4, <2>3 DEF GoodEntries, q
<1>7. DiskonCoherent'
  <2>1. ASSUME NEW x \in Cabang, x \notin lost', x # c
        PROVE  WillHold(redisQ', cache'[x], x, Listing(diskon', x))
    <3>1. x \notin lost /\ Listing(diskon', x) = Listing(diskon, x)
      BY <1>3, <2>1 DEF Missed
    <3>2. WillHold(redisQ, cache[x], x, Listing(diskon, x))
      BY <3>1 DEF IInv, DiskonCoherent
    <3>3. WillHold(redisQ', cache'[x], x, Listing(diskon, x))
      BY <1>5, <2>1, <3>2
    <3> QED
      BY <3>1, <3>3
  <2> QED
    BY <1>5, <2>1 DEF DiskonCoherent, v
<1> QED
  BY <1>5, <1>6, <1>7

\* One command, a get or a write of c that leaves nothing or the list of c.
LEMMA IssueEntries ==
    ASSUME IInv, NEW c \in Cabang, NEW k \in Commands(Cabang, Stored, Cabang),
           k.key = c, Issue(k), k.val \in {None, Listing(diskon', c)},
           cache' = cache, replies' \in Seq([req : Cabang, val : Stored]),
           diskon' \in Table,
           IF k.op = "get" THEN UNCHANGED <<diskon, lost>>
           ELSE /\ lost \ {c} \subseteq lost'
                /\ c \in lost' => c \in lost
                /\ \A x \in Cabang \ {c} :
                      Listing(diskon', x) = Listing(diskon, x)
    PROVE  Wired' /\ GoodEntries' /\ DiskonCoherent'
<1>1. Wired /\ GoodEntries
  BY AllTyped DEF IInv
<1>2. /\ Wired'
      /\ \A x, w : /\ WillHold(redisQ, cache[x], x, w)
                   /\ ~IsWrite(k, x) \/ k.val \in {None, w}
                   => WillHold(redisQ', cache'[x], x, w)
  BY <1>1, IssueHolds DEF Wired
<1>3. redisQ \in Seq(Commands(Cabang, Stored, Cabang)) /\ redisQ' = Append(redisQ, k)
  BY <1>1 DEF Wired, ConnectionType, Issue
<1>4. GoodEntries'
  <2>1. k.val \in Entry(k.key)
    BY ListingType DEF Entry
  <2> QED
    BY <1>1, <1>3, <2>1, QueueAppend DEF GoodEntries
<1>5. DiskonCoherent'
  <2>1. ASSUME k.op = "get" PROVE DiskonCoherent'
    BY <1>2, <2>1 DEF IInv, DiskonCoherent, IsWrite
  <2>2. ASSUME k.op # "get", NEW x \in Cabang, x \notin lost'
        PROVE  WillHold(redisQ', cache'[x], x, Listing(diskon', x))
    <3>1. CASE x = c
      <4>1. IsWrite(k, c)
        BY <2>2 DEF IsWrite
      <4> DEFINE w == Listing(diskon', c)
      <4>2. k.val \in {None, w}
        OBVIOUS
      <4> HIDE DEF w
      <4>3. WillHold(redisQ', cache[c], c, w)
        BY <1>3, <4>1, <4>2, AppendWrite
      <4> QED
        BY <3>1, <4>3 DEF w
    <3>2. CASE x # c
      <4>1. ~IsWrite(k, x) /\ x \notin lost /\ Listing(diskon', x) = Listing(diskon, x)
        BY <2>2, <3>2 DEF IsWrite
      <4> QED
        BY <1>2, <4>1 DEF IInv, DiskonCoherent
    <3> QED
      BY <3>1, <3>2
  <2> QED
    BY <2>1, <2>2 DEF DiskonCoherent
<1> QED
  BY <1>2, <1>4, <1>5

-----------------------------------------------------------------------------
(* Adding a discount *)

\* A manager goes on, and nothing else happens.
LEMMA OnlyClient ==
    ASSUME IInv, NEW c \in Cabang, NEW k \in Client, GoodClient(used, k),
           client' = [client EXCEPT ![c] = k],
           UNCHANGED <<diskon, used, reading, up, lost, connection>>
    PROVE  IInv'
<1>1. UNCHANGED <<diskon, used, reading, up, lost, cache, redisQ, replies>>
  BY DEF connection
<1>2. GoodRows' /\ NamaUnik'
  BY <1>1, RowsLeft
<1>3. Clients' /\ client' \in [Cabang -> Client]
  <2>1. used \subseteq used'
    BY <1>1
  <2> QED
    BY <1>1, <2>1, RowsLeft, ClientStep
<1>4. Wired' /\ GoodEntries' /\ DiskonCoherent'
  BY <1>1, QuietEntries
<1>5. ServerType'
  BY <1>1, <1>3, AllTyped DEF IInv, ServerType
<1> QED
  BY <1>2, <1>3, <1>4, <1>5, Parts

LEMMA IdleClient ==
    Idle \in Client /\ GoodClient(used, Idle)
  BY DEF Idle, Client, GoodClient

LEMMA TambahdiskonStep ==
    ASSUME IInv, NEW c \in Cabang, NEW n \in Nama, NEW angka \in BOOLEAN,
           NEW pilihan \in SUBSET Barang, Tambahdiskon(c, n, angka, pilihan)
    PROVE  IInv'
<1> DEFINE k == [Idle EXCEPT !.pc = "find", !.nama = n, !.todo = pilihan]
<1>1. c \in Cabang /\ n \in Nama
  OBVIOUS
<1>2. k \in Client /\ GoodClient(used, k)
  BY <1>1 DEF Client, Idle, GoodClient
<1>3. client' = [client EXCEPT ![c] = k] /\ Refresh(c) /\ UNCHANGED <<reading, up>>
  BY DEF Tambahdiskon
<1>4. lost' \in SUBSET Cabang
  BY <1>3 DEF Refresh, Missed, IInv, TypeOK
<1> HIDE DEF k
<1>5. ASSUME UNCHANGED <<diskon, used>> PROVE IInv'
  <2>1. GoodRows' /\ NamaUnik' /\ Clients' /\ client' \in [Cabang -> Client]
    BY <1>2, <1>3, <1>5, RowsLeft, ClientStep
  <2>2. Wired' /\ GoodEntries' /\ DiskonCoherent'
    BY <1>3, <1>5, RefreshEntries DEF IInv, TypeOK
  <2>3. ServerType'
    BY <1>3, <1>4, <1>5, <2>1, AllTyped DEF IInv, ServerType
  <2> QED
    BY <2>1, <2>2, <2>3, Parts
<1>6. ASSUME Bernama(n) = {}, NEW d \in DiskonId \ used,
             diskon' = [diskon EXCEPT ![d] = [nama |-> n, cabang |-> c, items |-> {}]],
             used' = used \cup {d}
      PROVE  IInv'
  <2> DEFINE r == [nama |-> n, cabang |-> c, items |-> {}]
  <2>1. /\ r \in Row /\ r.nama = n /\ r.cabang = c
        /\ diskon' = [diskon EXCEPT ![d] = r]
    BY <1>1, <1>6 DEF Row
  <2> HIDE DEF r
  <2>2. diskon[d] = None /\ used \subseteq used' /\ d \in used'
    BY <1>6 DEF IInv, GoodRows
  <2>3. diskon' \in Table /\ GoodRows' /\ NamaUnik'
    BY <1>6, <2>1, <2>2, RowStep
  <2>4. Clients' /\ client' \in [Cabang -> Client]
    BY <1>2, <1>3, <2>2, ClientStep
  <2>5. Wired' /\ GoodEntries' /\ DiskonCoherent'
    BY <1>3, <2>3, RefreshEntries
  <2>6. ServerType'
    BY <1>3, <1>4, <1>6, <2>3, <2>4, AllTyped DEF IInv, ServerType
  <2> QED
    BY <2>3, <2>4, <2>5, <2>6, Parts
<1> QED
  BY <1>5, <1>6 DEF Tambahdiskon

\* The name leads to a discount, whose branch does not matter.
LEMMA DiskonlistNamaStep ==
    ASSUME IInv, NEW c \in Cabang, DiskonlistNama(c)
    PROVE  IInv'
<1>1. UNCHANGED <<diskon, used, reading, up, lost, connection>>
  BY DEF DiskonlistNama
<1>2. ASSUME NEW d \in Bernama(client[c].nama),
             client' = [client EXCEPT ![c].pc = "add", ![c].target = d]
      PROVE  IInv'
  <2> DEFINE k == [client[c] EXCEPT !.pc = "add", !.target = d]
  <2>1. d \in DiskonId /\ diskon[d] # None
    BY <1>2 DEF Bernama, Ids
  <2>2. d \in used
    BY <2>1 DEF IInv, GoodRows
  <2>3. client \in [Cabang -> Client] /\ client[c] \in Client
    BY DEF IInv, TypeOK
  <2>4. k \in Client /\ k.pc = "add" /\ k.target = d
    BY <2>1, <2>3 DEF Client
  <2>5. client' = [client EXCEPT ![c] = k]
    BY <1>2, <2>3
  <2> HIDE DEF k
  <2>6. GoodClient(used, k)
    BY <2>2, <2>4 DEF GoodClient
  <2> QED
    BY <1>1, <2>4, <2>5, <2>6, OnlyClient
<1>3. ASSUME client' = [client EXCEPT ![c] = Idle] PROVE IInv'
  BY <1>1, <1>3, IdleClient, OnlyClient
<1> QED
  BY <1>2, <1>3 DEF DiskonlistNama

\* The handler refreshes the key of the manager, whosever discount it is.
LEMMA TambahdiskonbarangStep ==
    ASSUME IInv, NEW c \in Cabang, NEW b \in Barang, NEW dated \in Dated,
           Tambahdiskonbarang(c, b, dated)
    PROVE  IInv'
<1> DEFINE k == [client[c] EXCEPT !.todo = @ \ {b}]
           d == client[c].target
<1>1. /\ client[c].pc = "add" /\ diskon' = Pushed(d, b, dated) /\ Refresh(c)
      /\ client' = [client EXCEPT ![c].todo = @ \ {b}]
      /\ UNCHANGED <<used, reading, up>>
  BY DEF Tambahdiskonbarang
<1>2. client \in [Cabang -> Client] /\ client[c] \in Client /\ diskon \in Table
  BY DEF IInv, TypeOK
<1>3. /\ k \in Client /\ k.pc = client[c].pc /\ k.nama = client[c].nama
      /\ k.target = client[c].target
  BY <1>2 DEF Client
<1>4. client' = [client EXCEPT ![c] = k]
  BY <1>1, <1>2
<1>5. GoodClient(used, client[c])
  BY DEF IInv, Clients
<1> HIDE DEF k
<1>6. GoodClient(used, k) /\ d \in used /\ d \in DiskonId
  BY <1>1, <1>3, <1>5 DEF GoodClient, IInv, TypeOK
<1>7. c \in Cabang /\ used' = used
  BY <1>1
<1>8. lost' \in SUBSET Cabang
  BY <1>1 DEF Refresh, Missed, IInv, TypeOK
<1> HIDE DEF d
<1>9. CASE diskon[d] # None /\ dated
  <2> DEFINE r == [diskon[d] EXCEPT !.items = @ \cup {b}]
  <2>1. diskon[d] \in Row
    BY <1>2, <1>6, <1>9 DEF Table
  <2>2. r \in Row /\ r.nama = diskon[d].nama /\ r.cabang = diskon[d].cabang
    BY <2>1 DEF Row
  <2>3. diskon' = [diskon EXCEPT ![d] = r]
    BY <1>1, <1>9 DEF Pushed
  <2> HIDE DEF r
  <2>4. diskon' \in Table /\ GoodRows' /\ NamaUnik'
    BY <1>6, <1>7, <1>9, <2>2, <2>3, RowStep
  <2>5. Clients' /\ client' \in [Cabang -> Client]
    BY <1>3, <1>4, <1>6, <1>7, ClientStep
  <2>6. Wired' /\ GoodEntries' /\ DiskonCoherent'
    BY <1>1, <2>4, RefreshEntries
  <2>7. ServerType'
    BY <1>1, <1>8, <2>4, <2>5, AllTyped DEF IInv, ServerType
  <2> QED
    BY <2>4, <2>5, <2>6, <2>7, Parts
<1>10. CASE ~(diskon[d] # None /\ dated)
  <2>1. UNCHANGED <<diskon, used>>
    BY <1>1, <1>10 DEF Pushed
  <2>2. GoodRows' /\ NamaUnik' /\ Clients' /\ client' \in [Cabang -> Client]
    BY <1>3, <1>4, <1>6, <2>1, RowsLeft, ClientStep
  <2>3. Wired' /\ GoodEntries' /\ DiskonCoherent'
    BY <1>1, <1>2, <2>1, RefreshEntries
  <2>4. ServerType'
    BY <1>1, <1>8, <2>1, <2>2, AllTyped DEF IInv, ServerType
  <2> QED
    BY <2>2, <2>3, <2>4, Parts
<1> QED
  BY <1>9, <1>10

LEMMA HangStep ==
    ASSUME IInv, NEW c \in Cabang, TambahdiskonbarangHangs(c)
    PROVE  IInv'
<1> DEFINE k == [client[c] EXCEPT !.pc = "hung"]
<1>1. /\ client' = [client EXCEPT ![c].pc = "hung"]
      /\ UNCHANGED <<diskon, used, reading, up, lost, connection>>
  BY DEF TambahdiskonbarangHangs
<1>2. client \in [Cabang -> Client] /\ client[c] \in Client
  BY DEF IInv, TypeOK
<1>3. k \in Client /\ k.pc = "hung" /\ client' = [client EXCEPT ![c] = k]
  BY <1>1, <1>2 DEF Client
<1> HIDE DEF k
<1>4. GoodClient(used, k)
  BY <1>3 DEF GoodClient
<1> QED
  BY <1>1, <1>3, <1>4, OnlyClient

LEMMA SelesaiStep ==
    ASSUME IInv, NEW c \in Cabang, Selesai(c)
    PROVE  IInv'
  BY IdleClient, OnlyClient DEF Selesai

-----------------------------------------------------------------------------
(* The list, and deleting a discount *)

LEMMA DiskonlistStep ==
    ASSUME IInv, NEW c \in Cabang, Diskonlist(c)
    PROVE  IInv'
<1> DEFINE k == Get(c, c)
<1>1. /\ UNCHANGED <<diskon, used, client, up, lost, cache, replies>> /\ Issue(k)
      /\ reading' = [reading EXCEPT ![c] = TRUE]
  BY DEF Diskonlist
<1>2. /\ k \in Commands(Cabang, Stored, Cabang) /\ k.key = c /\ k.op = "get"
      /\ k.val = None
  BY DEF Get, Commands, Stored
<1> HIDE DEF k
<1>3. ServerType /\ Wired
  BY AllTyped DEF IInv
<1>4. Wired' /\ GoodEntries' /\ DiskonCoherent'
  <2>1. replies' \in Seq([req : Cabang, val : Stored]) /\ diskon' \in Table
    BY <1>1, <1>3 DEF Wired, ConnectionType, ServerType
  <2> QED
    BY <1>1, <1>2, <2>1, IssueEntries
<1>5. ServerType'
  BY <1>1, <1>3 DEF ServerType
<1>6. GoodRows' /\ NamaUnik' /\ Clients'
  BY <1>1, RowsLeft, ClientsLeft
<1> QED
  BY <1>4, <1>5, <1>6, Parts

LEMMA DiskonlistReplyStep ==
    ASSUME IInv, DiskonlistReply
    PROVE  IInv'
<1> DEFINE c == Head(replies).req
           T == [req : Cabang, val : Stored]
           k == Set(c, Listing(diskon, c))
<1>1. /\ UNCHANGED <<diskon, used, client, up, lost, cache>>
      /\ replies' = Tail(replies) /\ replies # <<>>
      /\ reading' = [reading EXCEPT ![c] = FALSE]
      /\ Issue(k) \/ redisQ' = redisQ
  BY DEF DiskonlistReply
<1>2. ServerType /\ Wired /\ GoodEntries
  BY AllTyped DEF IInv
<1>3. Head(replies) \in T /\ replies' \in Seq(T)
  <2>1. replies \in Seq(T)
    BY <1>2 DEF Wired, ConnectionType
  <2> HIDE DEF T
  <2> QED
    BY <1>1, <2>1, HeadTail
<1>4. c \in Cabang
  BY <1>3
<1> HIDE DEF c
<1>5. ServerType'
  BY <1>1, <1>2, <1>4 DEF ServerType
<1>6. GoodRows' /\ NamaUnik' /\ Clients'
  BY <1>1, RowsLeft, ClientsLeft
<1>7. /\ k \in Commands(Cabang, Stored, Cabang) /\ k.key = c /\ k.op = "set"
      /\ k.val = Listing(diskon', c) /\ diskon' \in Table
  BY <1>1, <1>2, <1>4, ListingType DEF Set, Commands, Stored, ServerType
<1> HIDE DEF k
<1>8. CASE Issue(k)
  BY <1>1, <1>3, <1>4, <1>5, <1>6, <1>7, <1>8, IssueEntries, Parts
<1>9. CASE redisQ' = redisQ
  <2>1. Wired' /\ GoodEntries' /\ DiskonCoherent'
    BY <1>1, <1>2, <1>3, <1>9
    DEF Wired, ConnectionType, GoodEntries, IInv, DiskonCoherent
  <2> QED
    BY <1>5, <1>6, <2>1, Parts
<1> QED
  BY <1>1, <1>8, <1>9

LEMMA DeletediskonStep ==
    ASSUME IInv, NEW c \in Cabang, NEW d \in DiskonId, Deletediskon(c, d)
    PROVE  IInv'
<1> DEFINE k == Del(c, None)
<1>1. /\ diskon[d] # None => diskon[d].cabang = c
      /\ diskon' = [diskon EXCEPT ![d] = None]
      /\ Issue(k) /\ lost' = lost \ {c}
      /\ UNCHANGED <<used, client, reading, up, cache, replies>>
  BY DEF Deletediskon
<1>2. ServerType /\ Wired
  BY AllTyped DEF IInv
<1>3. /\ k \in Commands(Cabang, Stored, Cabang) /\ k.key = c /\ k.val = None
      /\ k.op = "del"
  BY DEF Del, Commands, Stored
<1> HIDE DEF k
<1>4. diskon' \in Table /\ GoodRows' /\ NamaUnik'
  BY <1>1, RowStep
<1>5. \A x \in Cabang \ {c} : Listing(diskon', x) = Listing(diskon, x)
  BY <1>1, <1>2, <1>4, ListingOther DEF ServerType
<1>6. Clients'
  BY <1>1, <1>4, ClientsLeft
<1>7. Wired' /\ GoodEntries' /\ DiskonCoherent'
  <2>1. replies' \in Seq([req : Cabang, val : Stored])
    BY <1>1, <1>2 DEF Wired, ConnectionType
  <2>2. lost \ {c} \subseteq lost' /\ (c \in lost' => c \in lost)
    BY <1>1
  <2> QED
    BY <1>1, <1>3, <1>4, <1>5, <2>1, <2>2, IssueEntries
<1>8. ServerType'
  BY <1>1, <1>2, <1>4 DEF ServerType
<1> QED
  BY <1>4, <1>6, <1>7, <1>8, Parts

-----------------------------------------------------------------------------
(* What Redis does, and the death of the process *)

LEMMA RedisStepStep ==
    ASSUME IInv, RedisStep
    PROVE  IInv'
<1>1. UNCHANGED <<diskon, used, client, reading, up, lost>> /\ Serve
  BY DEF RedisStep
<1>2. ServerType /\ Wired /\ GoodEntries
  BY AllTyped DEF IInv
<1>3. GoodRows' /\ NamaUnik' /\ Clients'
  BY <1>1, RowsLeft, ClientsLeft
<1>4. Wired'
  BY <1>1, <1>2, ServeType DEF Wired, Stored
<1>5. ServerType'
  BY <1>1, <1>2 DEF ServerType
<1>6. GoodEntries'
  <2> DEFINE k == Head(redisQ)
  <2>1. /\ redisQ \in Seq(Commands(Cabang, Stored, Cabang)) /\ redisQ # <<>>
        /\ redisQ' = Tail(redisQ) /\ cache \in [Cabang -> Stored]
        /\ cache' = IF k.op = "get" THEN cache ELSE [cache EXCEPT ![k.key] = k.val]
    BY <1>1, <1>2 DEF Wired, ConnectionType, Serve
  <2>2. GoodQueue(redisQ') /\ k.val \in Entry(k.key)
    BY <1>2, <2>1, QueueTail DEF GoodEntries
  <2> HIDE DEF k
  <2>3. \A c \in Cabang : cache'[c] \in Entry(c)
    BY <1>2, <2>1, <2>2 DEF GoodEntries
  <2> QED
    BY <2>2, <2>3 DEF GoodEntries
<1>7. DiskonCoherent'
  <2>1. ASSUME NEW c \in Cabang, c \notin lost
        PROVE  WillHold(redisQ', cache'[c], c, Listing(diskon, c))
    BY <1>1, <1>2, <2>1, ServeHolds DEF Wired, IInv, DiskonCoherent
  <2> QED
    BY <1>1, <2>1 DEF DiskonCoherent
<1> QED
  BY <1>3, <1>4, <1>5, <1>6, <1>7, Parts

LEMMA CrashStep ==
    ASSUME IInv, Crash
    PROVE  IInv'
<1>1. /\ UNCHANGED <<diskon, used, client, cache>> /\ redisQ' = <<>>
      /\ replies' = <<>> /\ up' = FALSE /\ reading' = [c \in Cabang |-> FALSE]
      /\ lost' = lost \cup {c \in Cabang : Pending(redisQ, c)}
  BY DEF Crash
<1>2. ServerType /\ Wired /\ GoodEntries
  BY AllTyped DEF IInv
<1>3. GoodRows' /\ NamaUnik' /\ Clients'
  BY <1>1, RowsLeft, ClientsLeft
<1>4. ServerType'
  <2>1. reading' \in [Cabang -> BOOLEAN] /\ lost' \in SUBSET Cabang
    BY <1>1, <1>2 DEF ServerType
  <2> QED
    BY <1>1, <1>2, <2>1 DEF ServerType
<1>5. Wired' /\ GoodEntries'
  BY <1>1, <1>2 DEF Wired, ConnectionType, GoodEntries, GoodQueue
<1>6. DiskonCoherent'
  <2>1. ASSUME NEW c \in Cabang, c \notin lost'
        PROVE  WillHold(<<>>, cache[c], c, Listing(diskon, c))
    <3>1. c \notin lost /\ ~Pending(redisQ, c)
      BY <1>1, <2>1
    <3> QED
      BY <3>1, NoQueue DEF IInv, DiskonCoherent
  <2> QED
    BY <1>1, <2>1 DEF DiskonCoherent
<1> QED
  BY <1>3, <1>4, <1>5, <1>6, Parts

\* Restart, and a step that changes nothing.
LEMMA QuietStep ==
    ASSUME IInv, UNCHANGED <<diskon, used, client, reading, lost, connection>>,
           up' \in BOOLEAN
    PROVE  IInv'
<1>1. UNCHANGED <<diskon, used, client, reading, lost, cache, redisQ, replies>>
  BY DEF connection
<1>2. GoodRows' /\ NamaUnik' /\ Clients'
  BY <1>1, RowsLeft, ClientsLeft
<1>3. ServerType'
  BY <1>1, AllTyped DEF IInv, ServerType
<1>4. Wired' /\ GoodEntries' /\ DiskonCoherent'
  BY <1>1, QuietEntries
<1> QED
  BY <1>2, <1>3, <1>4, Parts

-----------------------------------------------------------------------------
(* The invariance *)

LEMMA InitIInv == Init => IInv
<1> SUFFICES ASSUME Init PROVE IInv
  OBVIOUS
<1>1. TypeOK
  <2>1. diskon \in Table
    BY DEF Init, Table
  <2>2. ServerType
    BY <2>1, IdleClient DEF Init, ServerType
  <2>3. Wired /\ GoodEntries
    BY DEF Init, Wired, ConnectionType, GoodEntries, GoodQueue, Stored, Entry
  <2> QED
    BY <2>2, <2>3, AllTyped
<1>2. GoodRows /\ NamaUnik
  BY DEF Init, GoodRows, NamaUnik, Ids
<1>3. Clients
  BY IdleClient DEF Init, Clients
<1>4. DiskonCoherent
  BY DEF Init, DiskonCoherent, WillHold, Pending, LastWrite
<1> QED
  BY <1>1, <1>2, <1>3, <1>4 DEF IInv

LEMMA NextIInv == IInv /\ [Next]_vars => IInv'
<1> SUFFICES ASSUME IInv, [Next]_vars PROVE IInv'
  OBVIOUS
<1>1. ASSUME NEW c \in Cabang, Tambah(c) PROVE IInv'
  <2>1. ASSUME NEW n \in Nama, NEW angka \in BOOLEAN,
               NEW pilihan \in SUBSET Barang \ {{}}, Tambahdiskon(c, n, angka, pilihan)
        PROVE  IInv'
    BY <2>1, TambahdiskonStep
  <2>2. ASSUME NEW b \in Barang, NEW dated \in Dated, Tambahdiskonbarang(c, b, dated)
        PROVE  IInv'
    BY <2>2, TambahdiskonbarangStep
  <2> QED
    BY <1>1, <2>1, <2>2, DiskonlistNamaStep, HangStep, SelesaiStep DEF Tambah
<1>2. ASSUME Restart PROVE IInv'
  BY <1>2, QuietStep DEF Restart
<1>3. ASSUME UNCHANGED vars PROVE IInv'
  <2>1. UNCHANGED <<diskon, used, client, reading, lost, connection>> /\ up' = up
    BY <1>3 DEF vars, connection
  <2>2. up' \in BOOLEAN
    BY <2>1 DEF IInv, TypeOK
  <2> QED
    BY <2>1, <2>2, QuietStep
<1> QED
  BY <1>1, <1>2, <1>3, DiskonlistStep, DeletediskonStep, DiskonlistReplyStep,
     RedisStepStep, CrashStep DEF Next

\* The invariant: ids of discounts are handed out once, and every manager of
\* diskon_controller.dart adds items to an id that was handed out.
THEOREM Invariance == Spec => []IInv
  BY InitIInv, NextIInv, PTL DEF Spec

\* Every variable keeps its type, and the key of a branch holds rows of it.
THEOREM TypeInvariant == Spec => []TypeOK
<1>1. IInv => TypeOK
  BY DEF IInv
<1> QED
  BY Invariance, <1>1, PTL

\* add_diskon lets no two discounts have one name, whoever adds them at the same
\* time.
THEOREM NamaUnikAlways == Spec => []NamaUnik
<1>1. IInv => NamaUnik
  BY DEF IInv
<1> QED
  BY Invariance, <1>1, PTL

\* The handlers of barang.js keep the list of discounts in Redis absent or equal
\* to the rows of the branch, whatever names the managers of the branches type; a
\* write that died with the process, and a list that the manager of another branch
\* changed, apart.
THEOREM DiskonCoherentAlways == Spec => []DiskonCoherent
<1>1. IInv => DiskonCoherent
  BY DEF IInv
<1> QED
  BY Invariance, <1>1, PTL

-----------------------------------------------------------------------------
(* The refinement *)

\* Who reads the list of a branch awaits the get of its key.
Lists == \A c \in Cabang : Listens(reading[c], c)

CacheInv == IInv /\ Lists

LEMMA NoKey == None \notin Cabang /\ None \in Stored /\ None \notin Table
  BY DiskonAssumption DEF Stored

\* A branch always stands for its list, be it empty.
LEMMA TruthOf ==
    /\ \A c \in Cabang : Truths[c] = Listing(diskon, c) /\ Truths'[c] = Listing(diskon', c)
    /\ IInv => \A c \in Cabang : Truths[c] # None
<1>1. \A c \in Cabang : Truths[c] = Listing(diskon, c) /\ Truths'[c] = Listing(diskon', c)
  BY DEF Truths
<1>2. ASSUME IInv, NEW c \in Cabang PROVE Listing(diskon, c) # None
  BY <1>2, ListingType, NoKey DEF IInv, TypeOK
<1> QED
  BY <1>1, <1>2

LEMMA MappedType ==
    /\ IInv => Truths \in [Cabang -> Stored] /\ Entries \in [Cabang -> Stored]
    /\ IInv' => Truths' \in [Cabang -> Stored] /\ Entries' \in [Cabang -> Stored]
<1>1. ASSUME IInv PROVE Truths \in [Cabang -> Stored] /\ Entries \in [Cabang -> Stored]
  <2>1. Wired /\ diskon \in Table
    BY <1>1, AllTyped DEF IInv, TypeOK
  <2>2. Entries \in [Cabang -> Stored]
    BY <2>1, OutcomeType DEF Wired, ConnectionType, Entries, Future
  <2> QED
    BY <2>1, <2>2, ListingType DEF Truths, Stored
<1>2. ASSUME IInv' PROVE Truths' \in [Cabang -> Stored] /\ Entries' \in [Cabang -> Stored]
  <2>1. Wired' /\ diskon' \in Table
    BY <1>2, AllTyped DEF IInv, TypeOK
  <2>2. Entries' \in [Cabang -> Stored]
    BY <2>1, OutcomeType DEF Wired, ConnectionType, Entries, Future
  <2>3. \A c \in Cabang : Listing(diskon', c) \in Stored
    BY <2>1, ListingType DEF Stored
  <2> QED
    BY <2>2, <2>3 DEF Truths
<1> QED
  BY <1>1, <1>2

\* Lists that wait go on waiting for what they were promised.
LEMMA CallsSame ==
    ASSUME CacheInv, reading' = reading,
           \A c \in Cabang, asks \in BOOLEAN : KeepsListening(asks, c)
    PROVE  Lists' /\ Calls' = Calls
<1>1. ASSUME NEW c \in Cabang
      PROVE  Listens(reading[c], c)' /\ (reading[c] => Promised(c)' = Promised(c))
  <2>1. PICK asks \in BOOLEAN : asks = reading[c]
    BY DEF CacheInv, IInv, TypeOK
  <2>2. Listens(asks, c) /\ KeepsListening(asks, c)
    BY <2>1 DEF CacheInv, Lists
  <2>3. Listens(asks, c)' /\ (asks => Promised(c)' = Promised(c))
    BY <2>2 DEF KeepsListening
  <2> QED
    BY <2>1, <2>3 DEF Listens
<1> QED
  BY <1>1 DEF Lists, Calls

\* Only the list of one branch begins or ends.
LEMMA OneCall ==
    ASSUME CacheInv, NEW c \in Cabang, NEW asks \in BOOLEAN,
           reading' = [reading EXCEPT ![c] = asks], Listens(asks, c)',
           \A d \in Cabang, other \in BOOLEAN : d # c => KeepsListening(other, d)
    PROVE  /\ Lists'
           /\ Calls' = [Calls EXCEPT ![c] =
                          [key |-> IF asks THEN c ELSE None,
                           val |-> IF asks THEN Promised(c)' ELSE None]]
<1>1. reading \in [Cabang -> BOOLEAN]
  BY DEF CacheInv, IInv, TypeOK
<1>2. reading'[c] = asks /\ \A d \in Cabang : d # c => reading'[d] = reading[d]
  BY <1>1
<1>3. ASSUME NEW d \in Cabang, d # c
      PROVE  Listens(reading[d], d)' /\ (reading[d] => Promised(d)' = Promised(d))
  <2>1. PICK other \in BOOLEAN : other = reading[d]
    BY <1>1
  <2>2. Listens(other, d) /\ KeepsListening(other, d)
    BY <1>3, <2>1 DEF CacheInv, Lists
  <2>3. Listens(other, d)' /\ (other => Promised(d)' = Promised(d))
    BY <2>2 DEF KeepsListening
  <2>4. reading'[d] = other
    BY <1>2, <1>3, <2>1
  <2> QED
    BY <2>1, <2>3, <2>4 DEF Listens
<1>4. Lists'
  <2>1. Listens(reading[c], c)'
    BY <1>2 DEF Listens
  <2> QED
    BY <1>3, <2>1 DEF Lists
<1> DEFINE a == [key |-> IF asks THEN c ELSE None, val |-> IF asks THEN Promised(c)' ELSE None]
<1>5. Calls'[c] = a
  BY <1>2 DEF Calls
<1>6. \A d \in Cabang : d # c => Calls'[d] = Calls[d]
  BY <1>2, <1>3 DEF Calls
<1>7. DOMAIN Calls' = Cabang /\ DOMAIN Calls = Cabang /\ Calls' = [d \in Cabang |-> Calls'[d]]
  BY DEF Calls
<1> HIDE DEF a
<1>8. Calls' = [Calls EXCEPT ![c] = a]
  BY <1>5, <1>6, <1>7
<1> QED
  BY <1>4, <1>8 DEF a

LEMMA CallOf ==
    ASSUME CacheInv, NEW c \in Cabang
    PROVE  /\ reading[c] = FALSE => Calls[c] = Cached!Idle
           /\ reading[c] => /\ Calls[c].key = c /\ Calls[c].val = Promised(c)
                            /\ Calls[c] # Cached!Idle
  BY NoKey DEF Calls, Cached!Idle

\* The key of a branch is deleted, or set to its list.
LEMMA KeyWritten ==
    ASSUME CacheInv, IInv', NEW c \in Cabang,
           UNCHANGED <<reading, cache, replies>>,
           Issue(Del(c, None)) \/ DelThenSet(c, Listing(diskon', c))
    PROVE  /\ Lists' /\ Calls' = Calls /\ Cached!Current(c)'
           /\ \A x \in Cabang \ {c} : Entries'[x] = Entries[x]
           /\ Truths' \in [Cabang -> Table \cup {None}]
           /\ Entries' \in [Cabang -> Table \cup {None}]
<1>1. Wired /\ Wired'
  BY AllTyped DEF CacheInv, IInv
<1>2. PICK v \in Stored : /\ v \in {None, Truths'[c]}
                          /\ (v = None /\ Issue(Del(c, None))) \/ DelThenSet(c, v)
  <2>1. Truths'[c] = Listing(diskon', c) /\ Truths'[c] \in Stored
    BY TruthOf, MappedType
  <2> QED
    BY <2>1, NoKey
<1>3. /\ \A r \in Cabang, asks \in BOOLEAN : r # None => KeepsListening(asks, r)
      /\ \A x : Future(redisQ, x)' = IF x = c THEN v ELSE Future(redisQ, x)
  BY <1>1, <1>2, NoKey, ListensWrite DEF Wired
<1>4. Lists' /\ Calls' = Calls
  BY <1>3, NoKey, CallsSame
<1>5. \A x \in Cabang : Entries'[x] = IF x = c THEN v ELSE Entries[x]
  BY <1>3 DEF Entries
<1>6. Cached!Current(c)'
  BY <1>2, <1>5 DEF Cached!Current
<1>7. Truths' \in [Cabang -> Table \cup {None}] /\ Entries' \in [Cabang -> Table \cup {None}]
  BY MappedType DEF Stored
<1> QED
  BY <1>4, <1>5, <1>6, <1>7

\* That is a write of the abstract cache when no other list changes.
LEMMA WriteMaps ==
    ASSUME CacheInv, IInv', NEW c \in Cabang, lost' = lost \ {c},
           UNCHANGED <<reading, cache, replies>>,
           Issue(Del(c, None)) \/ DelThenSet(c, Listing(diskon', c)),
           \A x \in Cabang \ {c} : Listing(diskon', x) = Listing(diskon, x)
    PROVE  Lists' /\ Cached!Write
<1>1. /\ Lists' /\ Calls' = Calls /\ Cached!Current(c)'
      /\ \A x \in Cabang \ {c} : Entries'[x] = Entries[x]
      /\ Truths' \in [Cabang -> Table \cup {None}]
      /\ Entries' \in [Cabang -> Table \cup {None}]
  BY KeyWritten
<1>2. \A x \in Cabang \ {c} : Truths'[x] = Truths[x]
  BY TruthOf
<1>3. /\ \A x \in Cabang :
           \/ Cached!Current(x)'
           \/ Entries'[x] = Entries[x] /\ Truths'[x] \in {Truths[x], None}
      /\ \A x \in lost \ lost' : Cached!Current(x)'
  BY <1>1, <1>2
<1> QED
  BY <1>1, <1>3 DEF Cached!Write

\* It passes the key of f by when the discount of f changes.
LEMMA BypassMaps ==
    ASSUME CacheInv, IInv', NEW c \in Cabang, NEW f \in Cabang \ {c},
           lost' = (lost \ {c}) \cup {f}, UNCHANGED <<reading, cache, replies>>,
           DelThenSet(c, Listing(diskon', c)),
           \A x \in Cabang \ {c, f} : Listing(diskon', x) = Listing(diskon, x)
    PROVE  Lists' /\ Cached!Bypass(f)
<1>1. /\ Lists' /\ Calls' = Calls /\ Cached!Current(c)'
      /\ \A x \in Cabang \ {c} : Entries'[x] = Entries[x]
      /\ Truths' \in [Cabang -> Table \cup {None}]
      /\ Entries' \in [Cabang -> Table \cup {None}]
  BY KeyWritten
<1>2. \A x \in Cabang \ {c, f} : Truths'[x] = Truths[x]
  BY TruthOf
<1>3. /\ Entries'[f] = Entries[f]
      /\ \A x \in Cabang \ {f} :
           \/ Cached!Current(x)'
           \/ Entries'[x] = Entries[x] /\ Truths'[x] = Truths[x]
      /\ f \in lost' /\ lost' \subseteq lost \cup {f}
      /\ \A x \in lost \ lost' : Cached!Current(x)'
  BY <1>1, <1>2
<1> QED
  BY <1>1, <1>3 DEF Cached!Bypass

\* A discount is new in the list of the caller and in no other.
LEMMA TambahdiskonMaps ==
    ASSUME CacheInv, IInv', NEW c \in Cabang, NEW n, NEW angka, NEW pilihan,
           Tambahdiskon(c, n, angka, pilihan)
    PROVE  Lists' /\ Cached!Write
<1>1. /\ DelThenSet(c, Listing(diskon', c)) /\ lost' = (lost \ {c}) \cup Missed(c)
      /\ UNCHANGED <<reading, cache, replies>>
  BY DEF Tambahdiskon, Refresh
<1>2. \A x \in Cabang \ {c} : Listing(diskon', x) = Listing(diskon, x)
  <2>1. CASE diskon' = diskon
    BY <2>1
  <2>2. ASSUME NEW d \in DiskonId \ used,
               diskon' = [diskon EXCEPT ![d] = [nama |-> n, cabang |-> c, items |-> {}]]
        PROVE  \A x \in Cabang \ {c} : Listing(diskon', x) = Listing(diskon, x)
    <3>1. diskon[d] = None
      BY DEF CacheInv, IInv, GoodRows
    <3>2. PICK r : r = [nama |-> n, cabang |-> c, items |-> {}]
      OBVIOUS
    <3>3. diskon' = [diskon EXCEPT ![d] = r] /\ r.cabang = c
      BY <2>2, <3>2
    <3> QED
      BY <3>1, <3>3, ListingOther DEF CacheInv, IInv, TypeOK
  <2> QED
    BY <2>1, <2>2 DEF Tambahdiskon
<1>3. lost' = lost \ {c}
  BY <1>1, <1>2 DEF Missed
<1> QED
  BY <1>1, <1>2, <1>3, WriteMaps

\* The item goes to a discount of the caller, or of another branch, whose key the
\* handler passes by.
LEMMA TambahdiskonbarangMaps ==
    ASSUME CacheInv, IInv', NEW c \in Cabang, NEW b, NEW dated,
           Tambahdiskonbarang(c, b, dated)
    PROVE  Lists' /\ (Cached!Write \/ \E f \in Cabang : Cached!Bypass(f))
<1>1. /\ DelThenSet(c, Listing(diskon', c)) /\ lost' = (lost \ {c}) \cup Missed(c)
      /\ UNCHANGED <<reading, cache, replies>>
      /\ client[c].pc = "add" /\ diskon' = Pushed(client[c].target, b, dated)
  BY DEF Tambahdiskonbarang, Refresh
<1>2. PICK d : d = client[c].target
  OBVIOUS
<1>3. d \in DiskonId /\ diskon \in Table /\ diskon' \in Table
  BY <1>1, <1>2 DEF CacheInv, IInv, TypeOK, Clients, GoodClient
<1>4. ASSUME \A x \in Cabang \ {c} : Listing(diskon', x) = Listing(diskon, x)
      PROVE  Lists' /\ Cached!Write
  <2>1. lost' = lost \ {c}
    BY <1>1, <1>4 DEF Missed
  <2> QED
    BY <1>1, <1>4, <2>1, WriteMaps
<1>5. CASE diskon' = diskon
  BY <1>4, <1>5
<1>6. CASE diskon[d] # None /\ diskon' = [diskon EXCEPT ![d].items = @ \cup {b}]
  <2>1. PICK r : r = [diskon[d] EXCEPT !.items = @ \cup {b}]
    OBVIOUS
  <2>2. diskon[d] \in Row
    BY <1>3, <1>6 DEF Table
  <2>3. PICK f \in Cabang : f = diskon[d].cabang
    BY <2>2 DEF Row
  <2>4. diskon' = [diskon EXCEPT ![d] = r] /\ r.cabang = f
    BY <1>6, <2>1, <2>2, <2>3 DEF Row
  <2>5. \A x \in Cabang \ {f} : Listing(diskon', x) = Listing(diskon, x)
    BY <1>3, <2>3, <2>4, ListingOther
  <2>6. CASE f = c \/ Listing(diskon', f) = Listing(diskon, f)
    BY <1>4, <2>5, <2>6
  <2>7. CASE f # c /\ Listing(diskon', f) # Listing(diskon, f)
    <3>1. Missed(c) = {f}
      BY <2>5, <2>7 DEF Missed
    <3>2. lost' = (lost \ {c}) \cup {f}
      BY <1>1, <3>1
    <3> QED
      BY <1>1, <2>5, <2>7, <3>2, BypassMaps
  <2> QED
    BY <2>6, <2>7
<1> QED
  BY <1>1, <1>2, <1>5, <1>6 DEF Pushed

LEMMA DeletediskonMaps ==
    ASSUME CacheInv, IInv', NEW c \in Cabang, NEW d \in DiskonId, Deletediskon(c, d)
    PROVE  Lists' /\ Cached!Write
<1>1. /\ Issue(Del(c, None)) /\ lost' = lost \ {c} /\ UNCHANGED <<reading, cache, replies>>
      /\ diskon[d] # None => diskon[d].cabang = c
      /\ diskon' = [diskon EXCEPT ![d] = None]
  BY DEF Deletediskon
<1>2. PICK r : r = None
  OBVIOUS
<1>3. \A x \in Cabang \ {c} : Listing(diskon', x) = Listing(diskon, x)
  BY <1>1, <1>2, ListingOther DEF CacheInv, IInv, TypeOK
<1> QED
  BY <1>1, <1>3, WriteMaps

\* diskonlist asks Redis.
LEMMA DiskonlistMaps ==
    ASSUME CacheInv, IInv', NEW c \in Cabang, Diskonlist(c)
    PROVE  Lists' /\ Cached!Read(c, c)
<1>1. /\ ~reading[c] /\ reading' = [reading EXCEPT ![c] = TRUE] /\ Issue(Get(c, c))
      /\ UNCHANGED <<diskon, lost, cache, replies>>
  BY DEF Diskonlist
<1>2. Wired /\ Wired' /\ reading[c] = FALSE
  BY <1>1, AllTyped DEF CacheInv, IInv, TypeOK
<1>3. Listens(FALSE, c)
  BY <1>2 DEF CacheInv, Lists
<1>4. /\ Listens(TRUE, c)' /\ Promised(c)' = Future(redisQ, c)
      /\ \A d \in Cabang, other \in BOOLEAN : d # c => KeepsListening(other, d)
      /\ \A x : Future(redisQ, x)' = Future(redisQ, x)
  BY <1>1, <1>2, <1>3, NoKey, ListensAsk DEF Wired
<1>5. PICK asks \in BOOLEAN : asks = TRUE
  OBVIOUS
<1>6. /\ Lists'
      /\ Calls' = [Calls EXCEPT ![c] = [key |-> c, val |-> Promised(c)']]
  BY <1>1, <1>4, <1>5, OneCall
<1>7. Entries' = Entries /\ Entries[c] = Future(redisQ, c) /\ Truths' = Truths
  BY <1>1, <1>4 DEF Entries, Truths
<1> QED
  BY <1>1, <1>2, <1>4, <1>6, <1>7, CallOf DEF Cached!Read

\* The list comes: a miss is filled with the discounts of the branch.
LEMMA DiskonlistReplyMaps ==
    ASSUME CacheInv, IInv', DiskonlistReply
    PROVE  Lists' /\ \E c \in Cabang : Cached!Answer(c)
<1>1. /\ replies # <<>> /\ replies' = Tail(replies)
      /\ UNCHANGED <<diskon, lost, cache>>
  BY DEF DiskonlistReply
<1>2. Wired /\ Wired' /\ ServerType
  BY AllTyped DEF CacheInv, IInv
<1>3. Head(replies).req \in Cabang
  <2> DEFINE T == [req : Cabang, val : Stored]
  <2>1. replies \in Seq(T)
    BY <1>2 DEF Wired, ConnectionType
  <2> HIDE DEF T
  <2>2. Head(replies) \in T
    BY <1>1, <2>1
  <2> QED
    BY <2>2 DEF T
<1>4. PICK c \in Cabang : c = Head(replies).req
  BY <1>3
<1>5. PICK asks \in BOOLEAN : asks = reading[c]
  BY <1>2 DEF ServerType
<1>6. PICK v \in Stored : v = Truths[c]
  BY MappedType DEF CacheInv
<1>7. v = Listing(diskon, c) /\ v # None
  BY <1>6, TruthOf DEF CacheInv
<1>8. /\ IF Head(replies).val = None THEN Issue(Set(c, v)) ELSE redisQ' = redisQ
      /\ reading' = [reading EXCEPT ![c] = FALSE]
  BY <1>4, <1>7 DEF DiskonlistReply
<1>9. Listens(asks, c)
  BY <1>5 DEF CacheInv, Lists
<1>10. /\ asks = TRUE /\ Promised(c) = Head(replies).val /\ Listens(FALSE, c)'
       /\ \A d \in Cabang, other \in BOOLEAN : d # c => KeepsListening(other, d)
       /\ \A x : Future(redisQ, x)' =
            IF Head(replies).val = None /\ x = c THEN v ELSE Future(redisQ, x)
  <2>1. ConnectionType(Cabang, Stored, Cabang) /\ ConnectionType(Cabang, Stored, Cabang)'
    BY <1>2 DEF Wired
  <2>2. /\ replies # <<>> /\ Head(replies).req = c /\ replies' = Tail(replies) /\ cache' = cache
        /\ None \in Stored /\ None \notin Cabang
    BY <1>1, <1>4, NoKey
  <2>3. Issue(Set(c, v)) \/ redisQ' = redisQ
    BY <1>8
  <2>4. /\ asks = TRUE /\ Promised(c) = Head(replies).val /\ Listens(FALSE, c)'
        /\ \A d \in Cabang, other \in BOOLEAN : d # c => KeepsListening(other, d)
    BY <1>9, <2>1, <2>2, <2>3, ListensReply
  <2>5. CASE Head(replies).val = None
    <3>1. Issue(Set(c, v))
      BY <1>8, <2>5
    <3>2. \A x : Future(redisQ, x)' = IF x = c THEN v ELSE Future(redisQ, x)
      BY <2>1, <2>2, <3>1, SetFuture
    <3> QED
      BY <2>4, <2>5, <3>2
  <2>6. CASE Head(replies).val # None
    BY <1>8, <2>2, <2>4, <2>6 DEF Future
  <2> QED
    BY <2>5, <2>6
<1>11. PICK done \in BOOLEAN : done = FALSE
  OBVIOUS
<1>12. Lists' /\ Calls' = [Calls EXCEPT ![c] = Cached!Idle]
  BY <1>8, <1>10, <1>11, OneCall DEF Cached!Idle
<1>13. Calls[c].key = c /\ Calls[c].val = Promised(c) /\ Calls[c] # Cached!Idle
  BY <1>5, <1>10, CallOf
<1>14. Truths' = Truths
  BY <1>1 DEF Truths
<1>15. Entries' = IF Calls[c].val = None /\ Truths[c] # None
                  THEN [Entries EXCEPT ![c] = Truths[c]] ELSE Entries
  <2>1. /\ Entries' = [x \in Cabang |-> IF Head(replies).val = None /\ x = c
                                        THEN v ELSE Entries[x]]
        /\ Entries = [x \in Cabang |-> Entries[x]]
    BY <1>10 DEF Entries
  <2> QED
    BY <1>6, <1>7, <1>10, <1>13, <2>1
<1>16. Cached!Answer(c)
  BY <1>1, <1>12, <1>13, <1>14, <1>15 DEF Cached!Answer
<1> QED
  BY <1>12, <1>16

LEMMA CrashMaps ==
    ASSUME CacheInv, IInv', Crash
    PROVE  Lists' /\ Cached!Die
<1>1. /\ UNCHANGED <<diskon, cache>> /\ redisQ' = <<>> /\ replies' = <<>>
      /\ reading' = [c \in Cabang |-> FALSE]
      /\ lost' = lost \cup {c \in Cabang : Pending(redisQ, c)}
  BY DEF Crash
<1>2. /\ \A k : Listens(FALSE, k)'
      /\ \A x : ~Pending(redisQ, x) => Future(redisQ, x)' = Future(redisQ, x)
  BY <1>1, ListensDie
<1>3. Lists'
  BY <1>1, <1>2 DEF Lists, Listens
<1>4. Calls' = [c \in Cabang |-> Cached!Idle]
  BY <1>1 DEF Calls, Cached!Idle
<1>5. Truths' = Truths
  BY <1>1 DEF Truths
<1>6. \A x \in Cabang \ lost' : Entries'[x] = Entries[x]
  BY <1>1, <1>2 DEF Entries
<1>7. lost \subseteq lost' /\ lost' \subseteq Cabang
  BY <1>1 DEF CacheInv, IInv, TypeOK
<1>8. Entries' \in [Cabang -> Table \cup {None}]
  BY MappedType DEF Stored
<1> QED
  BY <1>3, <1>4, <1>5, <1>6, <1>7, <1>8 DEF Cached!Die

\* Steps of Redis, of a manager alone, of the server coming back, and none at all.
LEMMA ServeMaps ==
    ASSUME CacheInv, UNCHANGED <<diskon, reading, lost>>,
           Serve \/ UNCHANGED connection
    PROVE  Lists' /\ UNCHANGED <<Truths, Entries, Calls, lost>>
<1>1. Truths' = Truths
  BY DEF Truths
<1>2. CASE Serve
  <2>1. Wired
    BY AllTyped DEF CacheInv, IInv
  <2>2. /\ \A c \in Cabang, asks \in BOOLEAN : KeepsListening(asks, c)
        /\ \A x \in Cabang : Future(redisQ, x)' = Future(redisQ, x)
    BY <1>2, <2>1, NoKey, ListensServe DEF Wired
  <2>3. Entries' = Entries
    BY <2>2 DEF Entries
  <2> QED
    BY <1>1, <2>2, <2>3, CallsSame
<1>3. CASE UNCHANGED connection
  BY <1>1, <1>3
  DEF connection, CacheInv, Lists, Listens, Awaits, Silent, Calls, Promised, Entries, Future
<1> QED
  BY <1>2, <1>3

LEMMA InitCache == Init => CacheInv /\ Cached!Init
<1> SUFFICES ASSUME Init PROVE CacheInv /\ Cached!Init
  OBVIOUS
<1>1. IInv
  BY InitIInv
<1>2. Lists
  BY DEF Init, Lists, Listens, Silent
<1>3. Truths \in [Cabang -> Table \cup {None}]
  BY <1>1, MappedType DEF Stored
<1>4. Entries = [c \in Cabang |-> None]
  <2>1. \A c \in Cabang : ~Pending(redisQ, c) /\ cache[c] = None
    BY DEF Init, Pending
  <2> QED
    BY <2>1, OutcomeEntry DEF Entries, Future
<1>5. Calls = [c \in Cabang |-> Cached!Idle] /\ lost = {}
  BY DEF Init, Calls, Cached!Idle
<1> QED
  BY <1>1, <1>2, <1>3, <1>4, <1>5 DEF CacheInv, Cached!Init

LEMMA NextCache ==
    ASSUME CacheInv, [Next]_vars
    PROVE  CacheInv' /\ [Cached!Next]_<<Truths, Entries, Calls, lost>>
<1> DEFINE Goal == CacheInv' /\ [Cached!Next]_<<Truths, Entries, Calls, lost>>
<1>1. IInv'
  BY NextIInv DEF CacheInv
<1>2. ASSUME UNCHANGED <<diskon, reading, lost>>, Serve \/ UNCHANGED connection
      PROVE  Goal
  BY <1>1, <1>2, ServeMaps DEF CacheInv
<1>3. ASSUME Lists', Cached!Write \/ (\E f \in Cabang : Cached!Bypass(f)) \/ Cached!Die
      PROVE  Goal
  BY <1>1, <1>3 DEF CacheInv, Cached!Next
<1>4. ASSUME NEW c \in Cabang, Tambah(c) PROVE Goal
  <2>1. ASSUME NEW n \in Nama, NEW angka \in BOOLEAN,
               NEW pilihan \in SUBSET Barang \ {{}}, Tambahdiskon(c, n, angka, pilihan)
        PROVE  Goal
    BY <1>1, <1>3, <2>1, TambahdiskonMaps
  <2>2. ASSUME NEW b \in Barang, NEW dated \in Dated, Tambahdiskonbarang(c, b, dated)
        PROVE  Goal
    BY <1>1, <1>3, <2>2, TambahdiskonbarangMaps
  <2>3. ASSUME DiskonlistNama(c) \/ TambahdiskonbarangHangs(c) \/ Selesai(c) PROVE Goal
    BY <1>2, <2>3 DEF DiskonlistNama, TambahdiskonbarangHangs, Selesai
  <2> HIDE DEF Goal
  <2> QED
    BY <1>4, <2>1, <2>2, <2>3 DEF Tambah
<1>5. ASSUME NEW c \in Cabang, Diskonlist(c) PROVE Goal
  BY <1>1, <1>5, DiskonlistMaps DEF CacheInv, Cached!Next
<1>6. ASSUME NEW c \in Cabang, NEW d \in DiskonId, Deletediskon(c, d) PROVE Goal
  BY <1>1, <1>3, <1>6, DeletediskonMaps
<1>7. ASSUME DiskonlistReply PROVE Goal
  BY <1>1, <1>7, DiskonlistReplyMaps DEF CacheInv, Cached!Next
<1>8. ASSUME Crash PROVE Goal
  BY <1>1, <1>3, <1>8, CrashMaps
<1>9. ASSUME RedisStep \/ Restart \/ UNCHANGED vars PROVE Goal
  BY <1>2, <1>9 DEF RedisStep, Restart, vars, connection
<1> HIDE DEF Goal
<1>10. Goal
  BY <1>4, <1>5, <1>6, <1>7, <1>8, <1>9 DEF Next
<1> QED
  BY <1>10 DEF Goal

\* With commands under way, managers adding, changing and deleting discounts and
\* lists on their way, the lists of the branches behave like a cache that is read
\* and written in one step: every step of the diskon endpoints of barang.js is a
\* read, an answer, a write or a death of ReadThrough, the change of a discount of
\* another branch that passes its entry by, or changes nothing there.
THEOREM DiskonImplements == Spec => ImplementsReadThrough
<1>1. CacheInv /\ [Next]_vars => CacheInv' /\ [Cached!Next]_<<Truths, Entries, Calls, lost>>
  BY NextCache
<1> QED
  BY <1>1, InitCache, PTL DEF Spec, ImplementsReadThrough, Cached!Spec
=============================================================================
