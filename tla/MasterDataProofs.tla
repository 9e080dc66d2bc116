--------------------------- MODULE MasterDataProofs ---------------------------
(***************************************************************************)
(* Proofs about MasterData: its types, the coherence of its two entries,   *)
(* the uniqueness of category names, and that it implements ReadThrough.   *)
(* At the end, over keys, values and variables of their own, the proof     *)
(* that the cache of ReadThrough stays coherent.                           *)
(***************************************************************************)
EXTENDS MasterData, RedisConnectionProofs

-----------------------------------------------------------------------------
(* The inductive invariant. *)

\* A list request waits for the one get it issued; any other awaits nothing.
Waiting(r) ==
    \/ req[r] = NoCall /\ Silent(r)
    \/ req[r].key \in Koleksi /\ Awaits(r, Get(req[r].key, r))

Waits == \A r \in Req : Waiting(r)

MasterInv ==
    /\ TypeOK
    /\ Waits
    /\ MasterCoherent
    /\ KategoriUnik

\* The types of the connection, as the lemmas about it have them.
LEMMA Connected == TypeOK <=>
    /\ data \in [Koleksi -> Table]
    /\ req \in [Req -> [key : Koleksi \cup {None}, seen : Entry]]
    /\ up \in BOOLEAN
    /\ lost \in SUBSET Koleksi
    /\ ConnectionType(Koleksi, Entry, Req)
  BY DEF TypeOK, ConnectionType, Commands

LEMMA ConnectedNext == TypeOK' <=>
    /\ data' \in [Koleksi -> Table]
    /\ req' \in [Req -> [key : Koleksi \cup {None}, seen : Entry]]
    /\ up' \in BOOLEAN
    /\ lost' \in SUBSET Koleksi
    /\ ConnectionType(Koleksi, Entry, Req)'
  BY DEF TypeOK, ConnectionType, Commands

LEMMA EntryFacts ==
    /\ None \in Entry /\ Table \subseteq Entry
    /\ None \notin Req /\ None \notin Koleksi /\ None \notin Table
    /\ NoCall.key = None
    /\ \A r \in Req : NoCall # req[r] \/ req[r].key = None
  BY MasterAssumption DEF Entry, NoCall

-----------------------------------------------------------------------------
(* One lemma per action. *)

LEMMA InitMaster == Init => MasterInv
<1> SUFFICES ASSUME Init PROVE MasterInv
  OBVIOUS
<1>1. TypeOK
  BY EntryFacts DEF Init, TypeOK, Table, NoCall
<1>2. Waits
  BY DEF Init, Waits, Waiting, Silent
<1>3. MasterCoherent
  BY DEF Init, MasterCoherent, WillHold, Pending, LastWrite
<1>4. KategoriUnik
  BY DEF Init, KategoriUnik, Koleksi
<1> QED
  BY <1>1, <1>2, <1>3, <1>4 DEF MasterInv

\* A request whose row of req stays waits on while others act.
LEMMA WaitingKept ==
    ASSUME TypeOK, TypeOK', NEW r \in Req, Waiting(r), Grows(r), Passes(r),
           req'[r] = req[r]
    PROVE  Waiting(r)' /\ (req[r] # NoCall => Promised(r)' = Promised(r))
<1>1. ConnectionType(Koleksi, Entry, Req) /\ ConnectionType(Koleksi, Entry, Req)'
  BY Connected, ConnectedNext
<1>2. CASE req[r] = NoCall /\ Silent(r)
  BY <1>1, <1>2, SilentKept DEF Waiting
<1>3. CASE req[r].key \in Koleksi /\ Awaits(r, Get(req[r].key, r))
  <2>1. PICK c : c = Get(req[r].key, r)
    OBVIOUS
  <2>2. Awaits(r, c)
    BY <1>3, <2>1
  <2>3. Awaits(r, c)' /\ Promised(r)' = Promised(r)
    BY <1>1, <2>2, AwaitsKept
  <2> QED
    BY <1>3, <2>1, <2>3 DEF Waiting
<1> QED
  BY <1>2, <1>3 DEF Waiting

LEMMA WaitingServe ==
    ASSUME TypeOK, TypeOK', NEW r \in Req, Waiting(r), Serve, req'[r] = req[r]
    PROVE  Waiting(r)' /\ (req[r] # NoCall => Promised(r)' = Promised(r))
<1>1. ConnectionType(Koleksi, Entry, Req) /\ ConnectionType(Koleksi, Entry, Req)'
  BY Connected, ConnectedNext
<1>2. CASE req[r] = NoCall /\ Silent(r)
  BY <1>1, <1>2, SilentServe DEF Waiting
<1>3. CASE req[r].key \in Koleksi /\ Awaits(r, Get(req[r].key, r))
  <2>1. PICK c : c = Get(req[r].key, r)
    OBVIOUS
  <2>2. Awaits(r, c) /\ c.key \in Koleksi /\ c.op = "get" /\ r # None
    BY <1>3, <2>1, EntryFacts DEF Get
  <2>3. Awaits(r, c)' /\ Promised(r)' = Promised(r)
    BY <1>1, <2>2, AwaitsServe
  <2> QED
    BY <1>3, <2>1, <2>3 DEF Waiting
<1> QED
  BY <1>2, <1>3 DEF Waiting

\* What a step preserves of the refinement mapping: the promises of requests
\* that go on waiting.
CallsKept == \A r \in Req : req[r] # NoCall => Promised(r)' = Promised(r)

\* A new row: the entry is deleted and set to the rows, under a name that no
\* category has.
LEMMA TambahMaster ==
    ASSUME MasterInv, NEW k \in Koleksi, NEW n \in Nama, Tambah(k, n)
    PROVE  /\ MasterInv' /\ CallsKept
           /\ \A x \in Koleksi : Future(redisQ, x)' =
                IF x = k THEN data'[k] ELSE Future(redisQ, x)
<1>1. /\ TypeOK /\ ConnectionType(Koleksi, Entry, Req)
      /\ MasterCoherent /\ KategoriUnik /\ Waits
  BY Connected DEF MasterInv
<1>2. PICK i \in Id : /\ data[k][i] = None
                      /\ data' = [data EXCEPT ![k][i] = n]
  BY DEF Tambah
<1>3. /\ Ditemukan(n) = {} /\ DelThenSet(k, data'[k]) /\ lost' = lost \ {k}
      /\ UNCHANGED <<req, up, cache, replies>>
  BY DEF Tambah
<1>4. /\ data' \in [Koleksi -> Table] /\ data'[k] = [data[k] EXCEPT ![i] = n]
      /\ \A x \in Koleksi : x # k => data'[x] = data[x]
  BY <1>1, <1>2 DEF TypeOK, Table
<1>5. PICK v \in Entry : v = data'[k]
  BY <1>4, EntryFacts
<1>6. /\ ConnectionType(Koleksi, Entry, Req)' /\ WillHold(redisQ', cache'[k], k, v)
      /\ \A x, w : x # k /\ WillHold(redisQ, cache[x], x, w) =>
            WillHold(redisQ', cache'[x], x, w)
  <2>1. DelThenSet(k, v) /\ UNCHANGED <<cache, replies>>
    BY <1>3, <1>5
  <2> QED
    BY <1>1, <2>1, DelThenSetHolds, EntryFacts
<1>7. TypeOK'
  BY <1>1, <1>3, <1>4, <1>6, ConnectedNext DEF TypeOK
<1>8. MasterCoherent'
  BY <1>1, <1>3, <1>4, <1>5, <1>6 DEF MasterCoherent
<1>9. KategoriUnik'
  <2>1. CASE k = "kategori"
    <3>1. \A j \in Id : data["kategori"][j] # n
      BY <1>3 DEF Ditemukan, Bernama
    <3>2. \A j \in Id : data'["kategori"][j] = IF j = i THEN n ELSE data["kategori"][j]
      BY <1>1, <1>4, <2>1 DEF TypeOK, Table
    <3> QED
      BY <1>1, <3>1, <3>2 DEF KategoriUnik
  <2>2. CASE k # "kategori"
    BY <1>1, <1>4, <2>2 DEF KategoriUnik, Koleksi
  <2> QED
    BY <2>1, <2>2
<1>10. \A r \in Req : Waiting(r)' /\ (req[r] # NoCall => Promised(r)' = Promised(r))
  <2>1. \A r \in Req : Grows(r) /\ Passes(r)
    BY <1>1, <1>3, <1>5, <1>6, DelThenSetGrows, EntryFacts DEF Passes
  <2> QED
    BY <1>1, <1>3, <1>7, <2>1, WaitingKept DEF Waits
<1>11. \A x \in Koleksi : Future(redisQ, x)' = IF x = k THEN v ELSE Future(redisQ, x)
  BY <1>1, <1>3, <1>5, DelThenSetFuture, EntryFacts DEF Future
<1> QED
  BY <1>5, <1>7, <1>8, <1>9, <1>10, <1>11 DEF MasterInv, Waits, CallsKept

\* A list request issues a get and is promised what Redis will hold.
LEMMA AmbilMaster ==
    ASSUME MasterInv, NEW k \in Koleksi, NEW r \in Req, AmbilSemua(r, k)
    PROVE  /\ MasterInv'
           /\ \A s \in Req : s # r /\ req[s] # NoCall => Promised(s)' = Promised(s)
           /\ Promised(r)' = Future(redisQ, k)
           /\ \A x \in Koleksi : Future(redisQ, x)' = Future(redisQ, x)
<1>1. /\ TypeOK /\ ConnectionType(Koleksi, Entry, Req)
      /\ MasterCoherent /\ KategoriUnik /\ Waits
  BY Connected DEF MasterInv
<1>2. /\ req[r] = NoCall /\ req' = [req EXCEPT ![r] = [key |-> k, seen |-> data[k]]]
      /\ Issue(Get(k, r)) /\ UNCHANGED <<data, up, lost, cache, replies>>
  BY DEF AmbilSemua
<1>3. PICK c \in Commands(Koleksi, Entry, Req) :
        c = Get(k, r) /\ c.key = k /\ c.waiter = r /\ \A x : ~IsWrite(c, x)
  <2>1. Get(k, r) \in Commands(Koleksi, Entry, Req) /\ \A x : ~IsWrite(Get(k, r), x)
    <3>1. None \in Entry /\ r \in Req \cup {None}
      BY EntryFacts
    <3> QED
      BY <3>1, CommandType
  <2>2. Get(k, r).key = k /\ Get(k, r).waiter = r
    BY DEF Get
  <2> QED
    BY <2>1, <2>2
<1>4. Issue(c)
  BY <1>2, <1>3
<1>5. /\ ConnectionType(Koleksi, Entry, Req)'
      /\ \A x, w : WillHold(redisQ, cache[x], x, w) => WillHold(redisQ', cache'[x], x, w)
  <2>1. cache' = cache /\ replies' \in Seq([req : Req, val : Entry])
    BY <1>1, <1>2 DEF ConnectionType
  <2> QED
    BY <1>1, <1>3, <1>4, <2>1, IssueHolds
<1>6. TypeOK'
  <2>1. req' \in [Req -> [key : Koleksi \cup {None}, seen : Entry]]
    BY <1>1, <1>2, EntryFacts DEF TypeOK
  <2> QED
    BY <1>1, <1>2, <1>5, <2>1, ConnectedNext DEF TypeOK
<1>7. MasterCoherent' /\ KategoriUnik'
  BY <1>1, <1>2, <1>5 DEF MasterCoherent, KategoriUnik
<1>8. ASSUME NEW s \in Req, s # r
      PROVE  Waiting(s)' /\ (req[s] # NoCall => Promised(s)' = Promised(s))
  <2>1. Grows(s) /\ Passes(s) /\ req'[s] = req[s]
    BY <1>1, <1>2, <1>3, <1>4, <1>8, IssueGrows DEF Passes, TypeOK
  <2> QED
    BY <1>1, <1>6, <1>8, <2>1, WaitingKept DEF Waits
<1>9. Silent(r)
  BY <1>1, <1>2, EntryFacts DEF Waits, Waiting
<1>10. Awaits(r, c)' /\ Promised(r)' = Outcome(redisQ, cache[k], k)
  BY <1>1, <1>2, <1>3, <1>4, <1>5, <1>9, AwaitsIssued
<1>11. Waiting(r)'
  <2>1. req'[r].key = k
    BY <1>1, <1>2 DEF TypeOK
  <2> QED
    BY <1>3, <1>10, <2>1 DEF Waiting
<1>12. \A x \in Koleksi : Future(redisQ, x)' = Future(redisQ, x)
  BY <1>1, <1>2, <1>3, <1>4, IssueFuture DEF Future
<1> QED
  BY <1>6, <1>7, <1>8, <1>10, <1>11, <1>12 DEF MasterInv, Waits, Future

\* A reply ends the request it is for: a hit is what was promised, a miss
\* stores the rows.
LEMMA ReplyMaster ==
    ASSUME MasterInv, GetReply
    PROVE  \E r \in Req :
             /\ MasterInv'
             /\ req[r].key \in Koleksi /\ req[r] # NoCall
             /\ req' = [req EXCEPT ![r] = NoCall]
             /\ \A s \in Req : s # r /\ req[s] # NoCall => Promised(s)' = Promised(s)
             /\ \A x \in Koleksi : Future(redisQ, x)' =
                  IF x = req[r].key /\ Promised(r) = None THEN data[x]
                  ELSE Future(redisQ, x)
<1>1. /\ TypeOK /\ ConnectionType(Koleksi, Entry, Req)
      /\ MasterCoherent /\ KategoriUnik /\ Waits
  BY Connected DEF MasterInv
<1>2. PICK r \in Req : r = Head(replies).req
  <2>1. replies \in Seq([req : Req, val : Entry]) /\ replies # <<>>
    BY <1>1 DEF GetReply, TypeOK
  <2>2. Head(replies) \in [req : Req, val : Entry]
    BY <2>1, HeadTail
  <2> QED
    BY <2>2
<1>3. /\ replies # <<>> /\ replies' = Tail(replies) /\ req' = [req EXCEPT ![r] = NoCall]
      /\ UNCHANGED <<data, up, lost, cache>>
      /\ IF Head(replies).val = None THEN Issue(Set(req[r].key, data[req[r].key]))
         ELSE UNCHANGED redisQ
  BY <1>2 DEF GetReply
<1>4. ~Silent(r)
  <2> DEFINE T == [req : Req, val : Entry]
  <2>1. replies \in Seq(T)
    BY <1>1 DEF TypeOK
  <2> HIDE DEF T
  <2>2. 1 \in DOMAIN replies /\ Head(replies) = replies[1]
    BY <1>3, <2>1
  <2> QED
    BY <1>2, <2>2 DEF Silent
<1>5. PICK k \in Koleksi : k = req[r].key
  BY <1>1, <1>4 DEF Waits, Waiting
<1>6. PICK g : g = Get(k, r) /\ Awaits(r, g)
  BY <1>1, <1>4, <1>5 DEF Waits, Waiting
<1>7. Promised(r) = Head(replies).val
  BY <1>1, <1>2, <1>3, <1>6, AwaitsHead
<1>8. PICK c \in Commands(Koleksi, Entry, Req) :
        /\ c = Set(k, data[k]) /\ c.val = data[k] /\ c.waiter = None
        /\ \A x : IsWrite(c, x) <=> x = k
  <2>1. data[k] \in Entry
    BY <1>1, EntryFacts DEF TypeOK
  <2>2. PICK v \in Entry : v = data[k]
    BY <2>1
  <2>3. /\ Set(k, v) \in Commands(Koleksi, Entry, Req) /\ Set(k, v).val = v
        /\ Set(k, v).waiter = None /\ \A x : IsWrite(Set(k, v), x) <=> x = k
    BY SetType
  <2> QED
    BY <2>2, <2>3
<1>9. replies' \in Seq([req : Req, val : Entry])
  BY <1>1, <1>3, HeadTail DEF ConnectionType
<1>10. /\ ConnectionType(Koleksi, Entry, Req)'
       /\ MasterCoherent'
       /\ \A x \in Koleksi : Future(redisQ, x)' =
             IF x = k /\ Promised(r) = None THEN data[x] ELSE Future(redisQ, x)
       /\ \A s \in Req : Grows(s)
  <2>1. CASE Head(replies).val = None
    <3>1. Issue(c)
      BY <1>3, <1>5, <1>8, <2>1
    <3>2. /\ ConnectionType(Koleksi, Entry, Req)'
          /\ \A x, w : /\ WillHold(redisQ, cache[x], x, w)
                       /\ ~IsWrite(c, x) \/ c.val \in {None, w}
                       => WillHold(redisQ', cache'[x], x, w)
      BY <1>1, <1>3, <1>9, <3>1, IssueHolds
    <3>3. MasterCoherent'
      BY <1>1, <1>3, <1>8, <3>2 DEF MasterCoherent
    <3>4. \A x \in Koleksi : Future(redisQ, x)' = IF x = k THEN data[x] ELSE Future(redisQ, x)
      BY <1>1, <1>3, <1>8, <3>1, IssueFuture DEF Future
    <3>5. \A s \in Req : Grows(s)
      BY <1>1, <1>3, <1>8, <3>1, IssueGrows, EntryFacts
    <3> QED
      BY <1>7, <2>1, <3>2, <3>3, <3>4, <3>5
  <2>2. CASE Head(replies).val # None
    <3>1. UNCHANGED <<redisQ, cache>>
      BY <1>3, <2>2
    <3>2. MasterCoherent' /\ \A x \in Koleksi : Future(redisQ, x)' = Future(redisQ, x)
      BY <1>1, <1>3, <3>1 DEF MasterCoherent, Future
    <3>3. \A s \in Req : Grows(s)
      BY <1>1, <3>1, SameGrows
    <3>4. ConnectionType(Koleksi, Entry, Req)'
      BY <1>1, <1>9, <3>1 DEF ConnectionType
    <3> QED
      BY <1>7, <2>2, <3>2, <3>3, <3>4
  <2> QED
    BY <2>1, <2>2
<1>11. TypeOK'
  <2>1. req' \in [Req -> [key : Koleksi \cup {None}, seen : Entry]]
    BY <1>1, <1>3, EntryFacts DEF TypeOK, NoCall
  <2> QED
    BY <1>1, <1>3, <1>10, <2>1, ConnectedNext DEF TypeOK
<1>12. KategoriUnik'
  BY <1>1, <1>3 DEF KategoriUnik
<1>13. ASSUME NEW s \in Req, s # r
       PROVE  Waiting(s)' /\ (req[s] # NoCall => Promised(s)' = Promised(s))
  <2>1. Grows(s) /\ Passes(s) /\ req'[s] = req[s]
    BY <1>1, <1>2, <1>3, <1>10, <1>13 DEF Passes, TypeOK
  <2> QED
    BY <1>1, <1>11, <1>13, <2>1, WaitingKept DEF Waits
<1>14. Waiting(r)'
  <2>1. Silent(r)'
    BY <1>1, <1>2, <1>3, <1>6, <1>10, SilentDelivered
  <2>2. req'[r] = NoCall
    BY <1>1, <1>3 DEF TypeOK
  <2> QED
    BY <2>1, <2>2 DEF Waiting
<1>15. MasterInv'
  BY <1>10, <1>11, <1>12, <1>13, <1>14 DEF MasterInv, Waits
<1>16. req[r] # NoCall
  BY <1>5, EntryFacts
<1> QED
  BY <1>3, <1>5, <1>10, <1>13, <1>15, <1>16

\* A step of Redis decides nothing new.
LEMMA RedisMaster ==
    ASSUME MasterInv, RedisStep
    PROVE  /\ MasterInv' /\ CallsKept
           /\ \A x \in Koleksi : Future(redisQ, x)' = Future(redisQ, x)
<1>1. /\ TypeOK /\ ConnectionType(Koleksi, Entry, Req)
      /\ MasterCoherent /\ KategoriUnik /\ Waits
      /\ Serve /\ UNCHANGED <<data, req, up, lost>>
  BY Connected DEF MasterInv, RedisStep
<1>2. ConnectionType(Koleksi, Entry, Req)'
  BY <1>1, ServeType, EntryFacts
<1>3. TypeOK'
  BY <1>1, <1>2, ConnectedNext DEF TypeOK
<1>4. MasterCoherent' /\ KategoriUnik'
  BY <1>1, ServeHolds DEF MasterCoherent, KategoriUnik
<1>5. \A r \in Req : Waiting(r)' /\ (req[r] # NoCall => Promised(r)' = Promised(r))
  BY <1>1, <1>3, WaitingServe DEF Waits
<1>6. \A x \in Koleksi : Future(redisQ, x)' = Future(redisQ, x)
  BY <1>1, ServeFuture DEF Future
<1> QED
  BY <1>3, <1>4, <1>5, <1>6 DEF MasterInv, Waits, CallsKept

\* The process dies: entries with a write under way are lost.
LEMMA CrashMaster ==
    ASSUME MasterInv, Crash
    PROVE  /\ MasterInv'
           /\ \A x \in Koleksi \ lost' : Future(redisQ, x)' = Future(redisQ, x)
<1>1. /\ TypeOK /\ ConnectionType(Koleksi, Entry, Req)
      /\ MasterCoherent /\ KategoriUnik /\ Waits
      /\ up' = FALSE /\ redisQ' = <<>> /\ replies' = <<>>
      /\ req' = [r \in Req |-> NoCall]
      /\ lost' = lost \cup {k \in Koleksi : Pending(redisQ, k)}
      /\ UNCHANGED <<data, cache>>
  BY Connected DEF MasterInv, Crash
<1>2. ConnectionType(Koleksi, Entry, Req)'
  BY <1>1 DEF ConnectionType
<1>3. TypeOK'
  <2>1. req' \in [Req -> [key : Koleksi \cup {None}, seen : Entry]]
    BY <1>1, EntryFacts DEF NoCall
  <2>2. lost' \in SUBSET Koleksi
    BY <1>1 DEF TypeOK
  <2> QED
    BY <1>1, <1>2, <2>1, <2>2, ConnectedNext DEF TypeOK
<1>4. MasterCoherent'
  BY <1>1, NoQueue DEF MasterCoherent
<1>5. KategoriUnik' /\ Waits'
  BY <1>1 DEF KategoriUnik, Waits, Waiting, Silent
<1>6. \A x \in Koleksi \ lost' : Future(redisQ, x)' = Future(redisQ, x)
  <2>1. \A x : ~Pending(redisQ', x)
    BY <1>1 DEF Pending
  <2> QED
    BY <1>1, <2>1, OutcomeEntry DEF Future
<1> QED
  BY <1>3, <1>4, <1>5, <1>6 DEF MasterInv

\* What the invariant and the mapping do not read may change.
LEMMA FrameMaster ==
    ASSUME MasterInv, up' \in BOOLEAN, UNCHANGED <<data, req, lost, connection>>
    PROVE  /\ MasterInv' /\ CallsKept
           /\ \A x \in Koleksi : Future(redisQ, x)' = Future(redisQ, x)
<1>1. UNCHANGED <<data, req, lost, cache, redisQ, replies>>
  BY DEF connection
<1>2. TypeOK'
  BY <1>1 DEF MasterInv, TypeOK
<1>3. Waits' /\ MasterCoherent' /\ KategoriUnik'
  BY <1>1 DEF MasterInv, Waits, Waiting, Awaits, Silent, MasterCoherent, KategoriUnik
<1> QED
  BY <1>1, <1>2, <1>3 DEF MasterInv, CallsKept, Promised, Future

\* The inductive invariant holds in every reachable state: whatever requests
\* tambahkategori, tambahjenis, getkategori and getjenis of barang.js overlap.
THEOREM MasterInvariant == Spec => []MasterInv
<1>1. MasterInv /\ [Next]_vars => MasterInv'
  <2> SUFFICES ASSUME MasterInv, [Next]_vars PROVE MasterInv'
    OBVIOUS
  <2>1. CASE UNCHANGED vars
    BY <2>1, FrameMaster DEF vars, MasterInv, TypeOK
  <2>2. CASE Restart
    BY <2>2, FrameMaster DEF Restart
  <2> QED
    BY <2>1, <2>2, TambahMaster, AmbilMaster, ReplyMaster, RedisMaster, CrashMaster DEF Next
<1> QED
  BY InitMaster, <1>1, PTL DEF Spec

\* Rows, entries, commands and replies keep their types, and no key receives a
\* value of another kind.
THEOREM MasterTypeInvariant == Spec => []TypeOK
<1>1. MasterInv => TypeOK
  BY DEF MasterInv
<1> QED
  BY MasterInvariant, <1>1, PTL

\* What Redis will hold under data_kategori and data_jenis is absent or what
\* Realm holds, unless a write of it died with the process: the del and set
\* after each insert in barang.js overtake no list that was read before it.
THEOREM MasterCoherence == Spec => []MasterCoherent
<1>1. MasterInv => MasterCoherent
  BY DEF MasterInv
<1> QED
  BY MasterInvariant, <1>1, PTL

\* No two categories have one name: tambahkategori of barang.js looks for the
\* name and inserts it with no await of Redis in between.
THEOREM KategoriUniqueness == Spec => []KategoriUnik
<1>1. MasterInv => KategoriUnik
  BY DEF MasterInv
<1> QED
  BY MasterInvariant, <1>1, PTL

-----------------------------------------------------------------------------
(* The refinement. *)

\* The mapped call of a request, and when it is idle.
LEMMA CallsFacts ==
    ASSUME MasterInv, NEW r \in Req
    PROVE  /\ Calls[r].key = req[r].key
           /\ Calls[r].val = IF req[r] = NoCall THEN None ELSE Promised(r)
           /\ Calls[r] = Cached!Idle <=> req[r] = NoCall
<1>1. Calls[r] = [key |-> req[r].key,
                  val |-> IF req[r] = NoCall THEN None ELSE Promised(r)]
  BY DEF Calls
<1>2. req[r] = NoCall \/ req[r].key # None
  BY EntryFacts DEF MasterInv, Waits, Waiting
<1> QED
  BY <1>1, <1>2, EntryFacts DEF Cached!Idle

LEMMA EntriesType ==
    /\ TypeOK => Entries \in [Koleksi -> Table \cup {None}]
    /\ TypeOK' => Entries' \in [Koleksi -> Table \cup {None}]
<1>1. ASSUME ConnectionType(Koleksi, Entry, Req)
      PROVE  Entries \in [Koleksi -> Table \cup {None}]
  BY <1>1, OutcomeType DEF ConnectionType, Entries, Future, Entry
<1>2. ASSUME ConnectionType(Koleksi, Entry, Req)'
      PROVE  Entries' \in [Koleksi -> Table \cup {None}]
  BY <1>2, OutcomeType DEF ConnectionType, Entries, Future, Entry
<1> QED
  BY <1>1, <1>2, Connected, ConnectedNext

\* A step maps to what happens to the entries and to the calls.
LEMMA EntriesSame ==
    ASSUME \A x \in Koleksi : Future(redisQ, x)' = Future(redisQ, x)
    PROVE  Entries' = Entries
  BY DEF Entries

LEMMA CallsSame ==
    ASSUME req' = req, CallsKept
    PROVE  Calls' = Calls
  BY DEF Calls, CallsKept

LEMMA TambahWrites ==
    ASSUME MasterInv, NEW k \in Koleksi, NEW n \in Nama, Tambah(k, n)
    PROVE  Cached!Write
<1>1. /\ MasterInv' /\ CallsKept
      /\ \A x \in Koleksi : Future(redisQ, x)' =
            IF x = k THEN data'[k] ELSE Future(redisQ, x)
  BY TambahMaster
<1>2. /\ req' = req /\ lost' = lost \ {k} /\ data \in [Koleksi -> Table]
      /\ \A x \in Koleksi : x # k => data'[x] = data[x]
  BY DEF MasterInv, TypeOK, Tambah
<1>3. Calls' = Calls
  BY <1>1, <1>2, CallsSame
<1>4. Entries' \in [Koleksi -> Table \cup {None}] /\ data' \in [Koleksi -> Table \cup {None}]
  <2>1. Entries' \in [Koleksi -> Table \cup {None}]
    BY <1>1, EntriesType DEF MasterInv
  <2>2. data' \in [Koleksi -> Table]
    BY <1>1 DEF MasterInv, TypeOK
  <2> QED
    BY <2>1, <2>2
<1>5. \A x \in Koleksi : Entries'[x] = IF x = k THEN data'[k] ELSE Entries[x]
  BY <1>1 DEF Entries
<1>6. /\ \A x \in Koleksi :
            \/ Cached!Current(x)'
            \/ Entries'[x] = Entries[x] /\ data'[x] \in {data[x], None}
      /\ \A x \in lost \ lost' : Cached!Current(x)'
  BY <1>2, <1>5 DEF Cached!Current
<1> QED
  BY <1>2, <1>3, <1>4, <1>6 DEF Cached!Write

LEMMA AmbilReads ==
    ASSUME MasterInv, NEW k \in Koleksi, NEW r \in Req, AmbilSemua(r, k)
    PROVE  Cached!Read(r, k)
<1>1. /\ MasterInv'
      /\ \A s \in Req : s # r /\ req[s] # NoCall => Promised(s)' = Promised(s)
      /\ Promised(r)' = Future(redisQ, k)
      /\ \A x \in Koleksi : Future(redisQ, x)' = Future(redisQ, x)
  BY AmbilMaster
<1>2. /\ req[r] = NoCall /\ UNCHANGED <<data, lost>>
      /\ \A s \in Req : s # r => req'[s] = req[s]
      /\ req'[r].key = k /\ req'[r] # NoCall
  <2>1. req \in [Req -> [key : Koleksi \cup {None}, seen : Entry]]
    BY DEF MasterInv, TypeOK
  <2> QED
    BY <2>1, EntryFacts DEF AmbilSemua
<1>3. Entries' = Entries /\ Entries[k] = Future(redisQ, k)
  BY <1>1, EntriesSame DEF Entries
<1>4. Calls' = [Calls EXCEPT ![r] = [key |-> k, val |-> Entries[k]]]
  <2> DEFINE a == [key |-> k, val |-> Entries[k]]
  <2>1. Calls'[r] = a
    BY <1>1, <1>2, <1>3 DEF Calls
  <2>2. \A s \in Req : s # r => Calls'[s] = Calls[s]
    BY <1>1, <1>2 DEF Calls
  <2>3. DOMAIN Calls' = Req /\ DOMAIN Calls = Req /\ Calls' = [s \in Req |-> Calls'[s]]
    BY DEF Calls
  <2> HIDE DEF a
  <2>4. Calls' = [Calls EXCEPT ![r] = a]
    BY <2>1, <2>2, <2>3
  <2> QED
    BY <2>4 DEF a
<1>5. Calls[r] = Cached!Idle
  BY <1>2, CallsFacts
<1> QED
  BY <1>2, <1>3, <1>4, <1>5 DEF Cached!Read

LEMMA ReplyAnswers ==
    ASSUME MasterInv, GetReply
    PROVE  \E r \in Req : Cached!Answer(r)
<1>1. PICK r \in Req :
        /\ MasterInv'
        /\ req[r].key \in Koleksi /\ req[r] # NoCall
        /\ req' = [req EXCEPT ![r] = NoCall]
        /\ \A s \in Req : s # r /\ req[s] # NoCall => Promised(s)' = Promised(s)
        /\ \A x \in Koleksi : Future(redisQ, x)' =
             IF x = req[r].key /\ Promised(r) = None THEN data[x] ELSE Future(redisQ, x)
  BY ReplyMaster
<1>2. UNCHANGED <<data, lost>> /\ data \in [Koleksi -> Table]
  BY DEF GetReply, MasterInv, TypeOK
<1>3. PICK k \in Koleksi : k = req[r].key
  BY <1>1
<1>4. Calls[r].key = k /\ Calls[r].val = Promised(r) /\ Calls[r] # Cached!Idle
  BY <1>1, <1>3, CallsFacts
<1>5. Entries' = IF Calls[r].val = None /\ data[k] # None
                 THEN [Entries EXCEPT ![k] = data[k]] ELSE Entries
  <2>1. data[k] # None
    BY <1>2, EntryFacts
  <2>2. \A x \in Koleksi : Entries'[x] =
            IF x = k /\ Promised(r) = None THEN data[x] ELSE Entries[x]
    BY <1>1, <1>3 DEF Entries
  <2>3. Entries' = [x \in Koleksi |-> Entries'[x]] /\ Entries = [x \in Koleksi |-> Entries[x]]
    BY DEF Entries
  <2>4. CASE Promised(r) = None
    BY <1>4, <2>1, <2>2, <2>3, <2>4
  <2>5. CASE Promised(r) # None
    BY <1>4, <2>2, <2>3, <2>5
  <2> QED
    BY <2>4, <2>5
<1>6. Calls' = [Calls EXCEPT ![r] = Cached!Idle]
  <2>1. req \in [Req -> [key : Koleksi \cup {None}, seen : Entry]]
    BY DEF MasterInv, TypeOK
  <2>2. req'[r] = NoCall /\ \A s \in Req : s # r => req'[s] = req[s]
    BY <1>1, <2>1
  <2>3. Calls'[r] = Cached!Idle
    BY <2>2, EntryFacts DEF Calls, Cached!Idle
  <2>4. \A s \in Req : s # r => Calls'[s] = Calls[s]
    BY <1>1, <2>2 DEF Calls
  <2>5. DOMAIN Calls' = Req /\ DOMAIN Calls = Req /\ Calls' = [s \in Req |-> Calls'[s]]
    BY DEF Calls
  <2> QED
    BY <2>3, <2>4, <2>5
<1>7. Cached!Answer(r)
  BY <1>2, <1>4, <1>5, <1>6 DEF Cached!Answer
<1> QED
  BY <1>7

LEMMA CrashDies ==
    ASSUME MasterInv, Crash
    PROVE  Cached!Die
<1>1. /\ MasterInv'
      /\ \A x \in Koleksi \ lost' : Future(redisQ, x)' = Future(redisQ, x)
  BY CrashMaster
<1>2. /\ data' = data /\ lost \subseteq lost' /\ lost' \subseteq Koleksi
      /\ \A r \in Req : req'[r] = NoCall
  BY DEF Crash, MasterInv, TypeOK
<1>3. Entries' \in [Koleksi -> Table \cup {None}]
  BY <1>1, EntriesType DEF MasterInv
<1>4. \A x \in Koleksi \ lost' : Entries'[x] = Entries[x]
  BY <1>1 DEF Entries
<1>5. Calls' = [r \in Req |-> Cached!Idle]
  BY <1>2, EntryFacts DEF Calls, Cached!Idle
<1> QED
  BY <1>2, <1>3, <1>4, <1>5 DEF Cached!Die

\* With commands under way and lists waiting for theirs, the two collections
\* behave like a cache that is read and written in one step: every step is a
\* read, an answer, a write or a death of ReadThrough, or changes nothing there.
THEOREM MasterImplements == Spec => ImplementsReadThrough
<1>1. Init => Cached!Init
  <2> SUFFICES ASSUME Init PROVE Cached!Init
    OBVIOUS
  <2>1. data \in [Koleksi -> Table \cup {None}] /\ lost = {}
    BY DEF Init, Table
  <2>2. Entries = [k \in Koleksi |-> None]
    <3>1. \A k \in Koleksi : ~Pending(redisQ, k) /\ cache[k] = None
      BY DEF Init, Pending
    <3> QED
      BY <3>1, OutcomeEntry DEF Entries, Future
  <2>3. Calls = [r \in Req |-> Cached!Idle]
    BY DEF Init, Calls, NoCall, Cached!Idle
  <2> QED
    BY <2>1, <2>2, <2>3 DEF Cached!Init
<1>2. MasterInv /\ [Next]_vars => [Cached!Next]_<<data, Entries, Calls, lost>>
  <2> SUFFICES ASSUME MasterInv, [Next]_vars
               PROVE  [Cached!Next]_<<data, Entries, Calls, lost>>
    OBVIOUS
  <2>1. CASE UNCHANGED <<data, req, lost, connection>> /\ up' \in BOOLEAN
    BY <2>1, FrameMaster, EntriesSame, CallsSame
  <2>2. CASE RedisStep
    BY <2>2, RedisMaster, EntriesSame, CallsSame DEF RedisStep
  <2>3. CASE Restart
    BY <2>1, <2>3 DEF Restart
  <2>4. CASE UNCHANGED vars
    BY <2>1, <2>4 DEF vars, MasterInv, TypeOK
  <2> QED
    BY <2>2, <2>3, <2>4, TambahWrites, AmbilReads, ReplyAnswers, CrashDies DEF Next, Cached!Next
<1> QED
  BY <1>1, <1>2, MasterInvariant, PTL DEF Spec, ImplementsReadThrough, Cached!Spec

-----------------------------------------------------------------------------
(* The abstract cache, over keys, values and variables of its own: what    *)
(* every implementation of it inherits.                                    *)

CONSTANTS Key, Value, Bypassed
VARIABLES truth, entry, call

Abstract == INSTANCE ReadThrough

\* Inductive: the variables are functions on the keys, and Coherent.
AbstractInv ==
    /\ truth \in [Key -> Value \cup {None}]
    /\ entry \in [Key -> Value \cup {None}]
    /\ \A r \in Req : call[r] # Abstract!Idle => call[r].key \in Key
    /\ call \in [Req -> [key : Key \cup {None}, val : Value \cup {None}]]
    /\ Abstract!Coherent

\* An answer fills its key with what the key stands for, or changes nothing.
LEMMA AbstractAnswer ==
    ASSUME AbstractInv, NEW r \in Req, Abstract!Answer(r)
    PROVE  AbstractInv'
<1> DEFINE k == call[r].key
<1>1. k \in Key
  BY DEF Abstract!Answer, AbstractInv
<1>2. /\ \/ entry' = entry
         \/ truth[k] # None /\ entry' = [entry EXCEPT ![k] = truth[k]]
      /\ call' = [call EXCEPT ![r] = Abstract!Idle]
      /\ UNCHANGED <<truth, lost>>
  BY DEF Abstract!Answer
<1> HIDE DEF k
<1>3. /\ truth' \in [Key -> Value \cup {None}]
      /\ entry' \in [Key -> Value \cup {None}]
      /\ Abstract!Coherent'
  BY <1>1, <1>2 DEF AbstractInv, Abstract!Coherent, Abstract!Current
<1>4. /\ \A s \in Req : call'[s] # Abstract!Idle => call'[s].key \in Key
      /\ call' \in [Req -> [key : Key \cup {None}, val : Value \cup {None}]]
  BY <1>2 DEF AbstractInv, Abstract!Idle
<1> QED
  BY <1>3, <1>4 DEF AbstractInv

\* A read changes no entry.
LEMMA AbstractRead ==
    ASSUME AbstractInv, NEW r \in Req, NEW k \in Key, Abstract!Read(r, k)
    PROVE  AbstractInv'
<1>1. /\ call' = [call EXCEPT ![r] = [key |-> k, val |-> entry[k]]]
      /\ UNCHANGED <<truth, entry, lost>>
  BY DEF Abstract!Read
<1>2. entry[k] \in Value \cup {None}
  BY DEF AbstractInv
<1>3. /\ \A s \in Req : call'[s] # Abstract!Idle => call'[s].key \in Key
      /\ call' \in [Req -> [key : Key \cup {None}, val : Value \cup {None}]]
  BY <1>1, <1>2 DEF AbstractInv
<1> QED
  BY <1>1, <1>3 DEF AbstractInv, Abstract!Coherent, Abstract!Current

\* A write empties or replaces what it changes, and what it repairs.
LEMMA AbstractWrite ==
    ASSUME AbstractInv, Abstract!Write
    PROVE  AbstractInv'
<1>1. ASSUME NEW k \in Key \ lost', truth'[k] # None PROVE Abstract!Current(k)'
  <2>1. CASE k \in lost
    BY <1>1, <2>1 DEF Abstract!Write
  <2>2. CASE k \notin lost
    <3>1. CASE entry'[k] = entry[k] /\ truth'[k] \in {truth[k], None}
      BY <1>1, <2>2, <3>1 DEF AbstractInv, Abstract!Coherent, Abstract!Current
    <3> QED
      BY <1>1, <3>1 DEF Abstract!Write
  <2> QED
    BY <2>1, <2>2
<1> QED
  BY <1>1 DEF Abstract!Write, AbstractInv, Abstract!Coherent

\* A write that passes a key by gives it up, and is a write for the others.
LEMMA AbstractBypass ==
    ASSUME AbstractInv, NEW f \in Bypassed, Abstract!Bypass(f)
    PROVE  AbstractInv'
<1>1. ASSUME NEW k \in Key \ lost', truth'[k] # None PROVE Abstract!Current(k)'
  <2>1. k # f
    BY <1>1 DEF Abstract!Bypass
  <2>2. CASE k \in lost
    BY <1>1, <2>2 DEF Abstract!Bypass
  <2>3. CASE k \notin lost
    <3>1. CASE entry'[k] = entry[k] /\ truth'[k] = truth[k]
      BY <1>1, <2>3, <3>1 DEF AbstractInv, Abstract!Coherent, Abstract!Current
    <3> QED
      BY <1>1, <2>1, <3>1 DEF Abstract!Bypass
  <2> QED
    BY <2>2, <2>3
<1> QED
  BY <1>1 DEF Abstract!Bypass, AbstractInv, Abstract!Coherent

\* A death changes the entries of lost keys only.
LEMMA AbstractDie ==
    ASSUME AbstractInv, Abstract!Die
    PROVE  AbstractInv'
<1>1. Abstract!Coherent'
  BY DEF Abstract!Die, AbstractInv, Abstract!Coherent, Abstract!Current
<1>2. /\ \A r \in Req : call'[r] # Abstract!Idle => call'[r].key \in Key
      /\ call' \in [Req -> [key : Key \cup {None}, val : Value \cup {None}]]
  BY DEF Abstract!Die, Abstract!Idle
<1> QED
  BY <1>1, <1>2 DEF Abstract!Die, AbstractInv

\* A cache that is read and written in one step, as the route files are shown
\* to be, never holds anything but the current value under a key that stands
\* for something, unless the key was lost in a death of the process or passed by.
THEOREM ReadThroughCoherence == Abstract!Spec => []Abstract!Coherent
<1>1. Abstract!Init => AbstractInv
  <2> SUFFICES ASSUME Abstract!Init PROVE AbstractInv
    OBVIOUS
  <2>1. \A r \in Req : call[r] = Abstract!Idle
    BY DEF Abstract!Init
  <2>2. call \in [Req -> [key : Key \cup {None}, val : Value \cup {None}]]
    BY DEF Abstract!Init, Abstract!Idle
  <2> QED
    BY <2>1, <2>2 DEF Abstract!Init, AbstractInv, Abstract!Coherent, Abstract!Current
<1>2. AbstractInv /\ [Abstract!Next]_<<truth, entry, call, lost>> => AbstractInv'
  <2> SUFFICES ASSUME AbstractInv, [Abstract!Next]_<<truth, entry, call, lost>>
               PROVE  AbstractInv'
    OBVIOUS
  <2>1. CASE UNCHANGED <<truth, entry, call, lost>>
    BY <2>1 DEF AbstractInv, Abstract!Coherent, Abstract!Current
  <2>2. ASSUME NEW r \in Req, Abstract!Answer(r) PROVE AbstractInv'
    BY <2>2, AbstractAnswer
  <2>3. ASSUME NEW r \in Req, NEW k \in Key, Abstract!Read(r, k) PROVE AbstractInv'
    BY <2>3, AbstractRead
  <2> QED
    BY <2>1, <2>2, <2>3, AbstractWrite, AbstractBypass, AbstractDie DEF Abstract!Next
<1>3. AbstractInv => Abstract!Coherent
  BY DEF AbstractInv
<1> QED
  BY <1>1, <1>2, <1>3, PTL DEF Abstract!Spec

===============================================================================
