------------------------- MODULE CabangServerProofs -------------------------
(***************************************************************************)
(* Proofs about CabangServer, for any branches, users, devices, deletions  *)
(* and crashes: the lists of users in Redis are coherent and behave like   *)
(* those of the abstract cache, a branch has one warehouse, and a manager  *)
(* is added only where a warehouse is.                                     *)
(***************************************************************************)
EXTENDS CabangServer, RedisConnectionProofs

(* The inductive invariant *)

Stored == Users \cup {None}

\* The connection of this module.
Wired == ConnectionType(CabangId, Stored, CabangId)

\* Redis knows nothing of an id that was never handed out.
Untouched ==
    \A c \in CabangId \ used :
        cabang[c] = None /\ cache[c] = None /\ ~Pending(redisQ, c)

\* tambahcabang refuses a name that is there.
NamaTunggal ==
    \A c \in Ada, d \in Ada : cabang[c].nama = cabang[d].nama => c = d

\* What a page knows of the branches `rows`, of which so many were deleted: the
\* name it stored is one of a branch with a warehouse.
KnowsName(rows, deleted, n) ==
    deleted = 0 /\ n # None =>
        \E c \in CabangId : rows[c] # None /\ rows[c].nama = n /\ rows[c].gudang = 1

GoodPage(rows, ids, deleted, page) ==
    /\ page.pc \in {"gudang", "manager"} => page.id \in ids
    /\ page.pc = "gudang" /\ rows[page.id] # None => rows[page.id].nama = page.baru
    /\ page.pc = "manager" /\ deleted = 0 =>
          rows[page.id] # None /\ rows[page.id].gudang = 1
    /\ KnowsName(rows, deleted, page.nama)

Pages == \A p \in Pemilik : GoodPage(cabang, used, hapus, setup[p])

IInv == TypeOK /\ Untouched /\ NamaTunggal /\ Pages /\ UserCoherent

-----------------------------------------------------------------------------
(* Types *)

LEMMA WiredType == TypeOK => Wired
  BY DEF TypeOK, Wired, ConnectionType, Stored, Command, Commands

\* The types of what is not the connection.
ServerType ==
    /\ cabang \in [CabangId -> Row \cup {None}]
    /\ used \in SUBSET CabangId /\ stale \in SUBSET CabangId
    /\ hapus \in 0..MaxHapus
    /\ setup \in [Pemilik -> Page]
    /\ reading \in [CabangId -> BOOLEAN]
    /\ up \in BOOLEAN /\ lost \in SUBSET CabangId

LEMMA AllTyped ==
    /\ TypeOK <=> ServerType /\ Wired
    /\ TypeOK' <=> ServerType' /\ Wired'
  BY DEF TypeOK, ServerType, Wired, ConnectionType, Stored, Command, Commands

LEMMA RowFields ==
    ASSUME TypeOK, NEW c \in CabangId, cabang[c] # None
    PROVE  /\ cabang[c] \in Row /\ cabang[c].users \in Users
           /\ cabang[c].nama \in Nama /\ cabang[c].gudang \in 0..2
           /\ c \in Ada
  BY DEF TypeOK, Row, Ada

LEMMA PageType ==
    ASSUME TypeOK, NEW p \in Pemilik
    PROVE  /\ setup[p] \in Page /\ Idle(setup[p].nama) \in Page
           /\ Idle(setup[p].baru) \in Page
           /\ [setup[p] EXCEPT !.pc = "hung"] \in Page
  BY DEF TypeOK, Page, Idle

-----------------------------------------------------------------------------
(* The pages, and the branches they speak of *)

\* As far as pages and warehouses go, the branches are as they were.
SameBranches ==
    /\ UNCHANGED <<used, hapus>>
    /\ \A c \in CabangId :
          /\ cabang'[c] # None <=> cabang[c] # None
          /\ cabang[c] # None => /\ cabang'[c].nama = cabang[c].nama
                                 /\ cabang'[c].gudang = cabang[c].gudang

LEMMA SamePage ==
    ASSUME TypeOK, SameBranches, NEW page, GoodPage(cabang, used, hapus, page)
    PROVE  GoodPage(cabang', used', hapus', page)
<1>1. used \subseteq CabangId
  BY DEF TypeOK
<1>2. KnowsName(cabang', hapus', page.nama)
  BY DEF SameBranches, GoodPage, KnowsName
<1> QED
  BY <1>1, <1>2 DEF SameBranches, GoodPage

\* At most the page of p changes.
LEMMA PageStep ==
    ASSUME IInv, SameBranches, NEW p \in Pemilik, NEW page,
           setup' = setup \/ setup' = [setup EXCEPT ![p] = page],
           setup' = setup \/ GoodPage(cabang, used, hapus, page)
    PROVE  Pages' /\ NamaTunggal'
<1>1. ASSUME NEW q \in Pemilik PROVE GoodPage(cabang, used, hapus, setup'[q])
  BY DEF IInv, Pages, TypeOK
<1>2. ASSUME NEW q \in Pemilik PROVE GoodPage(cabang', used', hapus', setup'[q])
  BY <1>1, SamePage DEF IInv
<1>3. Ada' = Ada
  BY DEF Ada, SameBranches
<1>4. NamaTunggal'
  BY <1>3 DEF IInv, NamaTunggal, SameBranches, Ada
<1> QED
  BY <1>2, <1>4 DEF Pages

\* No page changes.
LEMMA PagesLeft ==
    ASSUME IInv, SameBranches, setup' = setup
    PROVE  Pages' /\ NamaTunggal'
<1>1. ASSUME NEW q \in Pemilik PROVE GoodPage(cabang', used', hapus', setup'[q])
  BY SamePage DEF IInv, Pages
<1>2. Ada' = Ada
  BY DEF Ada, SameBranches
<1>3. NamaTunggal'
  BY <1>2 DEF IInv, NamaTunggal, SameBranches, Ada
<1> QED
  BY <1>1, <1>3 DEF Pages

\* A page that stops keeps its name, and one that hangs too.
LEMMA StoppedPage ==
    ASSUME IInv, NEW p \in Pemilik
    PROVE  /\ GoodPage(cabang, used, hapus, Idle(setup[p].nama))
           /\ GoodPage(cabang, used, hapus, [setup[p] EXCEPT !.pc = "hung"])
<1>1. setup[p] \in Page /\ GoodPage(cabang, used, hapus, setup[p])
  BY DEF IInv, TypeOK, Pages
<1>2. /\ Idle(setup[p].nama).pc = "idle" /\ Idle(setup[p].nama).nama = setup[p].nama
      /\ [setup[p] EXCEPT !.pc = "hung"].pc = "hung"
      /\ [setup[p] EXCEPT !.pc = "hung"].nama = setup[p].nama
  BY <1>1 DEF Page, Idle
<1> QED
  BY <1>1, <1>2 DEF GoodPage

-----------------------------------------------------------------------------
(* The connection *)

\* Nothing is sent, and no user changes.
LEMMA QuietUsers ==
    ASSUME IInv, UNCHANGED <<used, lost, connection>>,
           \A c \in CabangId : cabang'[c] # None =>
              cabang[c] # None /\ cabang'[c].users = cabang[c].users
    PROVE  Wired' /\ Untouched' /\ UserCoherent'
<1>1. UNCHANGED <<cache, redisQ, replies>>
  BY DEF connection
<1>2. Wired'
  BY <1>1, WiredType DEF IInv, Wired, ConnectionType
<1>3. Untouched'
  BY <1>1 DEF IInv, Untouched
<1>4. UserCoherent'
  BY <1>1 DEF IInv, UserCoherent, Ada
<1> QED
  BY <1>2, <1>3, <1>4

\* Users of the branch c change, or nothing does, and its key is deleted.
LEMMA DelUsers ==
    ASSUME IInv, NEW c \in Ada, Issue(Del(c, None)), lost' = lost \ {c},
           UNCHANGED <<used, cache, replies>>,
           \A d \in CabangId : d # c => cabang'[d] = cabang[d]
    PROVE  Wired' /\ Untouched' /\ UserCoherent'
<1> DEFINE k == Del(c, None)
<1>1. c \in CabangId /\ c \in used
  BY DEF IInv, Untouched, Ada
<1>2. /\ k \in Commands(CabangId, Stored, CabangId) /\ k.val = None
      /\ \A x : IsWrite(k, x) <=> x = c
  BY <1>1 DEF Del, IsWrite, Commands, Stored
<1>3. Wired /\ Issue(k)
  BY WiredType DEF IInv
<1> HIDE DEF k
<1>4. /\ Wired'
      /\ \A x, w : WillHold(redisQ, cache[x], x, w)
                      => WillHold(redisQ', cache'[x], x, w)
  <2>1. replies' \in Seq([req : CabangId, val : Stored])
    BY WiredType DEF IInv, Wired, ConnectionType
  <2> QED
    BY <1>2, <1>3, <2>1, IssueHolds DEF Wired
<1>5. \A w : WillHold(redisQ', cache'[c], c, w)
  <2>1. redisQ \in Seq(Commands(CabangId, Stored, CabangId)) /\ redisQ' = Append(redisQ, k)
    BY <1>3 DEF Wired, ConnectionType, Issue
  <2> QED
    BY <1>2, <2>1, AppendWrite
<1>6. Untouched'
  <2>1. ASSUME NEW d \in CabangId \ used PROVE ~Pending(redisQ', d)
    <3>1. redisQ \in Seq(Commands(CabangId, Stored, CabangId))
          /\ redisQ' = Append(redisQ, k) /\ ~IsWrite(k, d) /\ ~Pending(redisQ, d)
      BY <1>1, <1>2, <1>3 DEF Wired, ConnectionType, Issue, IInv, Untouched
    <3> QED
      BY <1>2, <3>1 DEF Pending
  <2> QED
    BY <1>1, <2>1 DEF IInv, Untouched
<1>7. UserCoherent'
  <2>1. ASSUME NEW d \in Ada', d \notin lost', d # c
        PROVE  WillHold(redisQ', cache'[d], d, cabang'[d].users)
    <3>1. d \in Ada /\ d \notin lost /\ cabang'[d] = cabang[d]
      BY <2>1 DEF Ada
    <3> QED
      BY <1>4, <3>1 DEF IInv, UserCoherent
  <2> QED
    BY <1>5, <2>1 DEF UserCoherent
<1> QED
  BY <1>4, <1>6, <1>7

LEMMA DelSetUsers ==
    ASSUME IInv, NEW c \in Ada, cabang'[c] # None, cabang'[c].users \in Users,
           DelThenSet(c, cabang'[c].users), lost' = lost \ {c},
           UNCHANGED <<used, cache, replies>>,
           \A d \in CabangId : d # c => cabang'[d] = cabang[d]
    PROVE  Wired' /\ Untouched' /\ UserCoherent'
<1> DEFINE u == cabang'[c].users
<1>1. c \in CabangId /\ c \in used
  BY DEF IInv, Untouched, Ada
<1>2. Wired /\ u \in Stored /\ None \in Stored
  BY WiredType DEF IInv, Stored
<1>3. DelThenSet(c, u)
  OBVIOUS
<1> HIDE DEF u
<1>4. /\ Wired' /\ WillHold(redisQ', cache'[c], c, u)
      /\ \A x, w : x # c /\ WillHold(redisQ, cache[x], x, w) =>
            WillHold(redisQ', cache'[x], x, w)
  BY <1>1, <1>2, <1>3, DelThenSetHolds DEF Wired
<1>5. Untouched'
  <2>1. ASSUME NEW d \in CabangId \ used PROVE ~Pending(redisQ', d)
    <3>1. d # c /\ redisQ \in Seq(Commands(CabangId, Stored, CabangId))
          /\ ~Pending(redisQ, d)
      BY <1>1, <1>2 DEF Wired, ConnectionType, IInv, Untouched
    <3>2. /\ Del(c, None) \in Commands(CabangId, Stored, CabangId)
          /\ Set(c, u) \in Commands(CabangId, Stored, CabangId)
          /\ ~IsWrite(Del(c, None), d) /\ ~IsWrite(Set(c, u), d)
      BY <1>1, <1>2, <3>1 DEF Del, Set, IsWrite, Commands
    <3>3. redisQ' = Append(Append(redisQ, Del(c, None)), Set(c, u))
      BY <1>3 DEF DelThenSet
    <3> QED
      BY <3>1, <3>2, <3>3, PendingOthers
  <2> QED
    BY <1>1, <2>1 DEF IInv, Untouched
<1>6. UserCoherent'
  <2>1. ASSUME NEW d \in Ada', d \notin lost', d # c
        PROVE  WillHold(redisQ', cache'[d], d, cabang'[d].users)
    <3>1. d \in Ada /\ d \notin lost /\ cabang'[d] = cabang[d]
      BY <2>1 DEF Ada
    <3> QED
      BY <1>4, <2>1, <3>1 DEF IInv, UserCoherent
  <2> QED
    BY <1>4, <2>1 DEF UserCoherent, u
<1> QED
  BY <1>4, <1>5, <1>6

-----------------------------------------------------------------------------
(* The set-up of a branch *)

LEMMA Parts ==
    ASSUME ServerType', Wired', Untouched', UserCoherent', Pages', NamaTunggal'
    PROVE  IInv'
  BY AllTyped DEF IInv

\* A page goes elsewhere, and nothing else happens.
LEMMA OnlyPage ==
    ASSUME IInv, NEW p \in Pemilik, NEW page \in Page, Goto(p, page),
           GoodPage(cabang, used, hapus, page),
           UNCHANGED <<realm, reading, up, lost, connection>>
    PROVE  IInv'
<1>1. /\ UNCHANGED <<cabang, used, hapus, stale>> /\ SameBranches
      /\ setup' = [setup EXCEPT ![p] = page] /\ ServerType
  BY AllTyped DEF realm, SameBranches, Goto, IInv
<1>2. ServerType'
  BY <1>1 DEF ServerType
<1>3. Pages' /\ NamaTunggal'
  BY <1>1, PageStep
<1>4. Wired' /\ Untouched' /\ UserCoherent'
  BY <1>1, QuietUsers
<1> QED
  BY <1>2, <1>3, <1>4, Parts

LEMMA StopStep ==
    ASSUME IInv, NEW p \in Pemilik, Stop(p),
           UNCHANGED <<realm, reading, up, lost, connection>>
    PROVE  IInv'
  BY OnlyPage, StoppedPage, PageType DEF Stop, IInv

LEMMA HangStep ==
    ASSUME IInv, NEW p \in Pemilik, Goto(p, [setup[p] EXCEPT !.pc = "hung"]),
           UNCHANGED <<realm, reading, up, lost, connection>>
    PROVE  IInv'
  BY OnlyPage, StoppedPage, PageType DEF IInv

\* A new branch has an id of its own, which Redis knows nothing of.
LEMMA BuatStep ==
    ASSUME IInv, NEW p \in Pemilik, NEW n \in Nama, NEW c \in CabangId \ used,
           Bernama(n) = {}, Buat(p, n, c), UNCHANGED <<reading, up, lost, connection>>
    PROVE  IInv'
<1> DEFINE u == [e \in Email |-> None]
           row == [nama |-> n, gudang |-> 0, users |-> u]
           page == [setup[p] EXCEPT !.pc = "cari", !.baru = n]
<1>1. /\ u \in Users /\ row \in Row /\ row.nama = n /\ row.gudang = 0 /\ row.users = u
      /\ row # None
  BY CabangAssumption DEF Users, Row
<1>2. /\ setup[p] \in Page /\ page \in Page /\ page.pc = "cari"
      /\ page.nama = setup[p].nama
  BY DEF IInv, TypeOK, Page
<1>3. /\ cabang' = [cabang EXCEPT ![c] = row] /\ used' = used \cup {c}
      /\ setup' = [setup EXCEPT ![p] = page] /\ UNCHANGED <<hapus, stale>>
      /\ UNCHANGED <<cache, redisQ, replies>> /\ lost' = lost
  BY DEF Buat, Goto, connection
<1>4. ServerType /\ Wired /\ c \notin used /\ cabang[c] = None
  BY AllTyped DEF IInv, Untouched
<1> HIDE DEF u, row, page
<1>5. ServerType'
  BY <1>1, <1>2, <1>3, <1>4 DEF ServerType
<1>6. Wired'
  BY <1>3, <1>4 DEF Wired, ConnectionType
<1>7. cabang'[c] = row /\ \A d \in CabangId : d # c => cabang'[d] = cabang[d]
  BY <1>3, <1>4 DEF ServerType
<1>8. Untouched'
  BY <1>3, <1>7 DEF IInv, Untouched
<1>9. UserCoherent'
  <2>1. WillHold(redisQ', cache'[c], c, row.users)
    BY <1>3, <1>4 DEF IInv, Untouched, WillHold, Pending, LastWrite
  <2> QED
    BY <1>3, <1>7, <2>1 DEF IInv, UserCoherent, Ada
<1>10. NamaTunggal'
  BY <1>1, <1>4, <1>7 DEF IInv, NamaTunggal, Ada, Bernama
<1>11. Pages'
  <2>1. ASSUME NEW n2, KnowsName(cabang, hapus, n2)
        PROVE  KnowsName(cabang', hapus', n2)
    BY <1>3, <1>4, <1>7, <2>1 DEF KnowsName
  <2>2. ASSUME NEW q \in Pemilik PROVE GoodPage(cabang', used', hapus', setup[q])
    <3>1. GoodPage(cabang, used, hapus, setup[q]) /\ used \subseteq CabangId
      BY DEF IInv, TypeOK, Pages
    <3> QED
      BY <1>3, <1>4, <1>7, <2>1, <3>1 DEF GoodPage
  <2>3. GoodPage(cabang', used', hapus', page)
    BY <1>2, <2>2 DEF GoodPage
  <2> QED
    BY <1>3, <1>4, <2>2, <2>3 DEF Pages, ServerType
<1> QED
  BY <1>5, <1>6, <1>8, <1>9, <1>10, <1>11, Parts

LEMMA TambahcabangStep ==
    ASSUME IInv, NEW p \in Pemilik, NEW n \in Nama, Tambahcabang(p, n)
    PROVE  IInv'
<1>1. UNCHANGED <<reading, up, lost, connection>>
  BY DEF Tambahcabang, NoRedis
<1>2. CASE Bernama(n) = {}
  BY <1>1, <1>2, BuatStep DEF Tambahcabang
<1>3. CASE Bernama(n) # {}
  BY <1>1, <1>3, StopStep DEF Tambahcabang
<1> QED
  BY <1>2, <1>3

LEMMA CaricabangStep ==
    ASSUME IInv, NEW p \in Pemilik, Caricabang(p)
    PROVE  IInv'
<1>1. UNCHANGED <<realm, reading, up, lost, connection>>
  BY DEF Caricabang, NoRedis
<1>2. ASSUME NEW c \in Bernama(setup[p].baru),
             Goto(p, [setup[p] EXCEPT !.pc = "gudang", !.id = c])
      PROVE  IInv'
  <2> DEFINE page == [setup[p] EXCEPT !.pc = "gudang", !.id = c]
  <2>1. c \in CabangId /\ cabang[c].nama = setup[p].baru /\ c \in used
    BY DEF Bernama, Ada, IInv, Untouched
  <2>2. /\ page \in Page /\ page.pc = "gudang" /\ page.id = c
        /\ page.baru = setup[p].baru /\ page.nama = setup[p].nama
    BY <2>1 DEF IInv, TypeOK, Page
  <2>3. GoodPage(cabang, used, hapus, setup[p]) /\ Goto(p, page)
    BY <1>2 DEF IInv, Pages
  <2> HIDE DEF page
  <2>4. GoodPage(cabang, used, hapus, page)
    BY <2>1, <2>2, <2>3 DEF GoodPage
  <2> QED
    BY <1>1, <2>2, <2>3, <2>4, OnlyPage
<1>3. ASSUME Stop(p) PROVE IInv'
  BY <1>1, <1>3, StopStep
<1> QED
  BY <1>2, <1>3 DEF Caricabang

\* The name of a branch leads to one branch, the one whose warehouse is known.
LEMMA CaricabangmanagerStep ==
    ASSUME IInv, NEW p \in Pemilik, Caricabangmanager(p)
    PROVE  IInv'
<1>1. UNCHANGED <<realm, reading, up, lost, connection>>
  BY DEF Caricabangmanager, NoRedis
<1>2. PICK c \in Bernama(setup[p].nama) :
          Goto(p, [setup[p] EXCEPT !.pc = "manager", !.id = c])
  BY DEF Caricabangmanager
<1> DEFINE page == [setup[p] EXCEPT !.pc = "manager", !.id = c]
<1>3. /\ c \in CabangId /\ cabang[c].nama = setup[p].nama /\ c \in used
      /\ c \in Ada /\ cabang[c] # None /\ setup[p].nama # None
  BY DEF Bernama, Ada, IInv, Untouched, Caricabangmanager
<1>4. /\ page \in Page /\ page.pc = "manager" /\ page.id = c
      /\ page.nama = setup[p].nama
  BY <1>3 DEF IInv, TypeOK, Page
<1>5. GoodPage(cabang, used, hapus, setup[p]) /\ Goto(p, page)
  BY <1>2 DEF IInv, Pages
<1> HIDE DEF page
<1>6. hapus = 0 => cabang[c].gudang = 1
  BY <1>3, <1>5 DEF GoodPage, KnowsName, IInv, NamaTunggal, Ada
<1>7. GoodPage(cabang, used, hapus, page)
  BY <1>3, <1>4, <1>5, <1>6 DEF GoodPage
<1> QED
  BY <1>1, <1>4, <1>5, <1>7, OnlyPage

LEMMA TambahgudangStep ==
    ASSUME IInv, NEW p \in Pemilik, Tambahgudang(p)
    PROVE  IInv'
<1> DEFINE c == setup[p].id
<1>1. /\ UNCHANGED <<used, hapus, stale, reading, up, lost, connection>>
      /\ UNCHANGED <<cache, redisQ, replies>>
  BY DEF Tambahgudang, NoRedis, connection
<1>2. CASE cabang' = cabang
  <2>1. UNCHANGED <<realm, reading, up, lost, connection>>
    BY <1>1, <1>2 DEF realm
  <2>2. Goto(p, [setup[p] EXCEPT !.pc = "hung"]) => IInv'
    BY <2>1, HangStep
  <2>3. Stop(p) => IInv'
    BY <2>1, StopStep
  <2>4. ASSUME cabang[c] # None, cabang[c].gudang = 0,
               cabang' = [cabang EXCEPT ![c].gudang = 1]
        PROVE  FALSE
    <3>1. setup[p].pc = "gudang" /\ GoodPage(cabang, used, hapus, setup[p])
      BY DEF Tambahgudang, IInv, Pages
    <3>2. c \in CabangId
      BY <3>1 DEF GoodPage, IInv, TypeOK
    <3>3. cabang[c] \in Row
      BY <2>4, <3>2, RowFields DEF IInv
    <3> QED
      BY <1>2, <2>4, <3>2, <3>3 DEF Row, IInv, TypeOK
  <2> QED
    BY <2>2, <2>3, <2>4 DEF Tambahgudang
<1>3. CASE cabang' # cabang
  <2>1. /\ setup[p].pc = "gudang" /\ cabang[c] # None /\ cabang[c].gudang = 0
        /\ cabang' = [cabang EXCEPT ![c].gudang = 1]
        /\ Goto(p, Idle(setup[p].baru))
    BY <1>3 DEF Tambahgudang
  <2>2. GoodPage(cabang, used, hapus, setup[p]) /\ ServerType
    BY AllTyped DEF IInv, Pages
  <2>3. c \in CabangId /\ cabang[c].nama = setup[p].baru
    BY <2>1, <2>2 DEF GoodPage, ServerType
  <2> DEFINE row == [cabang[c] EXCEPT !.gudang = 1]
             page == Idle(setup[p].baru)
  <2>4. /\ row \in Row /\ row.nama = cabang[c].nama /\ row.gudang = 1
        /\ row.users = cabang[c].users /\ row # None
    BY <2>1, <2>3, RowFields, CabangAssumption DEF IInv, Row
  <2>5. page \in Page /\ page.pc = "idle" /\ page.nama = setup[p].baru
    BY PageType DEF IInv, Idle
  <2>6. /\ cabang' = [cabang EXCEPT ![c] = row]
        /\ setup' = [setup EXCEPT ![p] = page]
    BY <2>1 DEF Goto
  <2> HIDE DEF row, page
  <2>7. cabang'[c] = row /\ \A d \in CabangId : d # c => cabang'[d] = cabang[d]
    BY <2>2, <2>3, <2>6 DEF ServerType
  <2>8. ServerType'
    BY <1>1, <2>2, <2>3, <2>4, <2>5, <2>6 DEF ServerType
  <2>9. Wired' /\ Untouched' /\ UserCoherent'
    <3>1. UNCHANGED <<used, lost, connection>>
      BY <1>1
    <3>2. ASSUME NEW d \in CabangId, cabang'[d] # None
          PROVE  cabang[d] # None /\ cabang'[d].users = cabang[d].users
      BY <2>1, <2>4, <2>7, <3>2
    <3> QED
      BY <3>1, <3>2, QuietUsers
  <2>10. NamaTunggal'
    BY <2>1, <2>3, <2>4, <2>7 DEF IInv, NamaTunggal, Ada
  <2>11. Pages'
    <3>1. ASSUME NEW n, KnowsName(cabang, hapus, n)
          PROVE  KnowsName(cabang', hapus', n)
      BY <1>1, <2>3, <2>4, <2>7, <3>1 DEF KnowsName
    <3>2. ASSUME NEW q \in Pemilik PROVE GoodPage(cabang', used', hapus', setup[q])
      <4>1. GoodPage(cabang, used, hapus, setup[q]) /\ used \subseteq CabangId
        BY DEF IInv, TypeOK, Pages
      <4> QED
        BY <1>1, <2>1, <2>4, <2>7, <3>1, <4>1 DEF GoodPage
    <3>3. GoodPage(cabang', used', hapus', page)
      BY <2>3, <2>4, <2>5, <2>7 DEF GoodPage, KnowsName
    <3> QED
      BY <2>2, <2>6, <3>2, <3>3 DEF Pages, ServerType
  <2> QED
    BY <2>8, <2>9, <2>10, <2>11, Parts
<1> QED
  BY <1>2, <1>3

-----------------------------------------------------------------------------
(* Users *)

\* The users of c change, or none does, and at most the page of p.
LEMMA UsersStep ==
    ASSUME IInv, NEW c \in Ada, NEW u \in Users,
           cabang' = cabang \/ cabang' = [cabang EXCEPT ![c].users = u],
           \/ Issue(Del(c, None))
           \/ cabang' = [cabang EXCEPT ![c].users = u] /\ DelThenSet(c, cabang'[c].users),
           lost' = lost \ {c}, stale' \in SUBSET CabangId,
           UNCHANGED <<used, hapus, reading, up, cache, replies>>,
           setup' = setup \/ \E p \in Pemilik : Stop(p)
    PROVE  IInv'
<1> DEFINE row == [cabang[c] EXCEPT !.users = u]
<1>1. c \in CabangId /\ cabang[c] # None /\ cabang[c] \in Row /\ ServerType
  BY RowFields, AllTyped DEF IInv, Ada
<1>2. /\ row \in Row /\ row.nama = cabang[c].nama /\ row.users = u
      /\ row.gudang = cabang[c].gudang /\ row # None
  BY <1>1, CabangAssumption DEF Row
<1>3. cabang' = cabang \/ cabang' = [cabang EXCEPT ![c] = row]
  OBVIOUS
<1>4. cabang' = [cabang EXCEPT ![c].users = u] => cabang' = [cabang EXCEPT ![c] = row]
  OBVIOUS
<1> HIDE DEF row
<1>5. /\ \A d \in CabangId : d # c => cabang'[d] = cabang[d]
      /\ cabang'[c] \in {cabang[c], row} /\ cabang'[c] # None /\ cabang'[c] \in Row
  BY <1>1, <1>2, <1>3 DEF ServerType
<1>6. SameBranches
  BY <1>1, <1>2, <1>5 DEF SameBranches
<1>7. setup' \in [Pemilik -> Page] /\ Pages' /\ NamaTunggal'
  <2>1. CASE setup' = setup
    BY <1>1, <1>6, <2>1, PagesLeft DEF ServerType
  <2>2. CASE \E p \in Pemilik : Stop(p)
    <3>1. PICK p \in Pemilik : setup' = [setup EXCEPT ![p] = Idle(setup[p].nama)]
      BY <2>2 DEF Stop, Goto
    <3> DEFINE page == Idle(setup[p].nama)
    <3>2. /\ GoodPage(cabang, used, hapus, page) /\ page \in Page
          /\ setup' = [setup EXCEPT ![p] = page]
      BY <3>1, StoppedPage, PageType DEF IInv
    <3> HIDE DEF page
    <3> QED
      BY <1>1, <1>6, <3>2, PageStep DEF ServerType
  <2> QED
    BY <2>1, <2>2
<1>8. ServerType'
  <2>1. cabang' \in [CabangId -> Row \cup {None}]
    BY <1>1, <1>2, <1>3 DEF ServerType
  <2> QED
    BY <1>1, <1>7, <2>1 DEF ServerType
<1>9. Wired' /\ Untouched' /\ UserCoherent'
  <2>1. CASE Issue(Del(c, None))
    BY <1>5, <2>1, DelUsers
  <2>2. CASE cabang' = [cabang EXCEPT ![c].users = u] /\ DelThenSet(c, cabang'[c].users)
    <3>1. cabang'[c].users \in Users
      BY <1>5 DEF Row
    <3> QED
      BY <1>5, <2>2, <3>1, DelSetUsers
  <2> QED
    BY <2>1, <2>2
<1> QED
  BY <1>7, <1>8, <1>9, Parts

\* The users with one of them changed are users.
LEMMA OneUser ==
    ASSUME IInv, NEW c \in Ada, NEW e \in Email, NEW v \in Peran \cup {None}
    PROVE  /\ [cabang[c].users EXCEPT ![e] = v] \in Users
           /\ [cabang EXCEPT ![c].users[e] = v]
                = [cabang EXCEPT ![c].users = [@ EXCEPT ![e] = v]]
           /\ c \in CabangId
<1>1. c \in CabangId /\ cabang[c].users \in Users
  BY RowFields DEF IInv, Ada
<1> QED
  BY <1>1 DEF Users

LEMMA AddUserStep ==
    ASSUME IInv, NEW c \in Ada, NEW e \in Email, NEW peran \in Peran,
           AddUser(c, e, peran), UNCHANGED <<reading, up>>,
           setup' = setup \/ \E p \in Pemilik : Stop(p)
    PROVE  IInv'
<1> DEFINE u == [cabang[c].users EXCEPT ![e] = peran]
<1>1. u \in Users /\ [cabang EXCEPT ![c].users[e] = peran] = [cabang EXCEPT ![c].users = u]
  BY OneUser
<1>2. /\ lost' = lost \ {c} /\ UNCHANGED <<used, hapus, stale, cache, replies>>
      /\ \/ Issue(Del(c, None)) /\ cabang' = cabang
         \/ /\ cabang' = [cabang EXCEPT ![c].users[e] = peran]
            /\ DelThenSet(c, cabang'[c].users)
  BY DEF AddUser
<1>3. stale' \in SUBSET CabangId
  BY <1>2 DEF IInv, TypeOK
<1> HIDE DEF u
<1>4. CASE Issue(Del(c, None)) /\ cabang' = cabang
  BY <1>1, <1>2, <1>3, <1>4, UsersStep
<1>5. CASE cabang' = [cabang EXCEPT ![c].users[e] = peran] /\ DelThenSet(c, cabang'[c].users)
  <2>1. cabang' = [cabang EXCEPT ![c].users = u]
    BY <1>1, <1>5
  <2> QED
    BY <1>1, <1>2, <1>3, <1>5, <2>1, UsersStep
<1> QED
  BY <1>2, <1>4, <1>5

LEMMA TambahmanagerStep ==
    ASSUME IInv, NEW p \in Pemilik, NEW e \in Email, NEW peran \in Peran,
           Tambahmanager(p, e, peran)
    PROVE  IInv'
<1> DEFINE c == setup[p].id
<1>1. c \in CabangId
  BY DEF Tambahmanager, IInv, Pages, GoodPage, TypeOK
<1>2. CASE cabang[c] # None
  <2>1. c \in Ada /\ AddUser(c, e, peran) /\ Stop(p) /\ UNCHANGED <<reading, up>>
    BY <1>1, <1>2 DEF Tambahmanager, Ada
  <2> QED
    BY <2>1, AddUserStep
<1>3. CASE cabang[c] = None
  <2>1. /\ Goto(p, [setup[p] EXCEPT !.pc = "hung"])
        /\ UNCHANGED <<realm, reading, up, lost, connection>>
    BY <1>3 DEF Tambahmanager, NoRedis
  <2> QED
    BY <2>1, HangStep
<1> QED
  BY <1>2, <1>3

LEMMA TambahpegawaiStep ==
    ASSUME IInv, NEW c \in CabangId, NEW e \in Email, NEW peran \in Peran,
           Tambahpegawai(c, e, peran)
    PROVE  IInv'
  BY AddUserStep DEF Tambahpegawai

LEMMA UpdateuserStep ==
    ASSUME IInv, NEW c \in CabangId, NEW e \in Email, NEW peran \in Peran,
           Updateuser(c, e, peran)
    PROVE  IInv'
<1>1. /\ c \in Ada /\ cabang' = [cabang EXCEPT ![c].users[e] = peran]
      /\ Issue(Del(c, None)) /\ lost' = lost \ {c}
      /\ UNCHANGED <<used, hapus, stale, setup, reading, up, cache, replies>>
      /\ stale' \in SUBSET CabangId
  BY DEF Updateuser, IInv, TypeOK
<1> DEFINE u == [cabang[c].users EXCEPT ![e] = peran]
<1>2. u \in Users /\ cabang' = [cabang EXCEPT ![c].users = u]
  BY <1>1, OneUser
<1> HIDE DEF u
<1> QED
  BY <1>1, <1>2, UsersStep

LEMMA DeleteuserStep ==
    ASSUME IInv, NEW c \in CabangId, NEW e \in Email, Deleteuser(c, e)
    PROVE  IInv'
<1>1. /\ c \in Ada /\ cabang' = [cabang EXCEPT ![c].users[e] = None]
      /\ Issue(Del(c, None)) /\ lost' = lost \ {c}
      /\ UNCHANGED <<used, hapus, setup, reading, up, cache, replies>>
      /\ stale' \in SUBSET CabangId
  BY DEF Deleteuser, IInv, TypeOK
<1> DEFINE u == [cabang[c].users EXCEPT ![e] = None]
<1>2. u \in Users /\ cabang' = [cabang EXCEPT ![c].users = u]
  BY <1>1, OneUser
<1> HIDE DEF u
<1> QED
  BY <1>1, <1>2, UsersStep

-----------------------------------------------------------------------------
(* Lists, and what Redis does *)

\* The branches and the pages are as they were.
LEMMA KeptBranches ==
    ASSUME IInv, UNCHANGED <<realm, setup>>
    PROVE  /\ UNCHANGED <<cabang, used, hapus, stale>>
           /\ Pages' /\ NamaTunggal'
<1>1. UNCHANGED <<cabang, used, hapus, stale>> /\ SameBranches
  BY DEF realm, SameBranches
<1> QED
  BY <1>1, PagesLeft

LEMMA ListStep ==
    ASSUME IInv, NEW c \in CabangId, List(c)
    PROVE  IInv'
<1> DEFINE k == Get(c, c)
<1>1. /\ UNCHANGED <<realm, setup, up, lost, cache, replies>> /\ Issue(k)
      /\ reading' = [reading EXCEPT ![c] = TRUE]
  BY DEF List
<1>2. UNCHANGED <<cabang, used, hapus, stale>> /\ Pages' /\ NamaTunggal'
  BY <1>1, KeptBranches
<1>3. k \in Commands(CabangId, Stored, CabangId) /\ \A x : ~IsWrite(k, x)
  BY CommandType DEF Stored, Get, IsWrite, Commands
<1>4. ServerType /\ Wired
  BY AllTyped DEF IInv
<1> HIDE DEF k
<1>5. /\ Wired'
      /\ \A x, w : WillHold(redisQ, cache[x], x, w)
                      => WillHold(redisQ', cache'[x], x, w)
  BY <1>1, <1>3, <1>4, IssueHolds DEF Wired, ConnectionType
<1>6. ServerType'
  BY <1>1, <1>2, <1>4 DEF ServerType
<1>7. UserCoherent'
  BY <1>1, <1>2, <1>5 DEF IInv, UserCoherent, Ada
<1>8. Untouched'
  BY <1>1, <1>2, <1>3, <1>4, PendingOther
  DEF IInv, Untouched, Issue, Wired, ConnectionType
<1> QED
  BY <1>2, <1>5, <1>6, <1>7, <1>8, Parts

LEMMA ListReplyStep ==
    ASSUME IInv, ListReply
    PROVE  IInv'
<1> DEFINE c == Head(replies).req
           T == [req : CabangId, val : Stored]
<1>1. /\ UNCHANGED <<realm, setup, up, lost, cache>> /\ replies' = Tail(replies)
      /\ reading' = [reading EXCEPT ![c] = FALSE] /\ replies # <<>>
      /\ \/ cabang[c] # None /\ Issue(Set(c, cabang[c].users))
         \/ redisQ' = redisQ
  BY DEF ListReply
<1>2. UNCHANGED <<cabang, used, hapus, stale>> /\ Pages' /\ NamaTunggal'
  BY <1>1, KeptBranches
<1>3. ServerType /\ Wired
  BY AllTyped DEF IInv
<1>4. Head(replies) \in T /\ replies' \in Seq(T)
  <2>1. replies \in Seq(T)
    BY <1>3 DEF Wired, ConnectionType
  <2> HIDE DEF T
  <2> QED
    BY <1>1, <2>1, HeadTail
<1>5. c \in CabangId
  BY <1>4
<1>6. ServerType'
  <2> HIDE DEF c
  <2> QED
    BY <1>1, <1>2, <1>3, <1>5 DEF ServerType
<1>7. CASE redisQ' = redisQ
  <2>1. Wired' /\ Untouched' /\ UserCoherent'
    BY <1>1, <1>2, <1>3, <1>4, <1>7
    DEF Wired, ConnectionType, IInv, Untouched, UserCoherent, Ada
  <2> QED
    BY <1>2, <1>6, <2>1, Parts
<1>8. CASE cabang[c] # None /\ Issue(Set(c, cabang[c].users))
  <2> DEFINE u == cabang[c].users
             k == Set(c, u)
  <2>1. u \in Users /\ c \in used /\ c \in Ada
    BY <1>5, <1>8, RowFields DEF IInv, Untouched
  <2> HIDE DEF c
  <2>2. /\ k \in Commands(CabangId, Stored, CabangId) /\ k.val = u
        /\ \A x : IsWrite(k, x) <=> x = c
    BY <1>5, <2>1 DEF Set, IsWrite, Commands, Stored
  <2>3. Issue(k) /\ cache' = cache
    BY <1>1, <1>8
  <2> HIDE DEF u, k
  <2>4. /\ Wired'
        /\ \A x, w : /\ WillHold(redisQ, cache[x], x, w)
                     /\ ~IsWrite(k, x) \/ k.val \in {None, w}
                     => WillHold(redisQ', cache'[x], x, w)
    BY <1>3, <1>4, <2>2, <2>3, IssueHolds DEF Wired
  <2>5. UserCoherent'
    BY <1>1, <1>2, <2>2, <2>4 DEF IInv, UserCoherent, Ada, u
  <2>6. Untouched'
    <3>1. ASSUME NEW d \in CabangId \ used PROVE ~Pending(redisQ', d)
      <4>1. ~IsWrite(k, d) /\ ~Pending(redisQ, d)
        BY <2>1, <2>2 DEF IInv, Untouched
      <4>2. redisQ \in Seq(Commands(CabangId, Stored, CabangId))
            /\ redisQ' = Append(redisQ, k)
        BY <1>3, <2>3 DEF Wired, ConnectionType, Issue
      <4> QED
        BY <2>2, <4>1, <4>2, PendingOther
    <3> QED
      BY <1>1, <1>2, <3>1 DEF IInv, Untouched
  <2> QED
    BY <1>2, <1>6, <2>4, <2>5, <2>6, Parts
<1> QED
  BY <1>1, <1>7, <1>8

LEMMA RedisStepStep ==
    ASSUME IInv, RedisStep
    PROVE  IInv'
<1>1. UNCHANGED <<realm, setup, reading, up, lost>> /\ Serve
  BY DEF RedisStep
<1>2. UNCHANGED <<cabang, used, hapus, stale>> /\ Pages' /\ NamaTunggal'
  BY <1>1, KeptBranches
<1>3. ServerType /\ Wired
  BY AllTyped DEF IInv
<1>4. Wired'
  BY <1>1, <1>3, ServeType DEF Wired, Stored
<1>5. ServerType'
  BY <1>1, <1>2, <1>3 DEF ServerType
<1>6. UserCoherent'
  <2>1. ASSUME NEW c \in Ada, c \notin lost
        PROVE  WillHold(redisQ', cache'[c], c, cabang[c].users)
    BY <1>1, <1>3, <2>1, ServeHolds DEF Wired, IInv, UserCoherent, Ada
  <2> QED
    BY <1>1, <1>2, <2>1 DEF UserCoherent, Ada
<1>7. Untouched'
  <2>1. ASSUME NEW d \in CabangId \ used
        PROVE  cache'[d] = None /\ ~Pending(redisQ', d)
    <3>1. /\ redisQ \in Seq(Commands(CabangId, Stored, CabangId)) /\ redisQ # <<>>
          /\ redisQ' = Tail(redisQ) /\ cache \in [CabangId -> Stored]
          /\ Head(redisQ) \in Commands(CabangId, Stored, CabangId)
      BY <1>1, <1>3, HeadTail DEF Wired, ConnectionType, Serve
    <3>2. ~Pending(redisQ', d) /\ ~IsWrite(Head(redisQ), d) /\ cache[d] = None
      BY <3>1, PendingTail DEF IInv, Untouched
    <3> DEFINE k == Head(redisQ)
    <3>3. cache' = IF k.op = "get" THEN cache ELSE [cache EXCEPT ![k.key] = k.val]
      BY <1>1 DEF Serve
    <3> HIDE DEF k
    <3>4. ~(k.key = d /\ k.op # "get")
      BY <3>2 DEF k, IsWrite
    <3> QED
      BY <3>1, <3>2, <3>3, <3>4
  <2> QED
    BY <1>2, <2>1 DEF IInv, Untouched
<1> QED
  BY <1>2, <1>4, <1>5, <1>6, <1>7, Parts

-----------------------------------------------------------------------------
(* Deletion, death and restart *)

LEMMA DeletecabangStep ==
    ASSUME IInv, NEW c \in CabangId, Deletecabang(c)
    PROVE  IInv'
<1>1. /\ c \in Ada /\ cabang' = [cabang EXCEPT ![c] = None]
      /\ hapus' = hapus + 1 /\ hapus < MaxHapus
      /\ UNCHANGED <<used, stale, setup, reading, up, lost, connection>>
  BY DEF Deletecabang, NoRedis
<1>2. ServerType
  BY AllTyped DEF IInv
<1>3. hapus' \in 0..MaxHapus /\ hapus' # 0
  BY <1>1, <1>2, CabangAssumption DEF ServerType
<1>4. ServerType'
  BY <1>1, <1>2, <1>3 DEF ServerType
<1>5. cabang'[c] = None /\ \A d \in CabangId : d # c => cabang'[d] = cabang[d]
  BY <1>1, <1>2 DEF ServerType
<1>6. Wired' /\ Untouched' /\ UserCoherent'
  BY <1>1, <1>5, QuietUsers
<1>7. NamaTunggal'
  BY <1>5 DEF IInv, NamaTunggal, Ada
<1>8. Pages'
  <2>1. ASSUME NEW p \in Pemilik PROVE GoodPage(cabang', used', hapus', setup'[p])
    <3>1. GoodPage(cabang, used, hapus, setup[p]) /\ used \subseteq CabangId
      BY DEF IInv, TypeOK, Pages
    <3> QED
      BY <1>1, <1>3, <1>5, <3>1 DEF GoodPage, KnowsName
  <2> QED
    BY <2>1 DEF Pages
<1> QED
  BY <1>4, <1>6, <1>7, <1>8, Parts

\* The commands that had not left die with the process.
LEMMA DieStep ==
    ASSUME IInv, Die
    PROVE  IInv'
<1>1. /\ UNCHANGED <<realm, setup, cache>> /\ redisQ' = <<>> /\ replies' = <<>>
      /\ up' = FALSE /\ reading' = [c \in CabangId |-> FALSE]
      /\ lost' = lost \cup {c \in CabangId : Pending(redisQ, c)}
  BY DEF Die
<1>2. UNCHANGED <<cabang, used, hapus, stale>> /\ Pages' /\ NamaTunggal'
  BY <1>1, KeptBranches
<1>3. ServerType /\ Wired
  BY AllTyped DEF IInv
<1>4. ServerType' /\ Wired'
  <2>1. ServerType'
    <3>1. reading' \in [CabangId -> BOOLEAN] /\ lost' \in SUBSET CabangId
      BY <1>1, <1>3 DEF ServerType
    <3> QED
      BY <1>1, <1>2, <1>3, <3>1 DEF ServerType
  <2>2. Wired'
    BY <1>1, <1>3 DEF Wired, ConnectionType
  <2> QED
    BY <2>1, <2>2
<1>5. UserCoherent'
  <2>1. ASSUME NEW c \in Ada, c \notin lost'
        PROVE  WillHold(<<>>, cache[c], c, cabang[c].users)
    <3>1. c \notin lost /\ ~Pending(redisQ, c)
      BY <1>1, <2>1 DEF Ada
    <3> QED
      BY <3>1, NoQueue DEF IInv, UserCoherent
  <2> QED
    BY <1>1, <1>2, <2>1 DEF UserCoherent, Ada
<1>6. Untouched'
  BY <1>1, <1>2 DEF IInv, Untouched, Pending
<1> QED
  BY <1>2, <1>4, <1>5, <1>6, Parts

LEMMA RestartStep ==
    ASSUME IInv, Restart
    PROVE  IInv'
<1>1. UNCHANGED <<realm, setup, reading, lost, connection>> /\ up' = TRUE
  BY DEF Restart
<1>2. UNCHANGED <<cabang, used, hapus, stale>> /\ Pages' /\ NamaTunggal'
  BY <1>1, KeptBranches
<1>3. ServerType'
  BY <1>1, <1>2, AllTyped DEF IInv, ServerType
<1>4. Wired' /\ Untouched' /\ UserCoherent'
  BY <1>1, <1>2, QuietUsers
<1> QED
  BY <1>2, <1>3, <1>4, Parts

-----------------------------------------------------------------------------
(* The invariance *)

LEMMA InitIInv == Init => IInv
<1> SUFFICES ASSUME Init PROVE IInv
  OBVIOUS
<1>1. TypeOK
  <2>1. ServerType
    BY CabangAssumption DEF Init, ServerType, Page, Idle
  <2>2. Wired
    BY DEF Init, Wired, ConnectionType, Stored
  <2> QED
    BY <2>1, <2>2, AllTyped
<1>2. Untouched /\ NamaTunggal /\ UserCoherent
  BY DEF Init, Untouched, NamaTunggal, UserCoherent, Ada, Pending
<1>3. Pages
  BY DEF Init, Pages, GoodPage, KnowsName, Idle
<1> QED
  BY <1>1, <1>2, <1>3 DEF IInv

LEMMA NextIInv == IInv /\ [Next]_vars => IInv'
<1> SUFFICES ASSUME IInv, [Next]_vars PROVE IInv'
  OBVIOUS
<1>1. ASSUME NEW p \in Pemilik, Setup(p) PROVE IInv'
  <2>1. ASSUME Abandon(p) PROVE IInv'
    BY <2>1, StopStep DEF Abandon, NoRedis
  <2> QED
    BY <1>1, <2>1, TambahcabangStep, CaricabangStep, TambahgudangStep,
       CaricabangmanagerStep, TambahmanagerStep DEF Setup
<1>2. ASSUME NEW c \in CabangId, Kelola(c) PROVE IInv'
  BY <1>2, TambahpegawaiStep, UpdateuserStep, DeleteuserStep, ListStep,
     DeletecabangStep, DieStep DEF Kelola, DeleteuserGone, DeletecabangGone
<1>3. ASSUME UNCHANGED vars PROVE IInv'
  <2>1. /\ UNCHANGED <<realm, setup>> /\ UNCHANGED <<reading, up, lost, connection>>
    BY <1>3 DEF vars
  <2>2. UNCHANGED <<cabang, used, hapus, stale>> /\ Pages' /\ NamaTunggal'
    BY <2>1, KeptBranches
  <2>3. ServerType'
    BY <2>1, <2>2, AllTyped DEF IInv, ServerType
  <2>4. Wired' /\ Untouched' /\ UserCoherent'
    BY <2>1, <2>2, QuietUsers
  <2> QED
    BY <2>2, <2>3, <2>4, Parts
<1> QED
  BY <1>1, <1>2, <1>3, ListReplyStep, RedisStepStep, DieStep, RestartStep DEF Next, Crash

\* The invariant: the connection of cabang.js and user.js holds nothing of an id
\* that was never handed out, names of branches are unique, and every page of
\* startup_controller.dart is right about the branch it acts on.
THEOREM Invariance == Spec => []IInv
  BY InitIInv, NextIInv, PTL DEF Spec

\* Every variable keeps its type, whatever the branches, users and devices.
THEOREM TypeInvariant == Spec => []TypeOK
<1>1. IInv => TypeOK
  BY DEF IInv
<1> QED
  BY Invariance, <1>1, PTL

\* What user.js leaves in Redis for a branch is nothing or the users in Realm,
\* however many lists, changes and crashes are interleaved, a write that a crash
\* lost apart.
THEOREM UserCoherentAlways == Spec => []UserCoherent
<1>1. IInv => UserCoherent
  BY DEF IInv
<1> QED
  BY Invariance, <1>1, PTL

\* startup_controller.dart adds a manager where the warehouse is, as long as no
\* branch was deleted: the stored name leads back to that branch.
THEOREM ManagerHasGudangAlways == Spec => []ManagerHasGudang
<1>1. IInv => ManagerHasGudang
  BY DEF IInv, Pages, GoodPage, ManagerHasGudang
<1> QED
  BY Invariance, <1>1, PTL

-----------------------------------------------------------------------------
(* The refinement *)

\* Who reads the list of a branch awaits the get of its key.
Lists == \A c \in CabangId : Listens(reading[c], c)

CacheInv == IInv /\ Lists

LEMMA NoKey == None \notin CabangId /\ None \in Stored /\ None \notin Users
  BY CabangAssumption DEF Stored

\* What the mapping makes of the branches, the queue and the lists.
LEMMA TruthOf ==
    /\ \A c \in CabangId : Truths[c] = IF cabang[c] = None THEN None ELSE cabang[c].users
    /\ \A c \in CabangId : Truths'[c] = IF cabang'[c] = None THEN None ELSE cabang'[c].users
  BY DEF Truths, Ada

LEMMA MappedType ==
    /\ IInv => Truths \in [CabangId -> Stored] /\ Entries \in [CabangId -> Stored]
    /\ IInv' => Truths' \in [CabangId -> Stored] /\ Entries' \in [CabangId -> Stored]
<1>1. ASSUME IInv PROVE Truths \in [CabangId -> Stored] /\ Entries \in [CabangId -> Stored]
  <2>1. Truths \in [CabangId -> Stored]
    BY <1>1 DEF IInv, TypeOK, Row, Truths, Ada, Stored
  <2>2. Entries \in [CabangId -> Stored]
    BY <1>1, WiredType, OutcomeType DEF IInv, Wired, ConnectionType, Entries, Future
  <2> QED
    BY <2>1, <2>2
<1>2. ASSUME IInv' PROVE Truths' \in [CabangId -> Stored] /\ Entries' \in [CabangId -> Stored]
  <2>1. Truths' \in [CabangId -> Stored]
    BY <1>2 DEF IInv, TypeOK, Row, Truths, Ada, Stored
  <2>2. Wired'
    BY <1>2, AllTyped DEF IInv
  <2>3. Entries' \in [CabangId -> Stored]
    BY <2>2, OutcomeType DEF Wired, ConnectionType, Entries, Future
  <2> QED
    BY <2>1, <2>3
<1> QED
  BY <1>1, <1>2

\* Lists that wait go on waiting for what they were promised.
LEMMA CallsSame ==
    ASSUME CacheInv, reading' = reading,
           \A c \in CabangId, asks \in BOOLEAN : KeepsListening(asks, c)
    PROVE  Lists' /\ Calls' = Calls
<1>1. ASSUME NEW c \in CabangId
      PROVE  Listens(reading[c], c)' /\ (reading[c] => Promised(c)' = Promised(c))
  <2>1. PICK asks \in BOOLEAN : asks = reading[c]
    BY DEF CacheInv, IInv, TypeOK
  <2>2. Listens(asks, c) /\ KeepsListening(asks, c)
    BY <2>1 DEF CacheInv, Lists
  <2>3. Listens(asks, c)' /\ (asks => Promised(c)' = Promised(c))
    BY <2>2 DEF KeepsListening
  <2> QED
    BY <2>1, <2>3 DEF Listens
<1> QED
  BY <1>1 DEF Lists, Calls

\* The branches change while the connection is quiet: a branch comes that Redis
\* knows nothing of, or goes.
LEMMA QuietMaps ==
    ASSUME CacheInv, IInv', UNCHANGED <<reading, lost, connection>>,
           \A c \in CabangId : \/ Truths'[c] \in {Truths[c], None}
                               \/ c \notin used
    PROVE  Lists' /\ Cached!Write
<1>1. UNCHANGED <<cache, redisQ, replies>>
  BY DEF connection
<1>2. Lists' /\ Calls' = Calls /\ Entries' = Entries
  BY <1>1 DEF CacheInv, Lists, Listens, Awaits, Silent, Calls, Promised, Entries, Future
<1>3. \A c \in CabangId \ used : Entries'[c] = None
  <2>1. ASSUME NEW c \in CabangId \ used PROVE Entries[c] = None
    <3>1. ~Pending(redisQ, c) /\ cache[c] = None
      BY DEF CacheInv, IInv, Untouched
    <3> QED
      BY <3>1, OutcomeEntry DEF Entries, Future
  <2> QED
    BY <1>2, <2>1
<1>4. \A c \in CabangId :
        \/ Cached!Current(c)'
        \/ Entries'[c] = Entries[c] /\ Truths'[c] \in {Truths[c], None}
  BY <1>2, <1>3 DEF Cached!Current
<1>5. Truths' \in [CabangId -> Users \cup {None}] /\ Entries' \in [CabangId -> Users \cup {None}]
  BY MappedType DEF Stored
<1> QED
  BY <1>2, <1>4, <1>5 DEF Cached!Write

\* The key of a branch is deleted, or set to its users.
LEMMA WriteMaps ==
    ASSUME CacheInv, IInv', NEW c \in Ada, cabang'[c] # None, lost' = lost \ {c},
           UNCHANGED <<reading, cache, replies>>,
           Issue(Del(c, None)) \/ DelThenSet(c, cabang'[c].users),
           \A d \in CabangId : d # c => cabang'[d] = cabang[d]
    PROVE  Lists' /\ Cached!Write
<1>1. c \in CabangId /\ Wired /\ Wired'
  BY AllTyped DEF CacheInv, IInv, Ada
<1>2. PICK v \in Stored : /\ v \in {None, Truths'[c]}
                          /\ (v = None /\ Issue(Del(c, None))) \/ DelThenSet(c, v)
  <2>1. Truths'[c] = cabang'[c].users /\ Truths'[c] \in Stored
    BY <1>1, TruthOf, MappedType
  <2> QED
    BY <2>1, NoKey
<1>3. /\ \A r \in CabangId, asks \in BOOLEAN : r # None => KeepsListening(asks, r)
      /\ \A x : Future(redisQ, x)' = IF x = c THEN v ELSE Future(redisQ, x)
  BY <1>1, <1>2, NoKey, ListensWrite DEF Wired
<1>4. Lists' /\ Calls' = Calls
  BY <1>3, NoKey, CallsSame
<1>5. \A x \in CabangId : Entries'[x] = IF x = c THEN v ELSE Entries[x]
  BY <1>3 DEF Entries
<1>6. \A x \in CabangId : x # c => Truths'[x] = Truths[x]
  BY TruthOf
<1>7. /\ \A x \in CabangId :
           \/ Cached!Current(x)'
           \/ Entries'[x] = Entries[x] /\ Truths'[x] \in {Truths[x], None}
      /\ \A x \in lost \ lost' : Cached!Current(x)'
  BY <1>1, <1>2, <1>5, <1>6 DEF Cached!Current
<1>8. Truths' \in [CabangId -> Users \cup {None}] /\ Entries' \in [CabangId -> Users \cup {None}]
  BY MappedType DEF Stored
<1> QED
  BY <1>4, <1>7, <1>8 DEF Cached!Write

\* Users of a branch change.
LEMMA RowChanged ==
    ASSUME IInv, NEW c \in Ada, NEW u \in Users, cabang' = [cabang EXCEPT ![c].users = u]
    PROVE  /\ cabang'[c] # None /\ cabang'[c].users = u
           /\ \A d \in CabangId : d # c => cabang'[d] = cabang[d]
<1> DEFINE row == [cabang[c] EXCEPT !.users = u]
<1>1. c \in CabangId /\ cabang[c] \in Row /\ ServerType
  BY RowFields, AllTyped DEF IInv, Ada
<1>2. row \in Row /\ row.users = u /\ row # None
  BY <1>1, CabangAssumption DEF Row
<1>3. cabang' = [cabang EXCEPT ![c] = row]
  OBVIOUS
<1> HIDE DEF row
<1> QED
  BY <1>1, <1>2, <1>3 DEF ServerType

LEMMA AddUserMaps ==
    ASSUME CacheInv, IInv', NEW c \in Ada, NEW e \in Email, NEW peran \in Peran,
           AddUser(c, e, peran), reading' = reading
    PROVE  Lists' /\ Cached!Write
<1>1. lost' = lost \ {c} /\ UNCHANGED <<reading, cache, replies>>
  BY DEF AddUser
<1>2. CASE Issue(Del(c, None)) /\ cabang' = cabang
  BY <1>1, <1>2, WriteMaps DEF Ada
<1>3. CASE /\ cabang' = [cabang EXCEPT ![c].users[e] = peran]
           /\ DelThenSet(c, cabang'[c].users)
  <2> DEFINE u == [cabang[c].users EXCEPT ![e] = peran]
  <2>1. u \in Users /\ cabang' = [cabang EXCEPT ![c].users = u]
    BY <1>3, OneUser DEF CacheInv
  <2> HIDE DEF u
  <2>2. cabang'[c] # None /\ \A d \in CabangId : d # c => cabang'[d] = cabang[d]
    BY <2>1, RowChanged DEF CacheInv
  <2> QED
    BY <1>1, <1>3, <2>2, WriteMaps
<1> QED
  BY <1>2, <1>3 DEF AddUser

\* updateUser and deleteUser: the key is deleted.
LEMMA ChangeMaps ==
    ASSUME CacheInv, IInv', NEW c \in Ada, NEW e \in Email, NEW v \in Peran \cup {None},
           cabang' = [cabang EXCEPT ![c].users[e] = v], Issue(Del(c, None)),
           lost' = lost \ {c}, UNCHANGED <<reading, cache, replies>>
    PROVE  Lists' /\ Cached!Write
<1> DEFINE u == [cabang[c].users EXCEPT ![e] = v]
<1>1. u \in Users /\ cabang' = [cabang EXCEPT ![c].users = u]
  BY OneUser DEF CacheInv
<1> HIDE DEF u
<1>2. cabang'[c] # None /\ \A d \in CabangId : d # c => cabang'[d] = cabang[d]
  BY <1>1, RowChanged DEF CacheInv
<1> QED
  BY <1>2, WriteMaps

\* The set-up of a branch, apart from the manager: a branch comes, or the
\* users stay.
LEMMA SetupMaps ==
    ASSUME CacheInv, IInv', NEW p \in Pemilik, Setup(p)
    PROVE  Lists' /\ Cached!Write
<1>1. ASSUME UNCHANGED <<realm, reading, lost, connection>> PROVE Lists' /\ Cached!Write
  <2>1. cabang' = cabang
    BY <1>1 DEF realm
  <2>2. \A c \in CabangId : Truths'[c] = Truths[c]
    BY <2>1, TruthOf
  <2> QED
    BY <1>1, <2>2, QuietMaps
<1>2. ASSUME NEW n \in Nama, Tambahcabang(p, n) PROVE Lists' /\ Cached!Write
  <2>1. UNCHANGED <<reading, lost, connection>>
    BY <1>2 DEF Tambahcabang, NoRedis
  <2>2. ASSUME NEW c \in CabangId \ used, Buat(p, n, c) PROVE Lists' /\ Cached!Write
    <3>1. \A d \in CabangId : d # c => cabang'[d] = cabang[d]
      BY <2>2 DEF Buat, CacheInv, IInv, TypeOK
    <3>2. \A d \in CabangId : d \in used => Truths'[d] = Truths[d]
      BY <2>2, <3>1, TruthOf
    <3> QED
      BY <2>1, <3>2, QuietMaps
  <2> QED
    BY <1>1, <1>2, <2>1, <2>2 DEF Tambahcabang
<1>3. ASSUME Tambahgudang(p) PROVE Lists' /\ Cached!Write
  <2>1. UNCHANGED <<used, reading, lost, connection>>
    BY <1>3 DEF Tambahgudang, NoRedis
  <2>2. \A d \in CabangId : Truths'[d] = Truths[d]
    <3> DEFINE c == setup[p].id
    <3>1. CASE cabang' = cabang
      BY <3>1, TruthOf
    <3>2. CASE cabang[c] # None /\ cabang' = [cabang EXCEPT ![c].gudang = 1]
      <4> DEFINE row == [cabang[c] EXCEPT !.gudang = 1]
      <4>1. setup[p].pc = "gudang" /\ c \in CabangId
        BY <1>3 DEF Tambahgudang, CacheInv, IInv, Pages, GoodPage, TypeOK
      <4>2. row.users = cabang[c].users /\ row # None
        BY <3>2, <4>1, RowFields, CabangAssumption DEF CacheInv, IInv, Row
      <4>3. cabang' = [cabang EXCEPT ![c] = row] /\ cabang \in [CabangId -> Row \cup {None}]
        BY <3>2 DEF CacheInv, IInv, TypeOK
      <4> HIDE DEF row, c
      <4>4. cabang'[c] = row /\ \A d \in CabangId : d # c => cabang'[d] = cabang[d]
        BY <4>1, <4>3
      <4> QED
        BY <3>2, <4>2, <4>4, TruthOf DEF c
    <3> QED
      BY <1>3, <3>1, <3>2 DEF Tambahgudang
  <2> QED
    BY <2>1, <2>2, QuietMaps
<1>4. ASSUME NEW e \in Email, NEW peran \in Peran, Tambahmanager(p, e, peran)
      PROVE  Lists' /\ Cached!Write
  <2> DEFINE c == setup[p].id
  <2>1. c \in CabangId
    BY <1>4 DEF Tambahmanager, CacheInv, IInv, Pages, GoodPage, TypeOK
  <2>2. CASE cabang[c] # None
    <3>1. c \in Ada /\ AddUser(c, e, peran) /\ reading' = reading
      BY <1>4, <2>1, <2>2 DEF Tambahmanager, Ada
    <3> QED
      BY <3>1, AddUserMaps
  <2>3. CASE cabang[c] = None
    <3>1. UNCHANGED <<realm, reading, lost, connection>>
      BY <1>4, <2>3 DEF Tambahmanager, NoRedis
    <3> QED
      BY <1>1, <3>1
  <2> QED
    BY <2>2, <2>3
<1>5. ASSUME Caricabang(p) \/ Caricabangmanager(p) \/ Abandon(p)
      PROVE  Lists' /\ Cached!Write
  BY <1>1, <1>5 DEF Caricabang, Caricabangmanager, Abandon, NoRedis
<1> QED
  BY <1>2, <1>3, <1>4, <1>5 DEF Setup


\* Only the list of one branch begins or ends.
LEMMA OneCall ==
    ASSUME CacheInv, NEW c \in CabangId, NEW asks \in BOOLEAN,
           reading' = [reading EXCEPT ![c] = asks], Listens(asks, c)',
           \A d \in CabangId, other \in BOOLEAN : d # c => KeepsListening(other, d)
    PROVE  /\ Lists'
           /\ Calls' = [Calls EXCEPT ![c] =
                          [key |-> IF asks THEN c ELSE None,
                           val |-> IF asks THEN Promised(c)' ELSE None]]
<1>1. reading \in [CabangId -> BOOLEAN]
  BY DEF CacheInv, IInv, TypeOK
<1>2. reading'[c] = asks /\ \A d \in CabangId : d # c => reading'[d] = reading[d]
  BY <1>1
<1>3. ASSUME NEW d \in CabangId, d # c
      PROVE  Listens(reading[d], d)' /\ (reading[d] => Promised(d)' = Promised(d))
  <2>1. PICK other \in BOOLEAN : other = reading[d]
    BY <1>1
  <2>2. Listens(other, d) /\ KeepsListening(other, d)
    BY <1>3, <2>1 DEF CacheInv, Lists
  <2>3. Listens(other, d)' /\ (other => Promised(d)' = Promised(d))
    BY <2>2 DEF KeepsListening
  <2>4. reading'[d] = other
    BY <1>2, <1>3, <2>1
  <2> QED
    BY <2>1, <2>3, <2>4 DEF Listens
<1>4. Lists'
  <2>1. Listens(reading[c], c)'
    BY <1>2 DEF Listens
  <2> QED
    BY <1>3, <2>1 DEF Lists
<1> DEFINE a == [key |-> IF asks THEN c ELSE None, val |-> IF asks THEN Promised(c)' ELSE None]
<1>5. Calls'[c] = a
  BY <1>2 DEF Calls
<1>6. \A d \in CabangId : d # c => Calls'[d] = Calls[d]
  BY <1>2, <1>3 DEF Calls
<1>7. DOMAIN Calls' = CabangId /\ DOMAIN Calls = CabangId /\ Calls' = [d \in CabangId |-> Calls'[d]]
  BY DEF Calls
<1> HIDE DEF a
<1>8. Calls' = [Calls EXCEPT ![c] = a]
  BY <1>5, <1>6, <1>7
<1> QED
  BY <1>4, <1>8 DEF a

LEMMA CallOf ==
    ASSUME CacheInv, NEW c \in CabangId
    PROVE  /\ reading[c] = FALSE => Calls[c] = Cached!Idle
           /\ reading[c] => /\ Calls[c].key = c /\ Calls[c].val = Promised(c)
                            /\ Calls[c] # Cached!Idle
  BY NoKey DEF Calls, Cached!Idle

\* user/listuser asks Redis.
LEMMA ListMaps ==
    ASSUME CacheInv, IInv', NEW c \in CabangId, List(c)
    PROVE  Lists' /\ Cached!Read(c, c)
<1>1. /\ ~reading[c] /\ reading' = [reading EXCEPT ![c] = TRUE] /\ Issue(Get(c, c))
      /\ UNCHANGED <<realm, lost, cache, replies>>
  BY DEF List
<1>2. Wired /\ Wired' /\ reading[c] = FALSE
  BY <1>1, AllTyped DEF CacheInv, IInv, TypeOK
<1>3. Listens(FALSE, c)
  BY <1>2 DEF CacheInv, Lists
<1>4. /\ Listens(TRUE, c)' /\ Promised(c)' = Future(redisQ, c)
      /\ \A d \in CabangId, other \in BOOLEAN : d # c => KeepsListening(other, d)
      /\ \A x : Future(redisQ, x)' = Future(redisQ, x)
  BY <1>1, <1>2, <1>3, NoKey, ListensAsk DEF Wired
<1>5. PICK asks \in BOOLEAN : asks = TRUE
  OBVIOUS
<1>6. /\ Lists'
      /\ Calls' = [Calls EXCEPT ![c] = [key |-> c, val |-> Promised(c)']]
  BY <1>1, <1>4, <1>5, OneCall
<1>7. Entries' = Entries /\ Entries[c] = Future(redisQ, c) /\ Truths' = Truths
  BY <1>1, <1>4 DEF Entries, Truths, Ada, realm
<1> QED
  BY <1>1, <1>2, <1>4, <1>6, <1>7, CallOf DEF Cached!Read

\* The list comes: a miss is filled with the users of the branch, if it is there.
LEMMA ListReplyMaps ==
    ASSUME CacheInv, IInv', ListReply
    PROVE  Lists' /\ \E c \in CabangId : Cached!Answer(c)
<1>1. /\ replies # <<>> /\ replies' = Tail(replies)
      /\ UNCHANGED <<realm, lost, cache>>
  BY DEF ListReply
<1>2. Wired /\ Wired' /\ ServerType
  BY AllTyped DEF CacheInv, IInv
<1>3. Head(replies).req \in CabangId
  <2> DEFINE T == [req : CabangId, val : Stored]
  <2>1. replies \in Seq(T)
    BY <1>2 DEF Wired, ConnectionType
  <2> HIDE DEF T
  <2>2. Head(replies) \in T
    BY <1>1, <2>1
  <2> QED
    BY <2>2 DEF T
<1>4. PICK c \in CabangId : c = Head(replies).req
  BY <1>3
<1>5. PICK asks \in BOOLEAN : asks = reading[c]
  BY <1>2 DEF ServerType
<1>6. PICK w \in BOOLEAN : w <=> Head(replies).val = None /\ cabang[c] # None
  OBVIOUS
<1>7. PICK v \in Stored : cabang[c] # None => v = cabang[c].users
  BY <1>2, <1>4, RowFields, NoKey DEF ServerType, Stored, Row
<1>8. /\ (w /\ Issue(Set(c, v))) \/ (~w /\ redisQ' = redisQ)
      /\ reading' = [reading EXCEPT ![c] = FALSE]
  BY <1>4, <1>6, <1>7 DEF ListReply
<1>9. Listens(asks, c)
  BY <1>5 DEF CacheInv, Lists
<1>10. /\ asks /\ Promised(c) = Head(replies).val /\ Listens(FALSE, c)'
       /\ \A d \in CabangId, other \in BOOLEAN : d # c => KeepsListening(other, d)
       /\ \A x : Future(redisQ, x)' = IF w /\ x = c THEN v ELSE Future(redisQ, x)
  <2>1. ConnectionType(CabangId, Stored, CabangId) /\ ConnectionType(CabangId, Stored, CabangId)'
    BY <1>2 DEF Wired
  <2>2. /\ replies # <<>> /\ Head(replies).req = c /\ replies' = Tail(replies) /\ cache' = cache
        /\ None \in Stored /\ None \notin CabangId
    BY <1>1, <1>4, NoKey
  <2>3. (w /\ Issue(Set(c, v))) \/ (~w /\ redisQ' = redisQ)
    BY <1>8
  <2>4. /\ asks = TRUE /\ Promised(c) = Head(replies).val /\ Listens(FALSE, c)'
        /\ \A d \in CabangId, other \in BOOLEAN : d # c => KeepsListening(other, d)
    BY <1>9, <2>1, <2>2, <2>3, ListensReply
  <2>5. CASE w
    <3>1. Issue(Set(c, v))
      BY <2>3, <2>5
    <3>2. \A x : Future(redisQ, x)' = IF x = c THEN v ELSE Future(redisQ, x)
      BY <2>1, <2>2, <3>1, SetFuture
    <3> QED
      BY <2>4, <2>5, <3>2
  <2>6. CASE ~w
    BY <2>2, <2>3, <2>4, <2>6 DEF Future
  <2> QED
    BY <2>5, <2>6
<1>11. PICK done \in BOOLEAN : done = FALSE
  OBVIOUS
<1>12. Lists' /\ Calls' = [Calls EXCEPT ![c] = Cached!Idle]
  BY <1>8, <1>10, <1>11, OneCall DEF Cached!Idle
<1>13. Calls[c].key = c /\ Calls[c].val = Promised(c) /\ Calls[c] # Cached!Idle
  BY <1>5, <1>10, CallOf
<1>14. Truths' = Truths /\ Truths[c] = IF cabang[c] = None THEN None ELSE cabang[c].users
  BY <1>1, TruthOf DEF Truths, Ada, realm
<1>15. Truths[c] # None <=> cabang[c] # None
  BY <1>2, <1>14, RowFields, NoKey DEF ServerType, Row
<1>16. Entries' = IF Calls[c].val = None /\ Truths[c] # None
                  THEN [Entries EXCEPT ![c] = Truths[c]] ELSE Entries
  <2>1. /\ Entries' = [x \in CabangId |-> IF w /\ x = c THEN v ELSE Entries[x]]
        /\ Entries = [x \in CabangId |-> Entries[x]]
    BY <1>10 DEF Entries
  <2>2. w <=> Calls[c].val = None /\ Truths[c] # None
    BY <1>6, <1>10, <1>13, <1>15
  <2>3. w => v = Truths[c]
    BY <1>6, <1>7, <1>14
  <2> QED
    BY <2>1, <2>2, <2>3
<1>17. Cached!Answer(c)
  BY <1>1, <1>12, <1>13, <1>14, <1>16 DEF Cached!Answer
<1> QED
  BY <1>12, <1>17

\* cabang/delete leaves the entry of a branch that stands for nothing now.
LEMMA DeletecabangMaps ==
    ASSUME CacheInv, IInv', NEW c \in CabangId, Deletecabang(c)
    PROVE  Lists' /\ Cached!Write
<1>1. cabang' = [cabang EXCEPT ![c] = None] /\ UNCHANGED <<reading, lost, connection>>
  BY DEF Deletecabang, NoRedis
<1>2. /\ cabang'[c] = None
      /\ \A d \in CabangId : d # c => cabang'[d] = cabang[d]
  BY <1>1 DEF CacheInv, IInv, TypeOK
<1>3. \A d \in CabangId : Truths'[d] \in {Truths[d], None}
  BY <1>2, TruthOf
<1> QED
  BY <1>1, <1>3, QuietMaps

LEMMA DieMaps ==
    ASSUME CacheInv, IInv', Die
    PROVE  Lists' /\ Cached!Die
<1>1. /\ UNCHANGED <<realm, cache>> /\ redisQ' = <<>> /\ replies' = <<>>
      /\ reading' = [c \in CabangId |-> FALSE]
      /\ lost' = lost \cup {c \in CabangId : Pending(redisQ, c)}
  BY DEF Die
<1>2. /\ \A k : Listens(FALSE, k)'
      /\ \A x : ~Pending(redisQ, x) => Future(redisQ, x)' = Future(redisQ, x)
  BY <1>1, ListensDie
<1>3. Lists'
  BY <1>1, <1>2 DEF Lists, Listens
<1>4. Calls' = [c \in CabangId |-> Cached!Idle]
  BY <1>1 DEF Calls, Cached!Idle
<1>5. Truths' = Truths
  BY <1>1 DEF Truths, Ada, realm
<1>6. \A x \in CabangId \ lost' : Entries'[x] = Entries[x]
  BY <1>1, <1>2 DEF Entries
<1>7. lost \subseteq lost' /\ lost' \subseteq CabangId
  BY <1>1 DEF CacheInv, IInv, TypeOK
<1>8. Entries' \in [CabangId -> Users \cup {None}]
  BY MappedType DEF Stored
<1> QED
  BY <1>3, <1>4, <1>5, <1>6, <1>7, <1>8 DEF Cached!Die

\* A step of the connection alone, of the server coming back, and none at all.
LEMMA ServeMaps ==
    ASSUME CacheInv, UNCHANGED <<cabang, reading, lost>>,
           Serve \/ UNCHANGED connection
    PROVE  Lists' /\ UNCHANGED <<Truths, Entries, Calls, lost>>
<1>1. Truths' = Truths
  BY DEF Truths, Ada
<1>2. CASE Serve
  <2>1. Wired
    BY AllTyped DEF CacheInv, IInv
  <2>2. /\ \A c \in CabangId, asks \in BOOLEAN : KeepsListening(asks, c)
        /\ \A x \in CabangId : Future(redisQ, x)' = Future(redisQ, x)
    BY <1>2, <2>1, NoKey, ListensServe DEF Wired
  <2>3. Entries' = Entries
    BY <2>2 DEF Entries
  <2> QED
    BY <1>1, <2>2, <2>3, CallsSame
<1>3. CASE UNCHANGED connection
  BY <1>1, <1>3
  DEF connection, CacheInv, Lists, Listens, Awaits, Silent, Calls, Promised, Entries, Future
<1> QED
  BY <1>2, <1>3

LEMMA KelolaMaps ==
    ASSUME CacheInv, IInv', NEW c \in CabangId, Kelola(c)
    PROVE  Lists' /\ (Cached!Write \/ Cached!Read(c, c) \/ Cached!Die)
<1>1. ASSUME NEW e \in Email, NEW peran \in Peran, Tambahpegawai(c, e, peran)
      PROVE  Lists' /\ Cached!Write
  BY <1>1, AddUserMaps DEF Tambahpegawai
<1>2. ASSUME NEW e \in Email, NEW peran \in Peran, Updateuser(c, e, peran)
      PROVE  Lists' /\ Cached!Write
  BY <1>2, ChangeMaps DEF Updateuser
<1>3. ASSUME NEW e \in Email, Deleteuser(c, e) PROVE Lists' /\ Cached!Write
  <2>1. /\ c \in Ada /\ Issue(Del(c, None)) /\ lost' = lost \ {c}
        /\ UNCHANGED <<reading, cache, replies>>
    BY <1>3 DEF Deleteuser
  <2>2. PICK v \in Peran \cup {None} : v = None
    OBVIOUS
  <2>3. cabang' = [cabang EXCEPT ![c].users[e] = v]
    BY <1>3, <2>2 DEF Deleteuser
  <2> QED
    BY <2>1, <2>3, ChangeMaps
<1>4. ASSUME DeleteuserGone(c) \/ DeletecabangGone(c) PROVE Lists' /\ Cached!Die
  BY <1>4, DieMaps DEF DeleteuserGone, DeletecabangGone
<1> QED
  BY <1>1, <1>2, <1>3, <1>4, ListMaps, DeletecabangMaps DEF Kelola

LEMMA InitCache == Init => CacheInv /\ Cached!Init
<1> SUFFICES ASSUME Init PROVE CacheInv /\ Cached!Init
  OBVIOUS
<1>1. IInv
  BY InitIInv
<1>2. Lists
  BY DEF Init, Lists, Listens, Silent
<1>3. Truths \in [CabangId -> Users \cup {None}]
  BY <1>1, MappedType DEF Stored
<1>4. Entries = [c \in CabangId |-> None]
  <2>1. \A c \in CabangId : ~Pending(redisQ, c) /\ cache[c] = None
    BY DEF Init, Pending
  <2> QED
    BY <2>1, OutcomeEntry DEF Entries, Future
<1>5. Calls = [c \in CabangId |-> Cached!Idle] /\ lost = {}
  BY DEF Init, Calls, Cached!Idle
<1> QED
  BY <1>1, <1>2, <1>3, <1>4, <1>5 DEF CacheInv, Cached!Init

LEMMA NextCache ==
    CacheInv /\ [Next]_vars =>
        CacheInv' /\ [Cached!Next]_<<Truths, Entries, Calls, lost>>
<1> SUFFICES ASSUME CacheInv, [Next]_vars
             PROVE  CacheInv' /\ [Cached!Next]_<<Truths, Entries, Calls, lost>>
  OBVIOUS
<1>1. IInv'
  BY NextIInv DEF CacheInv
<1>2. ASSUME NEW c \in CabangId, Kelola(c)
      PROVE  CacheInv' /\ [Cached!Next]_<<Truths, Entries, Calls, lost>>
  BY <1>1, <1>2, KelolaMaps DEF CacheInv, Cached!Next
<1>3. ASSUME NEW p \in Pemilik, Setup(p)
      PROVE  CacheInv' /\ [Cached!Next]_<<Truths, Entries, Calls, lost>>
  BY <1>1, <1>3, SetupMaps DEF CacheInv, Cached!Next
<1>4. ASSUME ListReply
      PROVE  CacheInv' /\ [Cached!Next]_<<Truths, Entries, Calls, lost>>
  BY <1>1, <1>4, ListReplyMaps DEF CacheInv, Cached!Next
<1>5. ASSUME Crash
      PROVE  CacheInv' /\ [Cached!Next]_<<Truths, Entries, Calls, lost>>
  BY <1>1, <1>5, DieMaps DEF Crash, CacheInv, Cached!Next
<1>6. ASSUME RedisStep \/ Restart \/ UNCHANGED vars
      PROVE  CacheInv' /\ [Cached!Next]_<<Truths, Entries, Calls, lost>>
  <2>1. UNCHANGED <<cabang, reading, lost>> /\ (Serve \/ UNCHANGED connection)
    BY <1>6 DEF RedisStep, Restart, vars, realm
  <2> QED
    BY <1>1, <2>1, ServeMaps DEF CacheInv
<1> QED
  BY <1>2, <1>3, <1>4, <1>5, <1>6 DEF Next

\* With commands under way, branches set up and deleted, users changing and lists
\* on their way, the users of the branches behave like a cache that is read and
\* written in one step: every step of cabang.js, user.js and the owner's page is a
\* read, an answer, a write or a death of ReadThrough, or changes nothing there.
THEOREM CabangImplements == Spec => ImplementsReadThrough
  BY InitCache, NextCache, PTL DEF Spec, ImplementsReadThrough, Cached!Spec
=============================================================================
