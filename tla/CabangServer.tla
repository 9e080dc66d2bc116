---------------------------- MODULE CabangServer ----------------------------
(***************************************************************************)
(* Branches, their warehouse and their users: the endpoints of             *)
(* lib/view-model-js/routes/{cabang,gudang,user}.js over Realm, the entry  *)
(* data_user_<cabang> in Redis, and the set-up of a branch by the owner    *)
(* (lib/view-model-flutter/startup_controller.dart), which takes five      *)
(* requests in a row with no transaction around them.                      *)
(*                                                                         *)
(* The entries data_cabang and data_gudang are written and never read, so  *)
(* they are left out. A user is known by the email within the branch.      *)
(***************************************************************************)
EXTENDS RedisConnection

CONSTANTS
    CabangId,   \* object ids that tambahcabang may hand out; also the keys
    Nama,       \* names of branches
    Email,
    Peran,      \* roles of users
    Pemilik,    \* devices on which an owner sets up a branch
    MaxQueue,   \* bound: no request is taken beyond so many queued commands
    MaxHapus    \* bound: deletions of branches

Users == [Email -> Peran \cup {None}]
Row == [nama : Nama, gudang : 0..1, users : Users]

ASSUME CabangAssumption ==
    /\ None \notin CabangId \cup Nama \cup Email \cup Peran
    /\ None \notin Users
    /\ None \notin Row
    /\ MaxHapus \in Nat

VARIABLES
    cabang,    \* Realm: the branches
    used,      \* ids handed out so far
    hapus,     \* number of branches deleted
    stale,     \* branches of which a device still shows a user deleted since
    setup,     \* the set-up page of each device
    reading,   \* is the list of users of a branch on its way
    up,        \* is the server process running
    lost       \* ghost: keys with a write that died with the process

realm == <<cabang, used, hapus, stale>>

vars == <<realm, setup, reading, up, lost, connection>>

-----------------------------------------------------------------------------

Ada == {c \in CabangId : cabang[c] # None}

\* searchCabangByName
Bernama(n) == {c \in Ada : cabang[c].nama = n}

\* A page not in the middle of its requests; `nama` is nama_cabang in the
\* storage of the device, written when the warehouse is there.
Idle(n) == [pc |-> "idle", nama |-> n, baru |-> None, id |-> None]

Goto(p, page) == setup' = [setup EXCEPT ![p] = page]

\* The request is refused, or a list it returned was empty: the page stays.
Stop(p) == Goto(p, Idle(setup[p].nama))

Room(n) == up /\ Len(redisQ) + n <= MaxQueue

NoRedis == UNCHANGED <<lost, connection>>

-----------------------------------------------------------------------------
(* nambahcabangngudang: tambahcabang, caricabang, tambahgudang. *)

Buat(p, n, c) ==
    /\ cabang' = [cabang EXCEPT ![c] =
          [nama |-> n, gudang |-> 0, users |-> [e \in Email |-> None]]]
    /\ used' = used \cup {c}
    /\ Goto(p, [setup[p] EXCEPT !.pc = "cari", !.baru = n])
    /\ UNCHANGED <<hapus, stale>>

\* mutant: tambahcabang without the search for the name.
TambahcabangTwice(p, n) ==
    /\ up /\ setup[p].pc = "idle"
    /\ \E c \in CabangId \ used : Buat(p, n, c)
    /\ UNCHANGED <<reading, up>> /\ NoRedis

Tambahcabang(p, n) ==
    /\ up /\ setup[p].pc = "idle"
    /\ \/ /\ Bernama(n) = {}
          /\ \E c \in CabangId \ used : Buat(p, n, c)
       \/ /\ Bernama(n) # {}
          /\ Stop(p)
          /\ UNCHANGED realm
    /\ UNCHANGED <<reading, up>> /\ NoRedis

Caricabang(p) ==
    /\ up /\ setup[p].pc = "cari"
    /\ \/ \E c \in Bernama(setup[p].baru) :
            Goto(p, [setup[p] EXCEPT !.pc = "gudang", !.id = c])
       \/ Bernama(setup[p].baru) = {} /\ Stop(p)
    /\ UNCHANGED <<realm, reading, up>> /\ NoRedis

\* A branch that is gone makes the handler throw, and no answer comes. A second
\* warehouse is refused, and the page does not say so.
Tambahgudang(p) ==
    /\ up /\ setup[p].pc = "gudang"
    /\ LET c == setup[p].id IN
        \/ /\ cabang[c] = None
           /\ Goto(p, [setup[p] EXCEPT !.pc = "hung"])
           /\ UNCHANGED cabang
        \/ /\ cabang[c] # None /\ cabang[c].gudang = 1
           /\ Stop(p)
           /\ UNCHANGED cabang
        \/ /\ cabang[c] # None /\ cabang[c].gudang = 0
           /\ cabang' = [cabang EXCEPT ![c].gudang = 1]
           /\ Goto(p, Idle(setup[p].baru))
    /\ UNCHANGED <<used, hapus, stale, reading, up>> /\ NoRedis

-----------------------------------------------------------------------------
(* Users. *)

\* insertUser between del and set of the key; a second user with that email in
\* the branch is refused after the del.
AddUser(c, e, peran) ==
    /\ Room(2)
    /\ \/ /\ cabang[c].users[e] # None
          /\ Issue(Del(c, None))
          /\ UNCHANGED cabang
       \/ /\ cabang[c].users[e] = None
          /\ cabang' = [cabang EXCEPT ![c].users[e] = peran]
          /\ DelThenSet(c, cabang'[c].users)
    /\ lost' = lost \ {c}
    /\ UNCHANGED <<used, hapus, stale, cache, replies>>

\* tambahmanager: the branch is looked up by the stored name again.
Caricabangmanager(p) ==
    /\ up /\ setup[p].pc = "idle" /\ setup[p].nama # None
    /\ \E c \in Bernama(setup[p].nama) :
          Goto(p, [setup[p] EXCEPT !.pc = "manager", !.id = c])
    /\ UNCHANGED <<realm, reading, up>> /\ NoRedis

Tambahmanager(p, e, peran) ==
    /\ setup[p].pc = "manager"
    /\ LET c == setup[p].id IN
        \/ /\ cabang[c] # None
           /\ AddUser(c, e, peran)
           /\ Stop(p)
        \/ /\ up /\ cabang[c] = None
           /\ Goto(p, [setup[p] EXCEPT !.pc = "hung"])
           /\ UNCHANGED realm /\ NoRedis
    /\ UNCHANGED <<reading, up>>

\* A manager of the branch adds an employee.
Tambahpegawai(c, e, peran) ==
    /\ c \in Ada
    /\ AddUser(c, e, peran)
    /\ UNCHANGED <<setup, reading, up>>

\* mutant: the key of the branch is left alone.
UpdateuserNoDel(c, e, peran) ==
    /\ Room(1)
    /\ c \in Ada /\ cabang[c].users[e] # None
    /\ cabang' = [cabang EXCEPT ![c].users[e] = peran]
    /\ UNCHANGED <<used, hapus, stale, setup, reading, up>> /\ NoRedis

\* A user or a branch that is gone changes nothing.
Updateuser(c, e, peran) ==
    /\ Room(1)
    /\ c \in Ada /\ cabang[c].users[e] # None
    /\ cabang' = [cabang EXCEPT ![c].users[e] = peran]
    /\ Issue(Del(c, None))
    /\ lost' = lost \ {c}
    /\ UNCHANGED <<used, hapus, stale, setup, reading, up, cache, replies>>

Deleteuser(c, e) ==
    /\ Room(1)
    /\ c \in Ada /\ cabang[c].users[e] # None
    /\ cabang' = [cabang EXCEPT ![c].users[e] = None]
    /\ stale' = stale \cup {c}
    /\ Issue(Del(c, None))
    /\ lost' = lost \ {c}
    /\ UNCHANGED <<used, hapus, setup, reading, up, cache, replies>>

List(c) ==
    /\ Room(1) /\ ~reading[c] /\ c \in used
    /\ reading' = [reading EXCEPT ![c] = TRUE]
    /\ Issue(Get(c, c))
    /\ UNCHANGED <<realm, setup, up, lost, cache, replies>>

\* mutant: a miss stores the branch, not its users.
ListReplyBranch ==
    /\ up /\ replies # <<>>
    /\ LET c == Head(replies).req IN
        /\ reading' = [reading EXCEPT ![c] = FALSE]
        /\ IF Head(replies).val = None /\ cabang[c] # None
           THEN Issue(Set(c, cabang[c]))
           ELSE UNCHANGED redisQ
    /\ replies' = Tail(replies)
    /\ UNCHANGED <<realm, setup, up, lost, cache>>

\* mutant: a miss for a branch that is gone stores that it has no users.
ListReplyGone ==
    /\ up /\ replies # <<>>
    /\ LET c == Head(replies).req IN
        /\ reading' = [reading EXCEPT ![c] = FALSE]
        /\ IF Head(replies).val = None
           THEN Issue(Set(c, IF c \in Ada THEN cabang[c].users ELSE [e \in Email |-> None]))
           ELSE UNCHANGED redisQ
    /\ replies' = Tail(replies)
    /\ UNCHANGED <<realm, setup, up, lost, cache>>

\* A miss for a branch that is gone is answered 400 and stores nothing.
ListReply ==
    /\ up /\ replies # <<>>
    /\ LET c == Head(replies).req IN
        /\ reading' = [reading EXCEPT ![c] = FALSE]
        /\ IF Head(replies).val = None /\ cabang[c] # None
           THEN Issue(Set(c, cabang[c].users))
           ELSE UNCHANGED redisQ
    /\ replies' = Tail(replies)
    /\ UNCHANGED <<realm, setup, up, lost, cache>>

-----------------------------------------------------------------------------
(* Deleting a branch, and the death of the process. *)

\* cabang/delete leaves the users of the branch in Redis.
Deletecabang(c) ==
    /\ up /\ hapus < MaxHapus
    /\ c \in Ada
    /\ cabang' = [cabang EXCEPT ![c] = None]
    /\ hapus' = hapus + 1
    /\ UNCHANGED <<used, stale, setup, reading, up>> /\ NoRedis

Die ==
    /\ up' = FALSE
    /\ redisQ' = <<>>
    /\ replies' = <<>>
    /\ reading' = [c \in CabangId |-> FALSE]
    /\ lost' = lost \cup {c \in CabangId : Pending(redisQ, c)}
    /\ UNCHANGED <<realm, setup, cache>>

\* Deleting what somebody else deleted before: the helper throws, and the catch
\* block of the handler throws again, which no one handles. A user of a branch
\* that is gone is answered 401.
DeleteuserGone(c) ==
    /\ up
    /\ c \in Ada \cap stale
    /\ Die

DeletecabangGone(c) ==
    /\ up
    /\ c \in used \ Ada
    /\ Die

Crash ==
    /\ up
    /\ Die

Restart ==
    /\ ~up
    /\ up' = TRUE
    /\ UNCHANGED <<realm, setup, reading, lost, connection>>

\* The page is closed, or its request fails with the server.
Abandon(p) ==
    /\ setup[p].pc # "idle"
    /\ Stop(p)
    /\ UNCHANGED <<realm, reading, up>> /\ NoRedis

RedisStep ==
    /\ Serve
    /\ UNCHANGED <<realm, setup, reading, up, lost>>

-----------------------------------------------------------------------------

Init ==
    /\ cabang = [c \in CabangId |-> None]
    /\ used = {}
    /\ hapus = 0
    /\ stale = {}
    /\ setup = [p \in Pemilik |-> Idle(None)]
    /\ reading = [c \in CabangId |-> FALSE]
    /\ up = TRUE
    /\ lost = {}
    /\ cache = [c \in CabangId |-> None]
    /\ redisQ = <<>>
    /\ replies = <<>>

Setup(p) ==
    \/ \E n \in Nama : Tambahcabang(p, n)
    \/ Caricabang(p)
    \/ Tambahgudang(p)
    \/ Caricabangmanager(p)
    \/ \E e \in Email, peran \in Peran : Tambahmanager(p, e, peran)
    \/ Abandon(p)

Kelola(c) ==
    \/ \E e \in Email, peran \in Peran :
        Tambahpegawai(c, e, peran) \/ Updateuser(c, e, peran)
    \/ \E e \in Email : Deleteuser(c, e)
    \/ List(c)
    \/ Deletecabang(c)
    \/ DeleteuserGone(c)
    \/ DeletecabangGone(c)

Next ==
    \/ \E p \in Pemilik : Setup(p)
    \/ \E c \in CabangId : Kelola(c)
    \/ ListReply
    \/ RedisStep
    \/ Crash
    \/ Restart

Spec == Init /\ [][Next]_vars

-----------------------------------------------------------------------------
(* Properties. *)

Page == [pc : {"idle", "cari", "gudang", "manager", "hung"},
         nama : Nama \cup {None}, baru : Nama \cup {None},
         id : CabangId \cup {None}]

Command == [op : {"get", "del", "set"}, key : CabangId,
            val : Users \cup {None}, waiter : CabangId \cup {None}]

\* Every variable keeps its type; what Redis stores for a branch are users.
TypeOK ==
    /\ cabang \in [CabangId -> Row \cup {None}]
    /\ used \in SUBSET CabangId
    /\ hapus \in 0..MaxHapus
    /\ stale \in SUBSET CabangId
    /\ setup \in [Pemilik -> Page]
    /\ reading \in [CabangId -> BOOLEAN]
    /\ up \in BOOLEAN
    /\ lost \in SUBSET CabangId
    /\ cache \in [CabangId -> Users \cup {None}]
    /\ redisQ \in Seq(Command)
    /\ replies \in Seq([req : CabangId, val : Users \cup {None}])

\* The list of users Redis holds for a branch is, after the commands already
\* issued, absent or the users in Realm, with employees added, changed and
\* deleted while lists are on their way, except when a write was lost.
UserCoherent ==
    \A c \in Ada \ lost : WillHold(redisQ, cache[c], c, cabang[c].users)

\* A device that adds a manager adds it to a branch with a warehouse: without
\* one the manager can not work, since getdatagudang fails at the login.
\* Deleted branches apart, the name stored by the page is enough to find it.
ManagerHasGudang ==
    \A p \in Pemilik :
        (setup[p].pc = "manager" /\ hapus = 0)
            => cabang[setup[p].id].gudang = 1

-----------------------------------------------------------------------------
(* The abstract cache. *)

\* The users of each branch, what Redis will hold for it, and the lists on their
\* way with what they will get.
Truths == [c \in CabangId |-> IF c \in Ada THEN cabang[c].users ELSE None]

Entries == [c \in CabangId |-> Future(redisQ, c)]

Calls ==
    [c \in CabangId |->
        [key |-> IF reading[c] THEN c ELSE None,
         val |-> IF reading[c] THEN Promised(c) ELSE None]]

Cached == INSTANCE ReadThrough WITH
    Key <- CabangId, Value <- Users, Req <- CabangId,
    truth <- Truths, entry <- Entries, call <- Calls, Bypassed <- {}

\* With commands under way, users and branches changing and lists waiting for
\* theirs, the users of the branches behave like a cache that is read and
\* written in one step; of a branch that is deleted the entry stays.
ImplementsReadThrough == Cached!Spec
=============================================================================
