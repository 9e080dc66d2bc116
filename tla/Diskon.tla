-------------------------------- MODULE Diskon --------------------------------
(***************************************************************************)
(* Discounts: the diskon endpoints of lib/view-model-js/routes/barang.js   *)
(* with their Realm rows and the entries data_diskon_<cabang>, and the     *)
(* managers who use them through lib/view-model-flutter/                   *)
(* diskon_controller.dart, one manager per branch (cabang).                *)
(*                                                                         *)
(* A handler up to its next awaited Redis command is one action, taken     *)
(* together with the request that calls it: between the requests of one    *)
(* manager, and before any of them, everybody else may act.                *)
(***************************************************************************)
EXTENDS RedisConnection

CONSTANTS
    Cabang,     \* branches; a branch is also the key of its entry
    DiskonId,   \* object ids that tambahdiskon may hand out
    Nama,       \* names that any manager may type for a discount
    Barang,     \* items a manager may tick
    Dated,      \* may the body of tambahdiskonbarang carry the insert_date
    MaxQueue    \* bound: no request is taken beyond so many queued commands

Row == [nama : Nama, cabang : Cabang, items : SUBSET Barang]
Table == [DiskonId -> Row \cup {None}]

ASSUME DiskonAssumption ==
    /\ None \notin Cabang \cup DiskonId \cup Nama
    /\ None \notin Row
    /\ None \notin Table
    /\ Dated \subseteq BOOLEAN

VARIABLES
    diskon,    \* Realm: the discounts of all branches
    used,      \* ids handed out so far
    client,    \* the manager of each branch, adding a discount
    reading,   \* does the manager wait for the list of discounts
    up,        \* is the server process running
    lost       \* ghost: keys with a write that died with the process, or was not made

vars == <<diskon, used, client, reading, up, lost,
          cache, redisQ, replies>>

-----------------------------------------------------------------------------

\* What ShowDiskonByCabang returns of a table.
Listing(t, c) ==
    [d \in DiskonId |-> IF t[d] # None /\ t[d].cabang = c THEN t[d] ELSE None]

Ids(t) == {d \in DiskonId : t[d] # None}

\* ShowDiskonByName: the branch does not matter.
Bernama(n) == {d \in Ids(diskon) : diskon[d].nama = n}

Idle == [pc |-> "idle", nama |-> None, todo |-> {}, target |-> None]

\* The server takes a request. The bound holds requests back, never a reply.
Room(n) == up /\ Len(redisQ) + n <= MaxQueue

\* Ghost: what changed under a key that is not the caller's, the only one a
\* handler refreshes.
Missed(c) == {x \in Cabang \ {c} : Listing(diskon', x) # Listing(diskon, x)}

\* mutant: the rows are read before the change, not after it.
RefreshEarly(c) ==
    /\ DelThenSet(c, Listing(diskon, c))
    /\ lost' = (lost \ {c}) \cup Missed(c)
    /\ UNCHANGED <<cache, replies>>

\* A handler answers with the rows of the branch after del and set of its key.
Refresh(c) ==
    /\ DelThenSet(c, Listing(diskon', c))
    /\ lost' = (lost \ {c}) \cup Missed(c)
    /\ UNCHANGED <<cache, replies>>

-----------------------------------------------------------------------------
(* tambahdiskon: three kinds of requests, one after the other. *)

\* mutant: add_diskon without the search for the name.
TambahdiskonTwice(c, n, angka, pilihan) ==
    /\ Room(2)
    /\ client[c].pc = "idle"
    /\ IF angka
       THEN \E d \in DiskonId \ used :
            /\ diskon' = [diskon EXCEPT ![d] =
                            [nama |-> n, cabang |-> c, items |-> {}]]
            /\ used' = used \cup {d}
       ELSE UNCHANGED <<diskon, used>>
    /\ client' = [client EXCEPT ![c] =
                    [Idle EXCEPT !.pc = "find", !.nama = n, !.todo = pilihan]]
    /\ Refresh(c)
    /\ UNCHANGED <<reading, up>>

\* A name that some branch uses already, and a percentage that is no integer,
\* create nothing; the answer is 200 all the same.
Tambahdiskon(c, n, angka, pilihan) ==
    /\ Room(2)
    /\ client[c].pc = "idle"
    /\ IF angka /\ Bernama(n) = {}
       THEN \E d \in DiskonId \ used :
            /\ diskon' = [diskon EXCEPT ![d] =
                            [nama |-> n, cabang |-> c, items |-> {}]]
            /\ used' = used \cup {d}
       ELSE UNCHANGED <<diskon, used>>
    /\ client' = [client EXCEPT ![c] =
                    [Idle EXCEPT !.pc = "find", !.nama = n, !.todo = pilihan]]
    /\ Refresh(c)
    /\ UNCHANGED <<reading, up>>

\* The manager takes the first discount of that name, of whatever branch; without
\* one the flow ends.
DiskonlistNama(c) ==
    /\ up
    /\ client[c].pc = "find"
    /\ \/ \E d \in Bernama(client[c].nama) :
            client' = [client EXCEPT ![c].pc = "add", ![c].target = d]
       \/ /\ Bernama(client[c].nama) = {}
          /\ client' = [client EXCEPT ![c] = Idle]
    /\ UNCHANGED <<diskon, used, reading, up, lost, connection>>

\* add_barang_diskon: a discount that is gone, or an item without the required
\* insert_date, throws inside the helper; the answer is 200 all the same.
Pushed(d, b, dated) ==
    IF diskon[d] # None /\ dated
    THEN [diskon EXCEPT ![d].items = @ \cup {b}]
    ELSE diskon

\* mutant: the entry of the branch is left alone.
TambahdiskonbarangNoDel(c, b, dated) ==
    /\ Room(2)
    /\ client[c].pc = "add" /\ b \in client[c].todo
    /\ diskon' = Pushed(client[c].target, b, dated)
    /\ client' = [client EXCEPT ![c].todo = @ \ {b}]
    /\ UNCHANGED <<used, reading, up, lost, connection>>

Tambahdiskonbarang(c, b, dated) ==
    /\ Room(2)
    /\ client[c].pc = "add" /\ b \in client[c].todo
    /\ diskon' = Pushed(client[c].target, b, dated)
    /\ client' = [client EXCEPT ![c].todo = @ \ {b}]
    /\ Refresh(c)
    /\ UNCHANGED <<used, reading, up>>

\* An item that somebody deleted from the warehouse since it was ticked: the
\* handler throws and never answers.
TambahdiskonbarangHangs(c) ==
    /\ up
    /\ client[c].pc = "add" /\ client[c].todo # {}
    /\ client' = [client EXCEPT ![c].pc = "hung"]
    /\ UNCHANGED <<diskon, used, reading, up, lost, connection>>

\* All items sent, the page closed, or a request refused by a dead server.
Selesai(c) ==
    /\ client[c].pc # "idle"
    /\ client' = [client EXCEPT ![c] = Idle]
    /\ UNCHANGED <<diskon, used, reading, up, lost, connection>>

-----------------------------------------------------------------------------
(* The list of discounts, and deletediskon, which never answers. *)

Diskonlist(c) ==
    /\ Room(1) /\ ~reading[c]
    /\ reading' = [reading EXCEPT ![c] = TRUE]
    /\ Issue(Get(c, c))
    /\ UNCHANGED <<diskon, used, client, up, lost, cache, replies>>

\* mutant: a miss stores the discounts of every branch.
DiskonlistReplyAll ==
    /\ up /\ replies # <<>>
    /\ LET c == Head(replies).req
       IN  /\ reading' = [reading EXCEPT ![c] = FALSE]
           /\ IF Head(replies).val = None THEN Issue(Set(c, diskon))
              ELSE UNCHANGED redisQ
    /\ replies' = Tail(replies)
    /\ UNCHANGED <<diskon, used, client, up, lost, cache>>

DiskonlistReply ==
    /\ up /\ replies # <<>>
    /\ LET c == Head(replies).req
       IN  /\ reading' = [reading EXCEPT ![c] = FALSE]
           /\ IF Head(replies).val = None THEN Issue(Set(c, Listing(diskon, c)))
              ELSE UNCHANGED redisQ
    /\ replies' = Tail(replies)
    /\ UNCHANGED <<diskon, used, client, up, lost, cache>>

\* The manager sees discounts of the own branch, some of them gone by now; a
\* discount that is gone is no error, the key is deleted again.
Deletediskon(c, d) ==
    /\ Room(1)
    /\ d \in used /\ (diskon[d] # None => diskon[d].cabang = c)
    /\ diskon' = [diskon EXCEPT ![d] = None]
    /\ Issue(Del(c, None))
    /\ lost' = lost \ {c}
    /\ UNCHANGED <<used, client, reading, up, cache, replies>>

-----------------------------------------------------------------------------
(* The rest of the program. *)

RedisStep ==
    /\ Serve
    /\ UNCHANGED <<diskon, used, client, reading, up, lost>>

\* The process dies with the commands not yet applied; the requests it was
\* serving fail.
Crash ==
    /\ up
    /\ up' = FALSE
    /\ redisQ' = <<>>
    /\ replies' = <<>>
    /\ reading' = [c \in Cabang |-> FALSE]
    /\ lost' = lost \cup {c \in Cabang : Pending(redisQ, c)}
    /\ UNCHANGED <<diskon, used, client, cache>>

Restart ==
    /\ ~up
    /\ up' = TRUE
    /\ UNCHANGED <<diskon, used, client, reading, lost,
                   connection>>

-----------------------------------------------------------------------------

Init ==
    /\ diskon = [d \in DiskonId |-> None]
    /\ used = {}
    /\ client = [c \in Cabang |-> Idle]
    /\ reading = [c \in Cabang |-> FALSE]
    /\ up = TRUE
    /\ lost = {}
    /\ cache = [c \in Cabang |-> None]
    /\ redisQ = <<>>
    /\ replies = <<>>

Tambah(c) ==
    \/ \E n \in Nama, angka \in BOOLEAN, pilihan \in SUBSET Barang \ {{}} :
            Tambahdiskon(c, n, angka, pilihan)
    \/ DiskonlistNama(c)
    \/ \E b \in Barang, dated \in Dated : Tambahdiskonbarang(c, b, dated)
    \/ TambahdiskonbarangHangs(c)
    \/ Selesai(c)

Next ==
    \/ \E c \in Cabang :
        \/ Tambah(c)
        \/ Diskonlist(c)
        \/ \E d \in DiskonId : Deletediskon(c, d)
    \/ DiskonlistReply
    \/ RedisStep
    \/ Crash
    \/ Restart

Spec == Init /\ [][Next]_vars

-----------------------------------------------------------------------------
(* Properties. *)

Entry(c) ==
    {t \in Table : \A d \in DiskonId : t[d] # None => t[d].cabang = c}
        \cup {None}

Command == [op : {"get", "del", "set"}, key : Cabang, val : Table \cup {None},
            waiter : Cabang \cup {None}]

Client == [pc : {"idle", "find", "add", "hung"}, nama : Nama \cup {None},
           todo : SUBSET Barang, target : DiskonId \cup {None}]

\* Every variable keeps its type, and what is stored under the key of a branch
\* are rows of that branch.
TypeOK ==
    /\ diskon \in Table
    /\ used \in SUBSET DiskonId
    /\ client \in [Cabang -> Client]
    /\ reading \in [Cabang -> BOOLEAN]
    /\ up \in BOOLEAN
    /\ lost \in SUBSET Cabang
    /\ cache \in [Cabang -> Table \cup {None}]
    /\ \A c \in Cabang : cache[c] \in Entry(c)
    /\ redisQ \in Seq(Command)
    /\ \A i \in DOMAIN redisQ : redisQ[i].val \in Entry(redisQ[i].key)
    /\ replies \in Seq([req : Cabang, val : Table \cup {None}])

\* The entry of a branch is, after the commands already issued, absent or the
\* discounts of the branch with their items, whatever the managers of all
\* branches do at the same time, except when a write of it died with the
\* process, or a manager of another branch changed a discount of it last: the
\* handlers refresh the key of the caller, not of the discount.
DiskonCoherent ==
    \A c \in Cabang \ lost : WillHold(redisQ, cache[c], c, Listing(diskon, c))

\* No two discounts have the same name, over all branches.
NamaUnik ==
    \A d \in Ids(diskon), e \in Ids(diskon) :
        diskon[d].nama = diskon[e].nama => d = e

\* diskon_controller.dart:100: the discount that a manager found "berdasarkan nama
\* diskon dan cabang", and adds items to, is one of the branch of the manager.
TargetOwn ==
    \A c \in Cabang :
        LET d == client[c].target IN
        (client[c].pc = "add" /\ diskon[d] # None) => diskon[d].cabang = c

-----------------------------------------------------------------------------
(* The abstract cache. *)

\* The discounts of each branch, what Redis will hold for it, and the lists on
\* their way with what they will get.
Truths == [c \in Cabang |-> Listing(diskon, c)]

Entries == [c \in Cabang |-> Future(redisQ, c)]

Calls ==
    [c \in Cabang |->
        [key |-> IF reading[c] THEN c ELSE None,
         val |-> IF reading[c] THEN Promised(c) ELSE None]]

Cached == INSTANCE ReadThrough WITH
    Key <- Cabang, Value <- Table, Req <- Cabang,
    truth <- Truths, entry <- Entries, call <- Calls,
    Bypassed <- Cabang

\* With commands under way and managers adding, changing and deleting discounts,
\* the lists of the branches behave like a cache that is read and written in one
\* step, in which a manager may change the discount of another branch behind it.
ImplementsReadThrough == Cached!Spec
=============================================================================
