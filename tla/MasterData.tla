----------------------------- MODULE MasterData -----------------------------
(***************************************************************************)
(* The categories (kategori) and kinds (jenis) of items, shared by all     *)
(* branches: their endpoints in lib/view-model-js/routes/barang.js, their  *)
(* Realm collections and the entries data_kategori and data_jenis. Rows    *)
(* are only ever added. The kind a category refers to is left out.         *)
(***************************************************************************)
EXTENDS RedisConnection

CONSTANTS
    Id,         \* object ids of rows
    Nama,       \* names of categories and of kinds
    Req,        \* lists that are on their way together
    MaxQueue    \* bound: no request is taken beyond so many queued commands

\* The two collections; each is also the key of its entry.
Koleksi == {"kategori", "jenis"}
Table == [Id -> Nama \cup {None}]

ASSUME MasterAssumption ==
    /\ None \notin Id \cup Nama \cup Req \cup Koleksi
    /\ None \notin Table

VARIABLES
    data,   \* Realm: the rows of each collection
    req,    \* the collection each list request waits for, and what it was
    up,     \* is the server process running
    lost    \* ghost: keys with a write that died with the process

vars == <<data, req, up, lost, connection>>

Room(n) == up /\ Len(redisQ) + n <= MaxQueue

NoCall == [key |-> None, seen |-> None]

-----------------------------------------------------------------------------

Bernama(k, n) == {i \in Id : data[k][i] = n}

\* mutant: the search looks at nothing.
DitemukanNothing(n) == {}

\* SearchKategoriByName, and SearchJenisByName, which asks for a category too.
Ditemukan(n) == Bernama("kategori", n)

\* mutant: the list that is stored was read before the insert.
TambahStoresOld(k, n) ==
    /\ Room(2)
    /\ Ditemukan(n) = {}
    /\ \E i \in Id :
        /\ data[k][i] = None
        /\ data' = [data EXCEPT ![k][i] = n]
    /\ DelThenSet(k, data[k])
    /\ lost' = lost \ {k}
    /\ UNCHANGED <<req, up, cache, replies>>

\* tambahkategori, tambahjenis: 409 when found, otherwise insert, answer, del
\* and set of the key.
Tambah(k, n) ==
    /\ Room(2)
    /\ Ditemukan(n) = {}
    /\ \E i \in Id :
        /\ data[k][i] = None
        /\ data' = [data EXCEPT ![k][i] = n]
    /\ DelThenSet(k, data'[k])
    /\ lost' = lost \ {k}
    /\ UNCHANGED <<req, up, cache, replies>>

\* getkategori, getjenis, up to the awaited get and from its reply on.
AmbilSemua(r, k) ==
    /\ Room(1) /\ req[r] = NoCall
    /\ req' = [req EXCEPT ![r] = [key |-> k, seen |-> data[k]]]
    /\ Issue(Get(k, r))
    /\ UNCHANGED <<data, up, lost, cache, replies>>

\* mutant: a miss stores the rows as they were when the request came in.
GetReplySnapshot ==
    /\ up /\ replies # <<>>
    /\ LET r == Head(replies).req IN
        /\ IF Head(replies).val = None
           THEN Issue(Set(req[r].key, req[r].seen))
           ELSE UNCHANGED redisQ
        /\ req' = [req EXCEPT ![r] = NoCall]
    /\ replies' = Tail(replies)
    /\ UNCHANGED <<data, up, lost, cache>>

\* mutant: a miss stores one name instead of the rows.
GetReplyFirst ==
    /\ up /\ replies # <<>>
    /\ LET r == Head(replies).req IN
        /\ IF Head(replies).val = None
           THEN \E i \in Id : Issue(Set(req[r].key, data[req[r].key][i]))
           ELSE UNCHANGED redisQ
        /\ req' = [req EXCEPT ![r] = NoCall]
    /\ replies' = Tail(replies)
    /\ UNCHANGED <<data, up, lost, cache>>

GetReply ==
    /\ up /\ replies # <<>>
    /\ LET r == Head(replies).req IN
        /\ IF Head(replies).val = None
           THEN Issue(Set(req[r].key, data[req[r].key]))
           ELSE UNCHANGED redisQ
        /\ req' = [req EXCEPT ![r] = NoCall]
    /\ replies' = Tail(replies)
    /\ UNCHANGED <<data, up, lost, cache>>

-----------------------------------------------------------------------------

RedisStep == Serve /\ UNCHANGED <<data, req, up, lost>>

Crash ==
    /\ up
    /\ up' = FALSE
    /\ redisQ' = <<>>
    /\ replies' = <<>>
    /\ req' = [r \in Req |-> NoCall]
    /\ lost' = lost \cup {k \in Koleksi : Pending(redisQ, k)}
    /\ UNCHANGED <<data, cache>>

Restart ==
    /\ ~up
    /\ up' = TRUE
    /\ UNCHANGED <<data, req, lost, connection>>

Init ==
    /\ data = [k \in Koleksi |-> [i \in Id |-> None]]
    /\ req = [r \in Req |-> NoCall]
    /\ up = TRUE
    /\ lost = {}
    /\ cache = [k \in Koleksi |-> None]
    /\ redisQ = <<>>
    /\ replies = <<>>

Next ==
    \/ \E k \in Koleksi, n \in Nama : Tambah(k, n)
    \/ \E k \in Koleksi, r \in Req : AmbilSemua(r, k)
    \/ GetReply
    \/ RedisStep
    \/ Crash
    \/ Restart

Spec == Init /\ [][Next]_vars

-----------------------------------------------------------------------------
(* Properties. *)

Entry == Table \cup {None}

\* Every variable keeps its type; Redis stores lists of rows.
TypeOK ==
    /\ data \in [Koleksi -> Table]
    /\ req \in [Req -> [key : Koleksi \cup {None}, seen : Entry]]
    /\ up \in BOOLEAN
    /\ lost \in SUBSET Koleksi
    /\ cache \in [Koleksi -> Entry]
    /\ redisQ \in Seq([op : {"get", "del", "set"}, key : Koleksi, val : Entry,
                       waiter : Req \cup {None}])
    /\ replies \in Seq([req : Req, val : Entry])

\* The entry of a collection is, after the commands already issued, absent or
\* the rows in Realm, with rows added while lists are on their way, except when
\* a write of it died with the process.
MasterCoherent ==
    \A k \in Koleksi \ lost : WillHold(redisQ, cache[k], k, data[k])

\* No two categories have the same name: getjenisfromkategori takes the first.
KategoriUnik ==
    \A i \in Id, j \in Id :
        data["kategori"][i] # None /\ data["kategori"][i] = data["kategori"][j]
            => i = j

-----------------------------------------------------------------------------
(* The abstract cache. *)

\* What Redis will hold, and the lists on their way with what they will get.
Entries == [k \in Koleksi |-> Future(redisQ, k)]

Calls == [r \in Req |-> [key |-> req[r].key,
                       val |-> IF req[r] = NoCall THEN None ELSE Promised(r)]]

Cached == INSTANCE ReadThrough WITH
    Key <- Koleksi, Value <- Table, Bypassed <- {},
    truth <- data, entry <- Entries, call <- Calls

\* With commands under way and lists waiting for theirs, the two collections
\* behave like a cache that is read and written in one step.
ImplementsReadThrough == Cached!Spec
=============================================================================
