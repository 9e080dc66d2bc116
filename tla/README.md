# Formal model of pos_ta

pos_ta is a point of sale for a chain of shops. Flutter clients talk HTTP to one
Node/Express server per installation, which keeps its data in a Realm file
(synchronised with MongoDB Atlas) and copies of the lists it serves in Redis.
The repository brings that Redis along as source, `src/redis-3.0`, with its
Sentinel, its Cluster, its replication and its persistence; most of the
repository's lines are there.

This directory holds TLA+ models of the server's route files, of the request
flows of the clients and of the distributed and the persistent parts of Redis,
TLC configurations, and proofs checked by TLAPS.

    tlc -workers 2 -config BarangServer.cfg MCBarangServer
    tlapm BarangServerProofs.tla

`PROJECT.json` names, for every definition, the source lines it stands for.

## 1. Inventory

### Server (src/lib/index.js, src/lib/view-model-js)

| Part | State | Operations | What must hold |
|---|---|---|---|
| items and units, `routes/barang.js` | items with an embedded list of units, in a warehouse (gudang) of a branch; `data_barang_<gudang>`, `data_satuan_<barang>` in Redis | baranglist, addbarang, updatebarang, deletebarang, getsatuan, addsatuan, deletesatuan, editjumlahsatuan | an entry that Redis will end up with is absent or current; nobody is served what was already replaced when the request came in; a handler is not left waiting |
| discounts, `routes/barang.js` | rows of all branches, `data_diskon_<cabang>` | tambahdiskon, diskonlist, diskonlist nama, tambahdiskonbarang, deletediskon | entries current per branch; unique names; items reach the discount they were meant for |
| categories and kinds, `routes/barang.js` | two collections, `data_kategori`, `data_jenis` | tambahkategori, tambahjenis, getkategori, getjenis | entries current; unique names |
| branches, `routes/cabang.js` | branches; `data_cabang` is written and never read | tambahcabang, caricabang, showAllcabang, delete | unique names while in use |
| warehouses, `routes/gudang.js` | a list embedded in the branch; `data_gudang` is written and never read | tambahgudang, getdatagudang | a manager's branch has one |
| users, `routes/user.js` | a list embedded in the branch, `data_user_<cabang>` | addUser, updateuser, deleteuser, list, login | entry current; login finds every user |
| owner, `routes/user.js` | the collection Owner; the key `owner` is never read | addOwner, owner, loginOwner | one owner |
| Realm, `view_models_realm/realm_database.js` | the open Realm | every helper the handlers call | synchronous transactions; lists are live |

### Clients (src/lib/view-model-flutter, src/lib/view)

| Part | State | What must hold |
|---|---|---|
| first set-up, `startup_controller.dart` | name of the new branch in the device's storage | a manager is only added where there is a warehouse |
| discount page, `diskon_controller.dart`, `managermenu.dart` | ticked items, the discount found by name | items are added to the manager's own discount, and are there when reported |
| stock, `barang_controller.dart`, `gudangmenu.dart` | history and stock of a restock; conversions of units | history and stock agree |
| transfers (mutasi), `barang_controller.dart`, `SubmitRequestScreen.dart`, `gudangmenu.dart` | status of a request, histories of two branches | a delivery is booked once |
| sales, `transaksi_controller.dart` | status of a delivery | |
| server address, `api_config.dart` | `_baseUrl` | |

### The bundled Redis (src/redis-3.0/src)

| Part | State | Operations | What must hold |
|---|---|---|---|
| Sentinel, `sentinel.c` | per process: current, config and leader epoch, the vote, the address of the master, its slaves, the failover state machine, what the peers answered; the same without the vote and the failover in the configuration file | timer, hello messages, `SENTINEL IS-MASTER-DOWN-BY-ADDR`, `SENTINEL FAILOVER`, restart | one vote per epoch; nobody leads without votes; no instance is forgotten |
| Cluster, `cluster.c` | per node: owner of every slot, config epoch and master of every node, current epoch, last vote, election; `nodes.conf`; packets on their way | clusterCron, PING/PONG, UPDATE, votes, `CLUSTER FAILOVER TAKEOVER`, restart | slots belong to masters; epochs stay below the current one; a node's epoch does not go back; the tables agree in the end |
| replication, `replication.c` | per server: data, offset, backlog, BGSAVE in progress, run id, place in the stream of its master; per slave the client at the master with its output | SYNC, PSYNC, BGSAVE for slaves, the stream, `SLAVEOF`, broken links, restart | nothing between the two data sets is lost; offsets agree; a slave gets in sync |
| persistence, `aof.c`, `rdb.c`, `bio.c`, `redis.c` | data, the buffer of the append only file, the file and what of it is synced, jobs of the fsync thread, the rewriting child with its pipe and buffers, the saving child, `dirty` | a write, beforeSleep, serverCron, BGREWRITEAOF, BGSAVE, SAVE, `CONFIG SET appendonly`, SHUTDOWN, a kill, a power failure, restart | the file and what is on its way hold every write; what earlier turns acknowledged under `always` survives; changes that are not saved are counted |
| commands and data types (`t_*.c`, `db.c`, `dict.c`, ...), scripting, blocking, publish/subscribe, tools, Windows port | | | not modelled, see section 6 |

### How the parts interact

A client sends requests one by one and awaits each; other clients act between
them. The server runs handlers on one event loop. The handlers of a route file
share one ioredis connection, a pipeline: commands are sent, applied and
answered in the order of issue, awaited or not. Realm calls are synchronous.
`data_satuan_*` and `data_barang_*` are two views of the same Realm objects.

The application's Redis may be one that Sentinels watch or a slave replicates;
`RedisConnection` models the commands the server sends, the Redis modules
model what the servers of Redis do among themselves. The two levels share no
variable: an entry in a cache is one of the writes that `RedisReplication` and
`RedisPersistence` number.

Sentinels talk to each other by commands and, through the instances they watch,
by hello messages; they promote by `SLAVEOF NO ONE`. Nodes of a cluster exchange
packets on a bus of their own. A slave is a client of its master. Inside one
Redis process the event loop runs handlers to their end; beside it run the
children of BGSAVE and BGREWRITEAOF, which see the memory of the moment they were
forked, and one thread for fsync.

### What is hard

* **Atomicity.** A list handler takes a Realm list, awaits `redis.get`, and on a
  miss stores the list. In between, the data may change and the entry may be
  deleted and set again.
* **Ordering.** Most `del` and all `set` calls are not awaited. Correctness
  rests on the order of the pipeline, across handlers.
* **No expiry.** A stale entry stays until the next write of its key.
* **Partial failure.** Flows of several requests have no transaction around them,
  helpers swallow errors, catch blocks throw again and end the process.
* **Crash.** Realm and Redis survive a death of the process, queued commands do
  not.

* **Epochs** (Sentinel, Cluster). Votes, acknowledgements and headers are late,
  repeated or lost, and each carries an epoch that has to be compared with the
  right one of the receiver's.
* **Restarts.** A process forgets what it had not written; what it promised to
  others before must be in its file.
* **Shared snapshots.** Slaves share the BGSAVE of another slave, a rewriting
  child and the parent write two files, and what is executed in between has to
  reach each of them once.
* **Putting off.** A flush waits for an fsync, a rewrite for a BGSAVE, a slave for
  the next BGSAVE; none may wait for ever.

The list of hazards, each at its line, is in `PROJECT.json`.

## 2. The modules

### 2.1 The application

| Module | Models | Checked by |
|---|---|---|
| `RedisConnection` | one ioredis connection with its Redis server: entries, queue of commands, queue of replies | extended by the four below; `RedisConnectionProofs` |
| `ReadThrough` | the abstract cache: filled, replaced, emptied, passed by and read in one step, without a queue | `MasterDataProofs`; implemented by `BarangServer`, `MasterData`, `CabangServer` and `Diskon` (checked and proved) |
| `BarangServer` | item and unit endpoints for one warehouse | `MCBarangServer`, `BarangServerProofs` |
| `Diskon` | discount endpoints with one manager per branch running the flow of `tambahdiskon` | `MCDiskon`, `DiskonProofs` |
| `CabangServer` | branches, warehouses, users, the set-up page | `MCCabangServer`, `CabangServerProofs` |
| `MasterData` | categories and kinds | `MCMasterData`, `MasterDataProofs` |

**State.** `db`, `diskon`, `cabang` and `data` are the Realm data. `cache` is
Redis. `redisQ` holds commands issued and not applied, with the request that
awaits each one; `replies` holds what Redis answered and the event loop has not
delivered. `req` is the awaiting handler of a request, `client` and `setup` the
page of a device between two requests, `up` tells whether the process runs.
`used` are object ids handed out: Realm never reuses one.
Ghosts: `lost` (keys with a write that died with the process, or, in `Diskon`, that
the caller of another branch did not make), `seen`/`ok` (what
a read's key stood for when the request came in), `crashes`, `hapus` (counters),
`stale` (a device still shows a user that is gone).

**One action per uninterrupted piece of a handler.** Realm is synchronous. The
helpers in `realm_database.js` are `async` but await nothing that does I/O, so
awaiting them only yields microtasks, which run before the event loop takes the
next request or reply; the piece from a request, or from a delivered reply, to
the next `await redis...` is one action. Microtasks of two handlers could mix
only if two replies were delivered in one read of the socket; a continuation
never writes Realm and what it stores is read from a live list, so mixing them
changes nothing. Handlers without an awaited command (`addsatuan`, `tambahdiskon`,
...) are a single action.

**Live lists.** `ShowItemFromCabang` returns a Realm list, not a copy. It is
turned into text after the await, so what a miss stores is the state at that
time. The models read Realm in the reply action, and the mutants
`BaranglistReplySnapshot`, `GetsatuanReplySnapshot` and `GetReplySnapshot` show
that storing the state at request time would break coherence.

**Redis.** `Serve` applies the next command and queues the reply of an awaited
one; delivering the reply is a step of its own, so requests can run in between.

**Death of the process.** `Die` drops the queue, the replies and the requests.
The order "commands applied, replies not delivered" is included, as `Serve` may
run any number of times before.

**Client flows.** A request is joined with the first piece of its handler; the
steps of different devices interleave freely, and a page may stop after any
request (`Selesai`, `Abandon`).

**Left out of these modules**: wording, prices, telephone numbers; fields of an
item are one value (`Info`), except its units; which user may call what (the
server does not check); `data_cabang`, `data_gudang`, `owner` in Redis, never
read; the reference of a category to its kind.


### 2.2 The bundled Redis

| Module | Models | Checked by |
|---|---|---|
| `RedisSentinel` | Sentinel processes that watch one master name | `MCRedisSentinel`, `RedisSentinelProofs` |
| `RedisCluster` | the nodes of a cluster, their tables and elections | `MCRedisCluster`, `RedisClusterProofs` |
| `RedisReplication` | servers that replicate each other, chains included | `MCRedisReplication`, `RedisPersistenceProofs` |
| `RedisPersistence` | one server with its files, children and fsync thread | `MCRedisPersistence`, `RedisPersistenceProofs` |

Every handler runs to its end on the event loop, so a handler is one action;
where it writes a file before it answers, the write is part of it. What the loop
does around handlers (`beforeSleep`, `serverCron`) is an action of its own where
its moment matters: the flush of the AOF in `BeforeSleep` and `CronFlush`. A reply
(`Reply`) may leave in the turn of its command: for one socket the loop calls the
handler that reads and then, if an earlier reply installed it, the one that writes
(`ae.c:436-443`), before `beforeSleep`.

There is no clock in any of the four. A timeout, a failure detection or a delay
"may be over" at any time, so every race of a timeout with a late answer is
among the behaviours.

**RedisSentinel.** `sen[s]` is `sentinel` and its one `sentinelRedisInstance`
(epochs, vote, address, slaves, failover state machine, and per peer the vote it
told and the run id it is known by); `disk[s]` what
`rewriteConfigSentinelOption` writes; `role` what the instances answer to INFO;
`cast` a ghost with every vote given. `Tick` is one step of
`sentinelFailoverStateMachine` (`WaitStart` votes, counts and goes on or gives
up; `FailoverSelectSlave` ... `FailoverDetectEnd` follow), `ForceFailover` the
command, `AskForVote` a question to a peer together with its answer,
`ProcessHelloMessage` the handler of a hello message, `ConvertToSlave` the repair
of an old master that comes back, `Restart` a start from the file, where only the
epoch of the vote is read. When the file is written is followed exactly: a
changed vote is on disk before it is sent, the epoch of a forced failover is not.
From a moment on (`FlushFails`) a Sentinel may be unable to write its file (`failing`):
`sentinelFlushConfig` logs that (`sentinel.c:1757-1766`), and what was to follow the write,
a vote that is sent for one, goes on.

**RedisCluster.** `view[n]` is the part of `server.cluster` that is saved: owner of
each slot, config epoch and master of each node, current epoch, last vote;
`disk[n]` is `nodes.conf`; `election[n]` the `failover_auth_*` fields; `net` the
requests for votes and votes that are on their way and may be lost. `Ping`
handles the header of a PING or PONG at once, with the UPDATE it may provoke;
packets between two nodes keep their order on the bus, so late headers are
covered by heartbeats that are not handled. A slave that wins keeps the count and the
mark of its election (`cluster.c:2901-2918`), so when it is made a slave again before
it plans another one it may win once more. `ReceiveRequest` and `ReceiveAck`
come at any later time. `Stored` says which changes mark `nodes.conf` for
saving: a current epoch that only grew by a header does not.

**RedisReplication.** `srv[x]` holds the data set as the sequence of its writes,
`master_repl_offset`, the backlog, the BGSAVE in progress with what its child
sees, the run id, `masterhost` and the place in the stream (`server.master` or
`cached_master`); `cl[x]` is the client that `x` is at its master, with the output
queued for it. `Connect` is the handshake up to PSYNC with the master's
answer (`Continue`, `WaitForBgsave`, `StartBgsave`, `Refused`), `Apply` executes
one write of the stream and feeds it to slaves of its own, `BgsaveDone` and
`BgsaveFailed` are `updateSlavesWaitingBgsave`, `StartFails` and `NextBgsaveFails` a fork
that fails (the slaves that wait get an error, `ReceiveRefusal`, and try again from
nothing), `Bgsave` the command of a user or a save point, `Slaveof`, `SlaveofNoOne`,
`Restart`, `Break`, `FreeBacklog` what happens around it. The PINGs of `replicationCron`
(`replication.c:2379-2384`) are not modelled: they are units of the stream that are no
data.

**RedisPersistence.** `data` is the sequence of writes executed; `executed` are those of
this turn of the event loop, `replies` those whose reply is still in the server,
`acked` those whose reply has left. `aof` holds `aof_buf`, `aof_state`, `aof_fd`,
`aof_last_write_status` and the seconds a flush was put off; `file.synced` is how much
of the file survives a power failure, and `file.error` says that an fsync failed,
whose result neither the server nor its thread looks at (`aof.c:440`, `bio.c:193`):
from then on no more is known to be on the disk. `rewrite` is the child with what it has
written (`base`), read from the parent (`diff`), and what waits in the pipe and in the
parent's buffer; `dirty`, `saved`, `bgsave` belong to the RDB side. `Flush` is
`flushAppendOnlyFile` with its short writes, truncation and error status; `AskToStop`,
`StopSending`, `ChildEnds`, `RewriteDone` the hand-over at the end of a rewrite, in which
the parent writes the rest to the new file and makes it the current one. Every
handler comes with the ways in which it fails: a fork (`StartBgsave`,
`StartAppendOnlyFails`, which leaves the number of a closed descriptor), the forced
flush of `stopAppendOnly` (`StopAppendOnlyExits`), `rdbSave` in SHUTDOWN, which stops no
later than after the children were killed (`ShutdownFails`); SHUTDOWN NOSAVE is a choice
of `Shutdown`.

## 3. The runs

| Run | Question | Result |
|---|---|---|
| `barang` | Do the entries of items and units stay coherent, are hits no older than their request, is the queue invisible, does every handler get past its await, does a silent miss fill the entry? | holds |
| `diskon` | Managers of two branches type the same name: are entries coherent but for those that another branch's manager changed, is the queue invisible, are names unique? | holds |
| `diskon_target` | Does a manager add items to discounts of the own branch? | `TargetOwn` fails |
| `cabang` | Users coherent, the queue invisible, managers only where a warehouse is? | holds |
| `master` | Entries of both collections coherent, the queue invisible, categories unique? | holds |
| `sentinel` | Does a Sentinel vote once in an epoch, lead only with votes, and keep every instance, restarts and files that cannot be written included? | holds |
| `cluster` | Do slots belong to masters, are epochs bounded by the current one, in memory and on disk, does a node's epoch never go back, and do all tables become equal once elections, takeovers and restarts are over? | holds |
| `cluster_vote` | Is a slave that wins an election voted for by a majority in that epoch? | `ElectedByMajority` fails |
| `replication` | Is what a slave has, plus what is on its way, what its master has; do offsets agree; does a slave get in sync? | holds |
| `replication_psync` | Can a slave of an earlier time continue from a backlog that is new? | `NoPsyncWithOldSlave` fails |
| `persistence` | Does the AOF hold every write across rewrites and failures, do writes that earlier turns acknowledged survive a power failure, does `dirty` count right, does nothing wait for ever? | holds |
| `persistence_shutdown` | Are acknowledged writes in the file after SHUTDOWN, with `appendfsync always`? | `ShutdownKeepsAcked` fails |

### The application

**Coherence** is always said of the future: once Redis has applied the
commands already issued, the entry of a key is absent or equals what Realm holds
now. It would be wrong of the present, as `del` and `set` are on their way
after Realm has changed. Keys in `lost` are excepted: a write that dies with the
process leaves the old entry until the next write, and nothing in the code
repairs it. `ListCoherent` compares items without units, which the code does not
refresh in the list; `SatuanCoherent` leaves out deleted items, whose entry the
code never deletes. `UserCoherent` is likewise about branches that exist.

`HitServesRequestTime` is the property a client can see: a hit delivers what was
in Realm when its request came in, although the entry it reads is applied later.
It rests on the order of the pipeline.

`ImplementsReadThrough` says all of it at once: under the mapping below, every
behaviour of `BarangServer` (and of `MasterData`, `Diskon` and `CabangServer`) is one of `ReadThrough`, where
there is no queue and reads, writes and fills are atomic. The entry of a key is
mapped to what Redis will hold (`Future`: the last write in the queue, or else the
entry), the call of a reader to what its get will return or has returned
(`Promised`: the writes in front of it decide), the data to Realm. A step of Redis
maps to a stutter, a handler's piece to a read, a write or an answer, a death to
`Die`. For the list of items both sides are compared without units (`Shape`).
For `Diskon` and `CabangServer` the key of an entry is the branch, and the reader of a
list goes by the same name: a branch reads one list at a time. A branch without
discounts stands for the empty list; a branch that is deleted stands for nothing, and
the entry that stays behind is why a write of `ReadThrough` may leave a key that is
gone. In `Diskon` the handlers refresh the key of the caller's branch, whatever branch
the discount is of. When managers use the same names that is another branch at times: a
`Bypass` of `ReadThrough`, a write that changes what a key stands for and passes its entry by.
The key is in `lost` until its own branch refreshes it, and `DiskonCoherent` does not
speak of it before. The other three modules have no such write: their `Bypassed` is empty.

### Redis

* `LeaderHasVotes` counts votes given (the ghost `cast`), not votes believed: a
  Sentinel that acts has a majority and the quorum of votes given to this start of
  it since its failover began. It fails when votes of another epoch are counted. A
  Sentinel whose file cannot be written may have forgotten a vote after a restart;
  `OneVotePerEpoch` is of the others. Whoever leads still has the votes it counted.
* `NoInstanceForgotten` relates the address and the list of slaves in memory and in
  the file: the moment at which the file already names the promoted slave is
  where an old master could drop out.
* `OwnersAreMasters`, `EpochsBounded` and `OwnEpochGrows` are what the code's own
  comments rely on (`clusterLoadConfig` calls an epoch above the current one
  "something that should never happen"). They hold although votes may be counted
  wrongly, see below.
* `TablesConverge` holds however elections, takeovers and restarts go. It includes the
  collisions of epochs that a takeover beside an election makes: of two masters with
  one epoch the smaller node ID moves on, and only that one.
* `NothingLost` ties the data of a slave, the file it loads or the BGSAVE it waits
  for, and the output queued for it, to the data of its master: sharing the BGSAVE
  of another slave, continuing by PSYNC and being fed by a slave in a chain all
  have to leave it true. `OffsetsAgree` is what a failover compares.
* `AofComplete` is the same for the append only file and the file a child
  rewrites; `DirtyCounts` is what save points rest on. `AckedSynced` is what of the promise of
  `appendfsync always` is kept: what earlier turns of the event loop executed is synced
  when its reply has left, as long as no fsync failed. It excepts what this turn
  executed, whose reply may be gone already; the code rules that out in its comments
  only, see below.

**What the violations show** (details with quotes under "findings"):

* `diskon_target`: the page looks for its new discount "by name and branch", the server
  for the name alone, and `add_diskon` creates nothing, and says nothing, when any
  branch uses the name. A manager goes on with the discount of the other branch and
  adds the ticked items to it.
* `cluster_vote`: when a slave plans a new election it sets the count of votes to
  0, but the epoch against which acknowledgements are compared only changes when
  the election starts. A late vote of the first election that comes in between
  is counted for the second, and the slave wins an epoch for which too few voted.
* `replication_psync`: a server that becomes a slave sets its offset to 0 and keeps
  its run id. When it is in sync and one of its slaves attaches again, it makes a new
  backlog at offsets that another slave of its earlier time may ask for, and
  `+CONTINUE` leaves that slave with data its master does not have.
* `persistence_shutdown`: two things the comments rule out meet. The reply to a
  pipelined write leaves in the turn of its execution, before the flush (`ae.c:436-443`,
  against `aof.c:272-274`); and SHUTDOWN syncs the file and does not write `aof_buf`
  (against `redis.c:2406`). With a SHUTDOWN of another client in that turn, a write that
  was acknowledged under `always` is not there at the next start. Without SHUTDOWN a kill
  between the reply and the flush does the same. With `everysec` no pipeline is
  needed: a flush that is put off because an fsync runs leaves answered writes in the
  buffer. `ShutdownKeepsDataset` (section 4) says that a buffer that is not empty is the
  only way to it, `ShutdownWithAlways` that under `always` it takes the same turn.

### Read, and not a run

Seen while modelling; each is one place in the code, or outside of what a run is for.

* `realm_database.js:1010`: an item without `insert_date` makes the write throw, the
  helper logs it and the handler answers 200.
* `user.js:82`: login answers 404 in the first branch that does not have the user.
* `user.js:277`, `cabang.js:104`: the catch block throws when the row is gone; an
  unhandled rejection ends a Node process.
* `realm_database.js:895`: the search for a kind queries categories.
* `api_config.dart:34` logs "using hosting URL" and sets the local one.
* `sentinel.c:2318-2323`: the address of a hello message is compared with
  `master->addr`; in `reconf_slaves` a newer config epoch is then taken without a
  switch. `sentinel.c:3860-3868`: the timeout at the end of a failover does not
  leave the promoted slave out. The epoch of a forced
  failover is not in the file before the next tick.
* `sentinel.c:3460`, `3487`: `sentinelGetLeader` counts the votes of others of the
  current epoch and its own of the failover's. A Sentinel waits in the failover of
  epoch 1, a hello message raises its current epoch to 2, a peer votes for it in
  epoch 2, and with its own vote of epoch 1 it has two of three: it leads epoch 1
  although nobody else voted for it there, and another may come to lead epoch 1 by
  the same way with a vote of epoch 3. The comment at 3438 asks for votes of the
  same epoch. `LeaderHasVotes` says what is left, and `LeaderOfItsEpoch` (section 4)
  what would hold if the two epochs were the same.
* `cluster.c:2617`: `lastVoteEpoch` is changed without asking for a save of
  `nodes.conf`, so a voter that restarts may vote again in an epoch. A slot that
  `clusterDelNodeSlots` left without an owner can be taken by an outdated claim.
* `replication.c`: a BGSAVE child of a slave may rename its older file over the
  one received from the master. `readSyncBulkPayload` (1263-1273) counts its retries
  one off.
* `aof.c`: under `everysec`, `flushAppendOnlyFile` returns at once when the buffer is
  empty, so the writes of the last second are not synced before a further write.
  `stopAppendOnly` after a failed flush leaves the buffer and the error status; and
  `backgroundRewriteDoneHandler` empties the buffer (`aof.c:1577-1580`) and leaves that
  status, which the next flush, of an empty buffer (`aof.c:294`), does not clear: writes
  stay refused, though `redis.c:1260-1263` says that serverCron tries again in order to
  clear it.
  `CONFIG SET appendonly yes` does not look at a running BGSAVE. A restart with
  `appendonly yes` in the file before the first rewrite ended loads an empty AOF.
  After a failed BGSAVE writes are refused until a save succeeds, and below the
  save points only a manual one is started.

### Bounds

| Run | Bounds | Distinct states | Why they are enough |
|---|---|---|---|
| `barang` | 1 item, 1 unit, 2 infos, amount 1, stock 0..1, 2 requests, new requests while at most 3 commands are queued, 1 crash | 521,764 | two requests are what an interleaving needs: one awaiting, one that writes, and unit writes need no request slot at all; the queue holds a get, and a del and a set of another handler. Keys do not influence each other but through the queue, which the list key and the key of the item already share; the proofs cover any number, and stock below 0, which nothing in the code stops |
| `diskon` | 2 branches with one manager each, 1 name that both type, 2 discounts, 1 item, 3 commands | 2,627,955 | one shared name is what makes the search find another branch's discount; two discounts, as the one that was found may be deleted and made anew while its finder goes on |
| `diskon_target` | the same, 2 commands | | |
| `cabang` | 2 ids for branches, 1 name, 1 email, 2 roles, 2 devices, 3 commands, 1 deletion | 1,393,055 | two set-ups of one name, and a branch created again under it; crashes are unbounded here, as in `Diskon` and `MasterData` |
| `master` | 2 rows, 2 names, 2 lists, 4 commands | 90,903 | two rows are what uniqueness compares |
| `sentinel` | 3 Sentinels, quorum 2, 1 or 2 slaves, 2 failovers; 2 disturbances, which are restarts, forced failovers, lost answers and files that can no longer be written; 4 of failovers, disturbances and slaves | 912,197 | a majority of three is two, so two leaders compete for one vote; a restart between two requests and one in the middle of a failover fit, and so does a restart after a file could not be written; a failover can follow another. The proofs cover any number |
| `cluster` | 1 master, 2 slaves, 1 slot, elections of epoch 2, 1 takeover, restart or repeated win | 238,722 | the current epoch is 1 at first, so either slave or both start the election of epoch 2; a takeover beside it makes a collision; late votes, an UPDATE for the old master and a restart in the middle of an election fit; the proofs of the safety properties cover any number |
| `cluster_vote` | 3 masters, 1 slave, epochs up to 5 | | two elections |
| `replication` | 3 servers in a star or a chain, backlog of 1 write, 2 writes, 1 BGSAVE by a user, 2 faults of different kinds, 1 SLAVEOF or restart | 866,992 | a backlog shorter than the stream makes both answers to PSYNC happen; two slaves share a BGSAVE or come too late for it; a chain shows a slave that feeds |
| `replication_psync` | 4 servers, a master with two slaves and one alone, 1 write, 1 SLAVEOF | | the two slaves are the one that attaches again and the one that comes back late |
| `persistence` | 2 writes, 2 commands, 1 fault, 1 crash, `always` and `everysec`; any fsync may fail | 1,140,229 | one write before and one during a rewrite, in each of its phases; a command that runs into another; one fault is a short or failed write, child or fork |
| `persistence_shutdown` | `always`, 2 writes, no fault | | one write is enough |

`MaxQueue` bounds when a new request is taken, never a reply, so it can not hide
a step of a handler that has begun. The bounds of the Redis modules are guards of
events that the environment decides (writes, commands, faults, elections), never of
what a process does in answer to one. Symmetry is used on interchangeable ids
(requests, discounts and branches, rows, roles, devices, Sentinels), in runs without
liveness only. Deadlock is checked for the application and for the cluster; in
`sentinel`, `replication` and `persistence` it is not, because a system whose
bounded events have run out may have nothing left to do.

### Fairness

* `BarangServer`: weak fairness of `RedisStep` (Redis serves the connection), `Reply`
  (the event loop delivers what arrived) and `Restart` (a dead server is started
  again). Nothing is assumed of clients, of writes or of crashes. A client whose
  `getsatuan` missed has no answer (`hung`); that state counts as resumed in
  `HandlersResume` since the handler is done. `SilentMissFills` says what the
  client gains: the entry is there for the retry.
* `RedisCluster` (run `cluster`): what a node has to tell another is told. `clusterCron` pings every
  node it has not heard of for half the node timeout and connects again when a
  link is lost. `FairSpec` is weak fairness of `Ping(s, t)` for every pair, with the
  condition that it changes something (`Tells`) written out. Nothing is assumed
  of elections, votes or UPDATEs: heartbeats alone repair the tables.
* `RedisReplication`: weak fairness of `BgsaveDone` (a child ends, or fails) and of
  what a slave does by itself (`AsSlave`: connect, which `replicationCron` retries,
  load, apply). Nothing of breaks, restarts or commands. `EventuallyInSync`
  follows since breaks are bounded; it shows that no slave is left waiting for a
  BGSAVE that nobody starts.
* `RedisPersistence`: weak fairness of the event loop and its cron (`BeforeSleep`,
  `CronFlush`, `StartScheduled`), the clock (`Tick`), the hand-over with the child
  and the end of children. None of `Fsync`: a disk may hang for ever, and
  `BufferDrains` holds nevertheless, because a flush is put off for two seconds
  only. None of `SendDiff` and `ReadDiff`: a rewrite ends however slow the pipe is.

## 4. The proofs

Eight modules hold proofs. Each assumes what its component's module assumes of the
constants, under a name, and nothing else, except where a premise is
written in the theorem; TLC evaluates these assumptions in the
runs. No bound is used: the theorems hold for any numbers of nodes, requests,
epochs, restarts.

### RedisConnectionProofs

What the proofs about the four route files need of the connection, over sets of
keys, values and requests that each of them fills in (`ConnectionType`):

* `WillHold(q, e, k, v)`: the entry `e` of `k`, once the commands of `q` are applied, is
  absent or `v`. `AppendOther`, `AppendWrite`, `TakeFirst` and `NoQueue` say what a
  command, its application and the death of the process do to it; `IssueHolds`,
  `DelThenSetHolds`, `ServeHolds` and `ServeType` put them together.
* `Outcome`, what the queue makes of an entry (the mapping of `ReadThrough`):
  `OutcomeEntry`, `OutcomeOther`, `OutcomeWrite`, `ServeFuture`. Redis applying a command
  does not change it.
* `Awaits(r, c)`: the request `r` has the command `c` in the queue, once, and no reply, or
  one reply and no command; `Silent(r)`: it has neither. `AwaitsKept`, `SilentKept`,
  `AwaitsServe`, `SilentServe` say that the steps of others, and of Redis, leave it so,
  and that what the get was promised (`Promised`) stays what it was when it was
  issued: commands are only appended behind it.
* `Listens(asks, k)`, for keys that are read one list at a time: the reader who asks awaits
  the get of `k`, who does not is silent. `ListensServe`, `ListensWrite`, `ListensAsk`,
  `ListensReply` and `ListensDie` say for each kind of step who goes on listening to what,
  and what becomes of `Outcome`; `Diskon` and `CabangServer` need nothing else of the
  connection for their refinements.

### BarangServerProofs

For any sets of items, units, infos and requests, any bound on the queue and any
number of crashes:

* `TypeInvariant`: `Spec => []TypeOK`;
* `SatuanCoherence`, `ListCoherence`: `Spec => []SatuanCoherent` and
  `Spec => []ListCoherent`, from `CoherenceInvariant`;
* `RequestTimeService`: `Spec => []HitServesRequestTime`, from `ServiceInvariant`;
* `BarangImplements`: `Spec => ImplementsReadThrough`.

These are all safety properties of run `barang`. Assumed: `BarangAssumption` only
(`None` and `ListKey` differ from the other values, `None` is not the content of a
list, amounts are stock values, the crash bound is a natural number).

`CoherenceInv` has three conjuncts. `TypeOK` gives the shape of the queue and,
beyond types, that a `getsatuan` in flight is about an item. Coherence of every
key that stands for something and is not lost is the goal for both kinds of key
at once. `Untouched` makes it inductive: without it, `addbarang` could bring to
life an id whose key Redis holds an old value for. In the code ids are new object
ids, so no earlier request can have named one.

The argument is about the queue: appending a command that does not write the key
(`CoherentOther`) changes nothing; appending one that does (`CoherentWrite`) decides
alone; taking the first command (`TakeCoherent`) moves the value from the queue
to the entry. Each handler is then one of: a write of an item with a `del` of
the list key (`WriteItemCoherent`), a write of units with `del` and `set`
(`WriteSatuanCoherent`, where the list key stays coherent as units are not
compared), a command that writes nothing or what Realm holds now
(`IssueCoherent`), a death (`DieCoherent`), or a step that touches none of it
(`FrameCoherent`).

`ServiceInv` adds what each request is at. `Waiting(r)`: a reader awaits the one get of
its key, a writer the one `del` of the list, a free request nothing. This is not a
property of the types: that no second reply ever arrives for a handler has to be
carried through every step of every other request. `Served(r)`: what the read is
promised, already answered or still behind writes in the queue, agrees with what the
key stood for when the request came in. A hit is what was promised, hence
`HitServesRequestTime`. When the get is issued the promise agrees because the entry is
coherent at that moment, queue included; afterwards nothing can get in front of it.

`BarangImplements` is a step simulation with the mapping of section 3: one lemma for
each kind of step, named for what it is in `ReadThrough`: `AwaitGetReads`,
`ReplyAnswers`, `WriteItemWrites`, `WriteSatuanWrites`, `AddbarangReplyWrites`, `DieDies`;
an answered `del` (`DelReplySame`) and a step of Redis are stutters.

### MasterDataProofs

`MasterTypeInvariant`, `MasterCoherence`, `KategoriUniqueness` and `MasterImplements`: all
properties of run `master`, for any rows, names, lists and requests and any
number of crashes (`MasterAssumption`). `MasterInv` is types, coherence, uniqueness and
`Waits`, the same statement about awaited gets as above; one lemma for each action says
that it keeps the invariant and what it does to the mapped state.

`ReadThroughCoherence` is the same for the abstract cache: `Spec => []Coherent` of
`ReadThrough`, for any keys, values and readers and without further assumptions. With the four
refinements it says why coherence is no accident of one route file: whatever answers
each read with what an atomic cache would have, is coherent, but for the keys it loses.
A write that passes an entry by (`AbstractBypass`) loses its key. The keys, values and
variables in it are declared in the module for that purpose.

### CabangServerProofs, DiskonProofs

`CabangServerProofs`: `TypeInvariant`, `UserCoherentAlways`,
`ManagerHasGudangAlways` and `CabangImplements`, all the properties of run `cabang`, for any branches, names,
users, devices and crashes (`CabangAssumption`). `IInv` adds to them: `Untouched`
(Redis knows nothing of an id that was never handed out, so a new branch starts
coherent), `NamaTunggal` (no two branches with one name) and `Pages`: what each page
knows. The last is the reason why a manager gets a branch with a warehouse: the name a
device stores is that of a branch whose warehouse was there (`KnowsName`), names are
unique, so the search by name, several requests later, comes back to that branch. A
deletion is what breaks it, which is why `ManagerHasGudang` stops at the first.

`DiskonProofs`: `TypeInvariant`, `NamaUnikAlways`, `DiskonCoherentAlways` and
`DiskonImplements`, all the properties of run `diskon`, for any branches, names that any
manager may type, discounts, items and crashes (`DiskonAssumption`) and without a further
premise. `IInv` adds that every row has an id that was handed out (`GoodRows`), and so has
the one a page acts on (`Clients`), so that no later discount can take its place. What the
handlers do to a key is one of two things: the caller's is deleted and set
(`RefreshEntries`), the one of another branch, if its rows change, is passed by and is
from then on in `lost`. There is no theorem about the branch of the target: `TargetOwn`
fails.

`CabangImplements` and `DiskonImplements` are `Spec => ImplementsReadThrough`. Both go by
`CacheInv`, which adds to `IInv` that every list on its way is awaited (`Lists`), and by one
lemma for each kind of step: `WriteMaps` for what deletes or sets the key of a branch,
`BypassMaps` for an item that goes to a discount of another, `ListMaps` and
`ListReplyMaps` (`DiskonlistMaps`, `DiskonlistReplyMaps`) for the two ends of a list,
`DieMaps` (`CrashMaps`) for a death, `ServeMaps` for stutters. `QuietMaps` is the case of a
branch that comes or goes while Redis is not told: a new branch is current because
nothing is known of its id (`Untouched`), an old one becomes nothing.

### RedisClusterProofs

`TypeInvariant`, `OwnersAreMastersAlways`, `EpochsBoundedAlways` and
`OwnEpochGrowsAlways`: the type invariant and every safety property of run
`cluster`, for any nodes, slots, first configuration and order of node IDs
(`ClusterAssumption`).

The inductive invariant `IInv` has three named parts. *Tables*: every table has its
types and is sound (only masters own slots, no epoch of a node exceeds the current
one), and what is on disk fits what is in memory (`Saved`: the node epochs are equal,
only the current epoch and the last vote may be behind), without which a restart
could take an epoch back. *Elections*: the epoch a slave asks votes with is not
above its current epoch. *Packets*: no request or vote on its way claims more than
the epochs that exist.

The proof goes table by table. A lemma says of each step of a table what it keeps
(what the header teaches, the change of a role, the new owners, a collision, an
UPDATE, a bump), `ProcessPing` and `ProcessUpdate` are put together from them, and
each action changes one table or two.

**Votes.** Two theorems say what an election still is worth, next to run `cluster_vote`,
which shows what it is not.

* `ElectedInTime`: `Spec /\ [][CountedInTime]_vars` implies that whoever wins was voted
  for, in the epoch of that election, by more than half as many nodes as its table has
  masters with slots. `CountedInTime` is the one thing the code does not see to: that a
  vote is counted only while its election is under way. Takeovers, restarts, requests
  and votes that are lost or late are all allowed. `VInv` is the inductive invariant:
  the file is not beyond the memory in the current epoch (`Behind`, with the step lemmas
  ending in `Forward`), so that the epoch of a new election was never asked for before,
  restarts included; a request on its way was not granted, an answer was given
  (`Posted`), once each (`Once`); and an election has counted no more than the votes for
  it that are no longer on their way (`Counts`). `QuietStep` is the case of every step
  that asks for no vote, gives none and counts none.
* `VotesOnce`: `Spec => [](restarts = 0 => OneVoteAnEpoch)`, no node votes for two slaves
  in an epoch until a node is restarted. `MayVote` compares only with the last vote, so
  this rests on epochs that do not go back (`Remembers`). A restart may take it back,
  since `lastVoteEpoch` is not saved with a vote (`cluster.c:2617`).

A majority here is of the table of the winner, as in the code: two tables may differ in
how many masters they have, so the two theorems do not add up to one winner an epoch,
and neither does the code (`clusterHandleConfigEpochCollision` settles the rest).

### RedisSentinelProofs

`TypeInvariant`, `OneVotePerEpochAlways`, `LeaderHasVotesAlways` and
`NoInstanceForgottenAlways`: all the properties of run `sentinel`, for any
Sentinels, instances and quorum (`SentinelAssumption`).

`IInv` is types, `VotesOK` (a voter whose file can be written has one vote in an epoch, and no vote
above the epoch it remembers, in memory and in its file) and `SentinelOK(s)` for each Sentinel: memory and file list
every instance (`GoodFile` says of the file what the property says of it, through
the renaming in `Saved`); the epoch of the vote on disk equals the one in memory,
unless the file cannot be written (`Fits`), which is why a restart cannot vote again; every vote it holds, its own and those
its peers told it, is in the ghost `cast` (*backed*); whoever acts was elected.

The lemmas: `SavedGood` and `ChangeAddressGood` (no instance drops out of a file or
a switch), `VoteLeaderFields` and `VoteLeaderEpochs` (what a vote changes),
`WinnerHasVotes` (the count of `sentinelGetLeader` is one of backed votes),
`CastStep` (votes only grow, by the one just given), and `OneSentinel`,
`SentinelLeftAlone`, which reduce a step to the Sentinels it changes.

**The leader of an epoch.** `LeaderHasVotes` is of the failover's epoch *or later*,
because votes of later epochs count (`sentinel.c:3460`, above). `LeaderOfItsEpoch` says
what follows when they do not: `Spec /\ [][LeadsInItsEpoch]_vars` implies that the
votes of every elected leader are of one epoch (`LeaderOfOneEpoch`) and that, as long as
all files can be written, no two elected leaders act in failovers of the same epoch
(`OneLeader`). The premise is about
one moment: when a Sentinel wins, its current epoch is the one of its failover. The
invariant is `LeadersElected`, each leader has the votes it needs of its failover's
epoch; it is inductive beside `IInv`. `LeadKept` sorts the steps: whoever leads after
a step led before, in the same failover and as the same run (`TicksKeep` and the other
`...Keeps`), but for the tick in `wait_start`, whose winner `WinnerHasVotesInEpoch` counts.
`MajoritiesMeet` gives two leaders a common voter, and one vote an epoch makes them one.
A forced failover takes its epoch without votes and is outside of both statements.

### RedisPersistenceProofs

`TypeInvariant`, `AofCompleteAlways`, `AckedSyncedAlways` and `DirtyCountsAlways`: the
type invariant and every safety property of run `persistence`, for any policies,
any number of writes, commands, faults and crashes, and any sequence of them
(`PersistenceAssumption`).

`IInv` has four named parts. *Shape*: types, and that a server that is down has no
children, and that the descriptor is open while the AOF is not off. *AofKept*: `AofComplete`, with what it needs to be inductive: a child that
is done has read its pipe empty, and `aof_current_size` is the length of the file,
without which the truncation after a short write would cut off too much or too
little. *Counted*: what a BGSAVE will leave, in each of its phases: the changes it
accounts for are counted, and if no others are, it has the data set. It is also what
keeps `dirty` from getting negative, so types and counting are proved together.
*Promised*: a write is in the data before its reply leaves; with `always`, what is in the
buffer was executed in this turn, and what earlier turns executed is synced, unless an
fsync failed. Nothing is said of replies that leave in the turn of their write: they are
free to leave before it is in the file.

`AofComplete` is an equation between concatenations, and every step moves a piece
across it: `OutcomeMoves` says of each outcome of a flush, failures included, that it
moves a front of the buffer to the file, `Regroup` of the steps of a rewrite that
what goes through the pipe keeps its order, `RewrittenData` that the file that takes
the place of the old one has the data set. `PrefixRange` and `SyncedPrefix` are what a
power failure needs. Then there is one lemma for each part of the invariant
(`ShapeStep`, `AofStep`, `CountedStep`, `PromisedStep`), by the actions.

**An orderly shutdown.** Run `persistence_shutdown` shows an answered write missing;
the other half is proved. `ShutdownKeepsDataset`:
`Spec /\ [][WrittenBeforeShutdown]_vars` implies that after a SHUTDOWN the file *is*
the data set (`FullDataset`, what the comment at `redis.c:2406` says), and so
`ShutdownKeepsAcked`. The premise is that no SHUTDOWN finds something in `aof_buf`.
The step rests on `AofComplete` and *Promised*, and on `OnlyShutdown`: nothing else
leads to that state. `ShutdownWithAlways`: with `appendfsync always` no premise is
needed for what was executed in earlier turns (`ShutdownKeepsEarlier`), whether or not
an fsync fails; of the turn in which SHUTDOWN comes the run shows the opposite.

### Replication (in RedisPersistenceProofs)

The second half of the module is about `RedisReplication`, of which it takes an
instance (`Repl`), because both components reason with the same lemmas about pieces of
data sets. Hypothesis of each theorem is `ReplicationAssumption`, which TLC evaluates in
run `replication`; any servers, first topology, backlog size and number of events are
covered.

* `ReplicationTypes` and `ReplicationOffsets`: `[]TypeOK` (with the assertion that a
  server with slaves has a backlog) and `[]OffsetsAgree`, whatever happens.
* `ReplicationLosesNothing`: `Spec /\ []NoPsyncWithOldSlave => []NothingLost`. The
  premise is the promise of the comment at `replication.c:81`. The code breaks it, and
  nothing else in it loses a write.
* `ReplicationWithoutSlaveof`: until the first `SLAVEOF` the premise and `NothingLost`
  hold, through breaks, restarts, BGSAVEs that fail or do not start and freed backlogs. Run
  `replication_psync` shows that this is as far as it goes: one `SLAVEOF` is enough to
  break it, with four servers.

`NothingLost` alone is therefore not an invariant; run `replication` checks it with three
servers and one `SLAVEOF`, where there is no second master to become a slave of while
two slaves are left behind.

`ReplInv` is types and `Member(z)` for every server: `Own` couples the states of the two
ends of a link and says that the backlog is an end of the data set; `Link` says where the
slave is in the stream. A position belongs to this or an earlier life of the master
(`Older`), and the offset announced for a file, or claimed by an online slave, is the
master's less what is queued. What the *data* has to do with the offsets is left out of
it, in `Sync` and `Resume`, since old slaves break exactly that. `StepKeeps` is what every
action is shown to keep, for each slave: `Member` always, `Sync` if the slave is not old,
`Resume` (what the backlog would send is what is missing) if there was no `SLAVEOF`.

Each action touches a slave, its master, or another server; the lemmas `KeptFed`,
`KeptApplied`, `KeptLoaded`, `KeptCreated`, `KeptForgets`, `KeptClosed`, `KeptRestarted` say
what it does to a link from either end, `ClosingStep` and `JoinKeeps` put closing and joining
slaves together. `EndsInMore` keeps the backlog an end of the data when it is trimmed;
`MissingFound` says that what a slave lacks, if no longer than the backlog, is its end, and
`ResumeFinds` that PSYNC then sends just that.

### Only model-checked

The liveness properties, which need ENABLED and are out of the prover's reach
(`HandlersResume`, `SilentMissFills`, `TablesConverge`, `EventuallyInSync`, `BufferDrains`,
`AofSwitchesOn`), and `NothingLost` after a `SLAVEOF` without the premise
above. Every other safety property of a passing run is the subject of a theorem. No
module declares a RECURSIVE operator, and nothing here rests on an induction over data.

## 5. Abstractions that matter

* A message of Sentinel, and a heartbeat of a cluster, is handled when it is sent or
  never. Votes of a cluster may be late; that is where lateness has consequences.
* A write of `RedisReplication` is one unit of the stream and of the backlog.
* The handshake of a slave is one action, as PSYNC comes on a new connection; both
  ends see a broken connection at once.
* A process that dies takes its children along; in the code an orphan of a crash
  may live on for a while and rename its file.
* Any slave may be the one that `sentinelSelectSlave` picks: priority, offset and run
  id only order them.

## 6. Not modelled

* Endpoints the clients call and this server does not have (loginmanager,
  transaksi, mutasi, batch, supplier, unit conversion, chatbot), and with them the
  flows that need them: stock, transfers, sales. What such a server would do is
  not in the repository.
* The Mongoose models that the route files require from `../models`; they are not in the
  repository. Most of what uses them is in comments, but `tambahkategori` and `tambahjenis`
  (`barang.js:481`, `513`) make a document of the body with `new` and pass it on; it is
  taken for the fields it carries.
* The owner account: two devices at the first start can both create an owner
  (`user.js:42`); it shares no state with the modelled endpoints.
* Realm Sync: rows that arrive from Atlas do not touch Redis. Reconnection of
  ioredis, which may send commands again.
* Screens, reports, formatting, passwords and tokens.
* Redis commands and data types, the dictionary, the encodings, sorting, scripting,
  the tools and the Windows port with its allocator: sequential code on data
  structures, most of the lines of the repository. The application uses GET, SET and
  DEL of strings; `RedisConnection` models what it relies on. The share of the
  lines that `map` covers stays below a tenth for this reason.
* Of Sentinel: when an instance counts as down (it may at any time), SENTINEL SET,
  REMOVE, RESET and MONITOR, notification scripts. Of Cluster: gossip and failure
  reports, handshakes, manual failover with its pause, migration of slots and of
  replicas, CLUSTER RESET and FORGET. Of replication: diskless sync,
  `CONFIG SET repl-backlog-size`, WAIT and REPLCONF ACK, `min-slaves-*`, expiry. Of
  persistence: the formats, MULTI/EXEC in the file, FLUSHALL, CONFIG REWRITE.

## 7. Plan

1. **Done.** The application: `RedisConnection`, `BarangServer`, `Diskon`,
   `CabangServer`, `MasterData`, `ReadThrough`; proofs of all their safety properties and
   of the four refinements of `ReadThrough`.
2. **Done.** Redis: `RedisSentinel`, `RedisCluster`, `RedisReplication`,
   `RedisPersistence`; proofs of all their safety properties, `NothingLost` as said above.
3. **Done.** The positive halves of `cluster_vote` and `persistence_shutdown`, `VotesOnce`
   and `LeaderOfItsEpoch`.
4. Migration of slots (MIGRATING, IMPORTING, SETSLOT) in `RedisCluster`, and
   `OwnerAccount`.
