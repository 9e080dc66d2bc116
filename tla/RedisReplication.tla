-------------------------- MODULE RedisReplication --------------------------
(***************************************************************************)
(* Replication (src/replication.c of the bundled Redis 3.0): a slave gets  *)
(* the whole data set of its master once, then the stream of its writes,   *)
(* and after a broken connection only what it missed, if the backlog of    *)
(* the master still has it. A slave may itself be the master of others.    *)
(*                                                                         *)
(* A write is one unit of the stream, whatever its length. Both ends of a  *)
(* connection notice at once that it is broken; what was on its way is     *)
(* lost. The handshake up to PSYNC, and its treatment by the master, is    *)
(* one action: PSYNC comes on a connection that has just been made. The    *)
(* master sends the data set from a file (repl-diskless-sync no). The      *)
(* PINGs that replicationCron puts in the stream are not modelled: one is  *)
(* a unit that is no part of the data, advances the offsets of both ends   *)
(* alike, and leaves the writes in the backlog less room.                  *)
(***************************************************************************)
EXTENDS Integers, Sequences, FiniteSets, SequencesExt

CONSTANTS
    Server,
    FirstHosts,     \* whom each server replicates at first (slaveof), or None
    None,           \* NULL
    BacklogSize,    \* repl-backlog-size, in writes
    Bound(_)        \* bound: how often the events happen, given as counts

Events == {"write", "bgsave", "break", "bgsave fails", "restart", "backlog freed", "slaveof"}

VARIABLES
    srv,        \* what each server holds
    cl,         \* the client that each slave is at its master
    count       \* of the events, for the bounds

vars == <<srv, cl, count>>

RunId == Server \X Nat

\* A write is known by its number; a data set by the writes it consists of.
Data == Seq(Nat)

\* Where a slave is in the stream of its master: server.master while it is
\* connected, server.cached_master otherwise.
Position == [off : Nat, run : RunId]

ASSUME ReplicationAssumption ==
    /\ IsFiniteSet(Server)
    /\ None \notin Server /\ None \notin Data /\ None \notin Position
    /\ FirstHosts \subseteq [Server -> Server \cup {None}]
    /\ BacklogSize \in Nat \ {0}

State == [data : Data, offset : Nat, backlog : Data \cup {None},
          bgsave : Data \cup {None}, disk : Data, run : RunId,
          host : Server \cup {None}, position : Position \cup {None},
          state : {"none", "connect", "receive_psync", "refused", "transfer",
                   "connected"}]

Client == [state : {"none", "wait_start", "wait_end", "send_bulk", "online"},
           out : Data, rdb : Data, init : Nat]
NoClient == [state |-> "none", out |-> <<>>, rdb |-> <<>>, init |-> 0]

Happens(event) ==
    /\ count' = [count EXCEPT ![event] = @ + 1]
    /\ Bound(count')

-----------------------------------------------------------------------------
(* The master's side *)

Slaves(x) == {y \in Server : srv[y].host = x /\ cl[y] # NoClient}

\* repl_backlog_off follows from what the backlog holds.
BacklogOff(x) == srv[x].offset - Len(srv[x].backlog) + 1

Trimmed(s) ==
    IF Len(s) > BacklogSize THEN SubSeq(s, Len(s) - BacklogSize + 1, Len(s))
    ELSE s

\* createReplicationBacklog: no old slave may find its place in a new one.
CreateBacklog(m) == [m EXCEPT !.backlog = <<>>, !.offset = @ + 1]

\* The end of syncCommand at y: the first slave gets a backlog.
WithBacklog(y) ==
    IF srv[y].backlog = None /\ Slaves(y) = {} THEN CreateBacklog(srv[y])
    ELSE srv[y]

\* getPsyncInitialOffset
InitialOffset(m) == IF m.backlog = None THEN m.offset + 1 ELSE m.offset

\* The servers after the connections of these slaves were closed: a position
\* that was reached is cached for PSYNC.
Closed(s, slaves) ==
    [y \in Server |-> IF y \in slaves THEN [s[y] EXCEPT !.state = "connect"]
                      ELSE s[y]]
Gone(c, slaves) ==
    [y \in Server |-> IF y \in slaves THEN NoClient ELSE c[y]]

\* replicationFeedSlaves, for a server m that is x.
Fed(x, m, w) ==
    IF m.backlog = None /\ Slaves(x) = {} THEN m
    ELSE [m EXCEPT !.offset = @ + 1, !.backlog = Trimmed(Append(@, w))]

\* Mutant: only slaves that are online are fed.
FeedOnline(x, c, w) ==
    [y \in Server |->
       IF y \in Slaves(x) /\ c[y].state = "online"
       THEN [c[y] EXCEPT !.out = Append(@, w)] ELSE c[y]]

\* Slaves that wait for a BGSAVE to start will get the write with the file.
Feed(x, c, w) ==
    [y \in Server |->
       IF y \in Slaves(x) /\ c[y].state # "wait_start"
       THEN [c[y] EXCEPT !.out = Append(@, w)] ELSE c[y]]

\* replicationSetupSlaveForFullResync, for all that wait for this BGSAVE.
SetupSlaves(x, c, offset) ==
    [y \in Server |->
       IF srv[y].host = x /\ c[y].state = "wait_start"
       THEN [c[y] EXCEPT !.state = "wait_end", !.init = offset] ELSE c[y]]

\* The file is there for the slaves that wait for its end.
Sent(x, c) ==
    [y \in Server |->
       IF srv[y].host = x /\ c[y].state = "wait_end"
       THEN [c[y] EXCEPT !.state = "send_bulk", !.rdb = srv[x].bgsave] ELSE c[y]]

Waiting(x, c) ==
    {y \in Server : srv[y].host = x /\ c[y].state = "wait_start"}

\* A command at a master.
Write(x) ==
    /\ srv[x].host = None
    /\ Happens("write")
    /\ LET w == count'["write"]
       IN /\ srv' = [srv EXCEPT ![x] = [Fed(x, srv[x], w) EXCEPT !.data = Append(@, w)]]
          /\ cl' = Feed(x, cl, w)

\* BGSAVE by a user or a save point: no slave collects what follows it.
Bgsave(x) ==
    /\ srv[x].bgsave = None
    /\ Happens("bgsave")
    /\ srv' = [srv EXCEPT ![x].bgsave = srv[x].data]
    /\ UNCHANGED cl

\* Mutant: slaves that came too late for this BGSAVE are forgotten.
BgsaveDoneNoNext(x) ==
    /\ srv[x].bgsave # None
    /\ srv' = [srv EXCEPT ![x] =
                          [@ EXCEPT !.disk = srv[x].bgsave, !.bgsave = None]]
    /\ cl' = Sent(x, cl)
    /\ UNCHANGED count

\* The child has ended: backgroundSaveDoneHandler and, in it,
\* updateSlavesWaitingBgsave. The file goes to the slaves that wait for its
\* end, and for the others the next one is started.
BgsaveDone(x) ==
    LET m == [srv[x] EXCEPT !.disk = srv[x].bgsave, !.bgsave = None]
    IN /\ srv[x].bgsave # None
       /\ IF Waiting(x, cl) = {}
          THEN /\ srv' = [srv EXCEPT ![x] = m]
               /\ cl' = Sent(x, cl)
          ELSE /\ srv' = [srv EXCEPT ![x] = [m EXCEPT !.bgsave = m.data]]
               /\ cl' = SetupSlaves(x, Sent(x, cl), InitialOffset(m))
       /\ UNCHANGED count

\* The child has failed: the slaves that waited for its end are closed.
BgsaveFailed(x) ==
    LET failed == {y \in Slaves(x) : cl[y].state = "wait_end"}
        m == [srv[x] EXCEPT !.bgsave = IF Waiting(x, cl) = {} THEN None
                                       ELSE srv[x].data]
    IN /\ srv[x].bgsave # None
       /\ Happens("bgsave fails")
       /\ srv' = Closed([srv EXCEPT ![x] = m], failed)
       /\ cl' = SetupSlaves(x, Gone(cl, failed), InitialOffset(m))

\* The child has ended well or not, but the next BGSAVE does not start: the
\* slaves that wait for it are no longer slaves, and get an error.
NextBgsaveFails(x) ==
    LET waiting == Waiting(x, cl)
        failed == {y \in Slaves(x) : cl[y].state = "wait_end"}
        m == [srv[x] EXCEPT !.bgsave = None]
        refused(s) == [y \in Server |->
                         IF y \in waiting THEN [s[y] EXCEPT !.state = "refused"]
                         ELSE s[y]]
    IN /\ srv[x].bgsave # None
       /\ waiting # {}
       /\ Happens("bgsave fails")
       /\ \/ /\ srv' = refused([srv EXCEPT ![x] = [m EXCEPT !.disk = srv[x].bgsave]])
             /\ cl' = Gone(Sent(x, cl), waiting)
          \/ /\ srv' = refused(Closed([srv EXCEPT ![x] = m], failed))
             /\ cl' = Gone(cl, waiting \cup failed)

\* replicationCron: no slaves for repl-backlog-ttl seconds.
FreeBacklog(x) ==
    /\ srv[x].backlog # None
    /\ Slaves(x) = {}
    /\ Happens("backlog freed")
    /\ srv' = [srv EXCEPT ![x].backlog = None]
    /\ UNCHANGED cl

-----------------------------------------------------------------------------
(* The slave's side *)

\* masterTryPartialResynchronization at y: x asks for what follows its offset.
CanContinue(x, y) ==
    LET p == srv[x].position
    IN /\ p # None
       /\ p.run = srv[y].run
       /\ srv[y].backlog # None
       /\ p.off + 1 >= BacklogOff(y)
       /\ p.off + 1 <= BacklogOff(y) + Len(srv[y].backlog)

\* addReplyReplicationBacklog: what x lacks of the stream of y.
Missing(x, y) ==
    SubSeq(srv[y].backlog, srv[x].position.off + 2 - BacklogOff(y),
           Len(srv[y].backlog))

\* syncCommand at the master y, for the new connection of x.
Continue(x, y) ==
    /\ CanContinue(x, y)
    /\ srv' = [srv EXCEPT ![x].state = "connected"]
    /\ cl' = [cl EXCEPT ![x] = [NoClient EXCEPT !.state = "online",
                                                !.out = Missing(x, y)]]

\* A BGSAVE is going on, and another slave collects what follows it: its
\* buffer is copied. Without such a slave, x waits for the next BGSAVE.
WaitForBgsave(x, y) ==
    LET good == {z \in Slaves(y) : cl[z].state = "wait_end"}
    IN /\ ~CanContinue(x, y)
       /\ srv[y].bgsave # None
       /\ IF good = {}
          THEN cl' = [cl EXCEPT ![x] = [NoClient EXCEPT !.state = "wait_start"]]
          ELSE \E z \in good : cl' = [cl EXCEPT ![x] = cl[z]]
       /\ srv' = [srv EXCEPT ![x].state = "receive_psync",
                             ![y] = WithBacklog(y)]

\* Mutant: the initial offset is the one before the backlog is created.
StartBgsaveOldOffset(x, y) ==
    /\ ~CanContinue(x, y)
    /\ srv[y].bgsave = None
    /\ cl' = [cl EXCEPT ![x] = [NoClient EXCEPT !.state = "wait_end",
                                  !.init = srv[y].offset]]
    /\ srv' = [srv EXCEPT ![x].state = "receive_psync",
                             ![y] = [WithBacklog(y) EXCEPT !.bgsave = srv[y].data]]

\* No BGSAVE is going on: one is started, and only then the first slave gets
\* its backlog.
StartBgsave(x, y) ==
    /\ ~CanContinue(x, y)
    /\ srv[y].bgsave = None
    /\ cl' = [cl EXCEPT ![x] = [NoClient EXCEPT !.state = "wait_end",
                                  !.init = InitialOffset(srv[y])]]
    /\ srv' = [srv EXCEPT ![x].state = "receive_psync",
                             ![y] = [WithBacklog(y) EXCEPT !.bgsave = srv[y].data]]

\* An error is the answer to PSYNC: the position is given up, with the slaves
\* and the backlog of x.
Refused(x) ==
    /\ srv' = [Closed(srv, Slaves(x)) EXCEPT ![x].state = "connect",
                                             ![x].position = None,
                                             ![x].backlog = None]
    /\ cl' = Gone(cl, Slaves(x))

\* The BGSAVE that x needs does not start.
StartFails(x, y) ==
    /\ ~CanContinue(x, y)
    /\ srv[y].bgsave = None
    /\ Happens("bgsave fails")
    /\ Refused(x)

Ready(y) == srv[y].host = None \/ srv[y].state = "connected"

\* replicationCron connects, and syncWithMaster goes up to the answer. A slave
\* whose own link is not up refuses PSYNC, and the SYNC that follows.
Connect(x) ==
    LET y == srv[x].host
    IN /\ srv[x].state = "connect"
       /\ \/ /\ Ready(y)
             /\ Continue(x, y) \/ WaitForBgsave(x, y) \/ StartBgsave(x, y)
             /\ UNCHANGED count
          \/ Ready(y) /\ StartFails(x, y)
          \/ ~Ready(y) /\ Refused(x) /\ UNCHANGED count

\* The error of NextBgsaveFails.
ReceiveRefusal(x) ==
    /\ srv[x].state = "refused"
    /\ Refused(x)
    /\ UNCHANGED count

\* +FULLRESYNC: the cached position is discarded, the slaves of x have to
\* resynchronize as well, and its backlog is freed.
ReceiveFullresync(x) ==
    /\ srv[x].state = "receive_psync"
    /\ cl[x].state \in {"wait_end", "send_bulk"}
    /\ srv' = [Closed(srv, Slaves(x)) EXCEPT ![x].state = "transfer",
                                             ![x].position = None,
                                             ![x].backlog = None]
    /\ cl' = Gone(cl, Slaves(x))
    /\ UNCHANGED count

\* readSyncBulkPayload, at the end of the file; it becomes the file of x.
LoadRdb(x) ==
    /\ srv[x].state = "transfer"
    /\ cl[x].state = "send_bulk"
    /\ srv' = [srv EXCEPT ![x].state = "connected",
                 ![x].data = cl[x].rdb, ![x].disk = cl[x].rdb,
                 ![x].position = [off |-> cl[x].init, run |-> srv[srv[x].host].run]]
    /\ cl' = [cl EXCEPT ![x] = [@ EXCEPT !.state = "online", !.rdb = <<>>,
                                         !.init = 0]]
    /\ UNCHANGED count

\* The next write of the master is read, executed and passed on.
Apply(x) ==
    /\ srv[x].state = "connected"
    /\ cl[x].out # <<>>
    /\ LET w == Head(cl[x].out)
           m == [srv[x] EXCEPT !.data = Append(@, w), !.position.off = @ + 1]
       IN /\ srv' = [srv EXCEPT ![x] = Fed(x, m, w)]
          /\ cl' = Feed(x, [cl EXCEPT ![x].out = Tail(@)], w)
    /\ UNCHANGED count

-----------------------------------------------------------------------------
(* Faults and commands *)

\* A connection breaks, or times out, in any state.
Break(x) ==
    /\ cl[x] # NoClient \/ srv[x].state = "refused"
    /\ Happens("break")
    /\ srv' = Closed(srv, {x})
    /\ cl' = Gone(cl, {x})

\* The process dies and starts from its RDB file, with its configuration. The
\* run ID is a new one.
Restart(x) ==
    /\ Happens("restart")
    /\ LET closed == Closed(srv, Slaves(x))
       IN srv' = [closed EXCEPT ![x] =
            [data |-> @.disk, offset |-> 0, backlog |-> None, bgsave |-> None,
             disk |-> @.disk, run |-> <<x, @.run[2] + 1>>, host |-> @.host,
             position |-> None,
             state |-> IF @.host = None THEN "none" ELSE "connect"]]
    /\ cl' = Gone(cl, Slaves(x) \cup {x})

\* SLAVEOF y: replicationSetMaster. As Sentinel does, y is made a master first.
Slaveof(x, y) ==
    /\ srv[x].host # y
    /\ srv[y].host = None
    /\ Happens("slaveof")
    /\ srv' = [Closed(srv, Slaves(x)) EXCEPT
                 ![x].host = y, ![x].state = "connect", ![x].position = None,
                 ![x].backlog = None, ![x].offset = 0]
    /\ cl' = Gone(cl, Slaves(x) \cup {x})

\* Mutant: the backlog is freed whether there are slaves or not.
SlaveofNoOneFree(x) ==
    /\ srv[x].host # None
    /\ Happens("slaveof")
    /\ srv' = [srv EXCEPT ![x].host = None, ![x].state = "none",
                          ![x].position = None, ![x].backlog = None]
    /\ cl' = Gone(cl, {x})

\* SLAVEOF NO ONE: replicationUnsetMaster. Without slaves, x takes over the
\* offset of its master.
SlaveofNoOne(x) ==
    LET m == [srv[x] EXCEPT !.host = None, !.state = "none", !.position = None]
    IN /\ srv[x].host # None
       /\ Happens("slaveof")
       /\ srv' = [srv EXCEPT ![x] =
                    IF srv[x].state = "connected" /\ Slaves(x) = {}
                    THEN [m EXCEPT !.offset = srv[x].position.off,
                                   !.backlog = None]
                    ELSE m]
       /\ cl' = Gone(cl, {x})

-----------------------------------------------------------------------------

Init ==
    /\ \E host \in FirstHosts :
          srv = [x \in Server |->
                   [data |-> <<>>, offset |-> 0, backlog |-> None,
                    bgsave |-> None, disk |-> <<>>, run |-> <<x, 0>>,
                    host |-> host[x], position |-> None,
                    state |-> IF host[x] = None THEN "none" ELSE "connect"]]
    /\ cl = [x \in Server |-> NoClient]
    /\ count = [e \in Events |-> 0]

AsMaster(x) ==
    \/ Write(x) \/ Bgsave(x) \/ BgsaveDone(x) \/ BgsaveFailed(x)
    \/ NextBgsaveFails(x) \/ FreeBacklog(x)

AsSlave(x) ==
    \/ Connect(x) \/ ReceiveFullresync(x) \/ ReceiveRefusal(x)
    \/ LoadRdb(x) \/ Apply(x)

Command(x) ==
    SlaveofNoOne(x) \/ \E y \in Server \ {x} : Slaveof(x, y)

Next ==
    \E x \in Server : AsMaster(x) \/ AsSlave(x) \/ Break(x) \/ Restart(x) \/ Command(x)

Spec == Init /\ [][Next]_vars

\* Every server goes on with what it can do; replicationCron connects again.
FairSpec ==
    Spec /\ \A x \in Server : WF_vars(BgsaveDone(x)) /\ WF_vars(AsSlave(x))

-----------------------------------------------------------------------------
(* Properties *)

\* Types, and the assertion of freeReplicationBacklog: whoever has slaves has a
\* backlog, through every change of roles.
TypeOK ==
    /\ \A x \in Server : Slaves(x) # {} => srv[x].backlog # None
    /\ srv \in [Server -> State]
    /\ cl \in [Server -> Client]
    /\ count \in [Events -> Nat]

\* What a slave has, or will load, and what is on its way to it make up what
\* its master has: no write is lost, doubled or out of order over BGSAVEs
\* that slaves share, partial resynchronizations and chained slaves.
NothingLost ==
    \A x \in Server :
       LET m == srv[srv[x].host]
       IN /\ cl[x].state = "online" => srv[x].data \o cl[x].out = m.data
          /\ cl[x].state = "send_bulk" => cl[x].rdb \o cl[x].out = m.data
          /\ cl[x].state = "wait_end" => m.bgsave \o cl[x].out = m.data

\* replication.c:81: no old slave can PSYNC with a backlog that is a new one.
\* One that would be sent the rest from the backlog has, with it, the data of
\* its master.
NoPsyncWithOldSlave ==
    \A x \in Server :
       LET y == srv[x].host
       IN srv[x].state = "connect" /\ Ready(y) /\ CanContinue(x, y)
             => srv[x].data \o Missing(x, y) = srv[y].data

\* The offset that a slave claims, and by which it is chosen at a failover,
\* is that of its master less what is on its way.
OffsetsAgree ==
    \A x \in Server :
       cl[x].state = "online" =>
          srv[x].position.off + Len(cl[x].out) = srv[srv[x].host].offset

\* When connections stop breaking, every slave ends with the data of its
\* master.
EventuallyInSync ==
    <>[](\A x \in Server :
            srv[x].host # None => srv[x].data = srv[srv[x].host].data)
=============================================================================
