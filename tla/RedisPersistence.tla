-------------------------- MODULE RedisPersistence --------------------------
(***************************************************************************)
(* Persistence of one Redis server (src/aof.c, rdb.c, bio.c and the parts  *)
(* of redis.c that drive them): the append only file, its rewriting by a   *)
(* child while writes go on, its fsync by a thread, and the RDB file.      *)
(*                                                                         *)
(* A command that writes is one number; a data set is the sequence of the  *)
(* commands that made it, and so is what a child writes for it. A process  *)
(* that ends takes its children with it, and a rewrite that cannot fork    *)
(* changes nothing. Save points are configured, and                        *)
(* no-appendfsync-on-rewrite and aof-load-truncated are at their defaults. *)
(***************************************************************************)
EXTENDS Integers, Sequences, SequencesExt

CONSTANTS
    Policies,       \* appendfsync: some of "always", "everysec", "no"
    None,           \* no child
    Bound(_)        \* bound: how often the events happen, given as counts

Events == {"write", "rewrite", "bgsave", "config", "fault", "crash"}

ASSUME PersistenceAssumption == Policies \subseteq {"always", "everysec", "no"}

VARIABLES
    process,    \* "up", "down", or "shutdown" (in good order)
    policy,     \* server.aof_fsync
    conf,       \* appendonly in the configuration file
    data,       \* what is in memory
    executed,   \* ghost: the writes of this turn of the event loop
    replies,    \* the writes whose replies wait in the output buffers
    acked,      \* the writes whose replies were sent
    aof,        \* the server's side of the append only file
    file,       \* the append only file
    fsyncs,     \* the jobs of the fsync thread
    rewrite,    \* the rewriting child, and what goes to it
    rdb,        \* dump.rdb
    dirty, saved, bgsave,   \* server.dirty, lastbgsave_status and the saving child
    count       \* of the events, for the bounds

config == <<policy, conf>>
memory == <<data, executed, replies, acked>>
append == <<aof, file, fsyncs, rewrite>>
snapshot == <<rdb, dirty, saved, bgsave>>
vars == <<process, config, memory, append, snapshot, count>>

Data == Seq(Nat)

Aof == [state : {"off", "wait", "on"},  \* aof_state
        buf : Data,                     \* aof_buf
        size : Nat,                     \* aof_current_size
        ok : BOOLEAN,                   \* aof_last_write_status
        postponed : 0..3,               \* seconds since a flush was, and one more
        due : BOOLEAN,                  \* unixtime > aof_last_fsync
        fd : {"none", "open", "closed"},    \* aof_fd; closed: the number is kept
        scheduled : BOOLEAN]            \* aof_rewrite_scheduled

Rewrite == [phase : {"writing", "asked", "stopped", "ok", "failed"},
            base : Data, diff : Data,   \* what the child has
            pipe : Data, buf : Data]    \* what the parent has for it

Bgsave == [data : Data, before : Nat,
           phase : {"writing", "ok", "failed", "killed"}]

Happens(event) ==
    /\ count' = [count EXCEPT ![event] = @ + 1]
    /\ Bound(count')

-----------------------------------------------------------------------------
(* Commands and their replies *)

\* processCommand: errors of the last BGSAVE or write to the AOF refuse writes.
Accepts == saved /\ aof.ok

\* Mutant: a rewrite that waits for its end gets no more writes.
FeedStopped(w) ==
    /\ aof' = IF aof.state = "on" THEN [aof EXCEPT !.buf = Append(@, w)] ELSE aof
    /\ rewrite' = IF rewrite # None /\ rewrite.phase = "writing"
                  THEN [rewrite EXCEPT !.buf = Append(@, w)] ELSE rewrite

\* feedAppendOnlyFile
Feed(w) ==
    /\ aof' = IF aof.state = "on" THEN [aof EXCEPT !.buf = Append(@, w)] ELSE aof
    /\ rewrite' = IF rewrite = None THEN None
                  ELSE [rewrite EXCEPT !.buf = Append(@, w)]

Write ==
    LET w == count'["write"]
    IN /\ process = "up" /\ Accepts
       /\ Happens("write")
       /\ data' = Append(data, w)
       /\ executed' = executed \cup {w}
       /\ replies' = replies \cup {w}
       /\ dirty' = dirty + 1
       /\ Feed(w)
       /\ UNCHANGED <<process, config, acked, file, fsyncs, rdb, saved, bgsave>>

\* sendReplyToClient. When an earlier reply has installed it, ae.c calls it after
\* the handler that executes the command, in the same turn of the event loop.
Reply ==
    /\ process = "up"
    /\ \E sent \in SUBSET replies :
          /\ sent # {}
          /\ acked' = acked \cup sent
          /\ replies' = replies \ sent
    /\ UNCHANGED <<process, config, data, executed, append, snapshot, count>>

-----------------------------------------------------------------------------
(* The end of the process, and its start *)

Ends(how) ==
    /\ process' = how
    /\ rewrite' = None /\ bgsave' = None /\ fsyncs' = <<>>

\* The process is killed; what was written to files is there.
Killed ==
    /\ process = "up"
    /\ Happens("crash")
    /\ Ends("down")
    /\ UNCHANGED <<config, memory, aof, file, rdb, dirty, saved>>

\* The machine stops: of what was not synced, some may be there.
PowerFails ==
    /\ process = "up"
    /\ Happens("crash")
    /\ Ends("down")
    /\ \E n \in file.synced..Len(file.data) :
          file' = [file EXCEPT !.data = SubSeq(@, 1, n), !.synced = n]
    /\ UNCHANGED <<config, memory, aof, rdb, dirty, saved>>

\* aof_fsync, whose result the server does not look at: after an error nothing
\* more is known to be on the disk.
Syncs(f) ==
    IF f.error THEN {f}
    ELSE {[f EXCEPT !.synced = Len(f.data)], [f EXCEPT !.error = TRUE]}

\* SIGUSR1 to the child that saves. It tells of no error.
BgsaveKilled ==
    IF bgsave # None /\ bgsave.phase = "writing"
    THEN [bgsave EXCEPT !.phase = "killed"] ELSE bgsave

RewriteKilled ==
    IF aof.state # "off" /\ rewrite # None /\ rewrite.phase # "ok"
    THEN [rewrite EXCEPT !.phase = "failed"] ELSE rewrite

WritingInitialAof == aof.state = "wait" /\ rewrite # None

\* prepareForShutdown: children are killed, the AOF is synced, and with save
\* points, or SAVE, the data saved.
Shutdown ==
    /\ process = "up"
    /\ ~WritingInitialAof
    /\ Happens("crash")
    /\ Ends("shutdown")
    /\ file' \in IF aof.state = "off" THEN {file} ELSE Syncs(file)
    /\ \/ rdb' = data /\ dirty' = 0 /\ saved' = TRUE
       \/ UNCHANGED <<rdb, dirty, saved>>  \* NOSAVE
    /\ UNCHANGED <<config, memory, aof>>

\* The same, when it returns REDIS_ERR: before the first rewrite is done, or when
\* rdbSave fails. What was killed stays killed.
ShutdownFails ==
    /\ process = "up"
    /\ Happens("crash")
    /\ bgsave' = BgsaveKilled
    /\ \/ WritingInitialAof /\ UNCHANGED <<file, rewrite>>
       \/ /\ ~WritingInitialAof
          /\ rewrite' = RewriteKilled
          /\ file' \in IF aof.state = "off" THEN {file} ELSE Syncs(file)
    /\ UNCHANGED <<process, config, memory, aof, fsyncs, rdb, dirty, saved>>

\* initServer and loadDataFromDisk. Commands that are loaded count as changes.
\* Of the promises made before, those are followed up that are on the disk; the
\* others were broken, or made while the AOF was off.
Restart ==
    /\ process # "up"
    /\ process' = "up"
    /\ data' = IF conf = "on" THEN file.data ELSE rdb
    /\ dirty' = IF conf = "on" THEN Len(file.data) ELSE 0
    /\ aof' = [state |-> conf, buf |-> <<>>, ok |-> TRUE, postponed |-> 0,
               due |-> FALSE, scheduled |-> FALSE,
               fd |-> IF conf = "on" THEN "open" ELSE "none",
               size |-> IF conf = "on" THEN Len(file.data) ELSE 0]
    /\ executed' = {} /\ replies' = {}
    /\ acked' = IF conf = "on" THEN acked \cap Range(SubSeq(file.data, 1, file.synced))
                ELSE {}
    /\ saved' = TRUE
    /\ file' = [file EXCEPT !.error = FALSE]
    /\ UNCHANGED <<config, fsyncs, rewrite, rdb, bgsave, count>>

-----------------------------------------------------------------------------
(* flushAppendOnlyFile *)

\* Mutant: a flush waits as long as the fsync takes.
PostponesLong == policy = "everysec" /\ fsyncs # <<>>

\* With everysec a flush waits up to two seconds for the fsync of the last.
Postpones == policy = "everysec" /\ fsyncs # <<>> /\ aof.postponed < 3

Postponed ==
    [aof |-> [aof EXCEPT !.postponed = IF @ = 0 THEN 1 ELSE @],
     file |-> file, fsyncs |-> fsyncs]

\* All is written, and synced, or to be synced, as the policy says. Where a
\* closed descriptor's number leads to is not known.
FilesWritten ==
    LET all == [file EXCEPT !.data = @ \o aof.buf]
    IN IF aof.fd # "open" THEN {file}
       ELSE IF policy = "always" THEN Syncs(all) ELSE {all}

AllWritten(f) ==
    [aof |-> [aof EXCEPT !.buf = <<>>, !.size = @ + Len(aof.buf), !.ok = TRUE,
                         !.postponed = 0, !.due = @ /\ policy # "everysec"],
     file |-> f,
     fsyncs |-> IF policy = "everysec" /\ aof.due /\ fsyncs = <<>>
                THEN <<IF aof.fd = "open" THEN "current" ELSE "old">> ELSE fsyncs]

Written == {AllWritten(f) : f \in FilesWritten}

\* ftruncate. A file that is shorter, as it may be before the first rewrite of
\* an AOF that is switched on again, grows by zeros; they are left out.
CutOff(s, n) == SubSeq(s, 1, IF n < Len(s) THEN n ELSE Len(s))

\* The write fails, is cut off at the size the file had, or leaves k commands.
Failed(contents, k) ==
    [aof |-> [aof EXCEPT !.buf = SubSeq(@, k + 1, Len(@)), !.size = @ + k,
                         !.ok = FALSE, !.postponed = 0],
     file |-> [file EXCEPT !.data = contents,
                           !.synced = IF @ < Len(contents) THEN @ ELSE Len(contents)],
     fsyncs |-> fsyncs]

Failures ==
    LET k == 1..(Len(aof.buf) - 1)
        short(j) == file.data \o SubSeq(aof.buf, 1, j)
    IN {Failed(file.data, 0)} \cup
       CASE aof.fd = "none" -> {}
         [] aof.fd = "closed" -> {Failed(file.data, j) : j \in k}
         [] OTHER -> {Failed(CutOff(short(j), aof.size), 0) : j \in k}
                     \cup {Failed(short(j), j) : j \in k}

\* Mutant: the process goes on whatever the policy.
GivesUpNever == FALSE

\* With always, nothing else can be done about a write that fails: exit(1).
GivesUp == policy = "always"

Becomes(outcome) ==
    /\ aof' = outcome.aof
    /\ file' = outcome.file

Flush(force) ==
    \/ /\ aof.buf = <<>>
       /\ UNCHANGED <<process, append, bgsave, count>>
    \/ /\ aof.buf # <<>> /\ Postpones /\ ~force
       /\ Becomes(Postponed)
       /\ UNCHANGED <<process, fsyncs, rewrite, bgsave, count>>
    \/ /\ aof.buf # <<>> /\ aof.fd # "none" /\ ~(Postpones /\ ~force)
       /\ \E outcome \in Written : Becomes(outcome) /\ fsyncs' = outcome.fsyncs
       /\ UNCHANGED <<process, rewrite, bgsave, count>>
    \/ /\ aof.buf # <<>> /\ ~(Postpones /\ ~force)
       /\ IF aof.fd = "open" THEN Happens("fault") ELSE UNCHANGED count
       /\ \E outcome \in Failures : Becomes(outcome)
       /\ IF GivesUp THEN Ends("down")
          ELSE UNCHANGED <<process, fsyncs, rewrite, bgsave>>

\* beforeSleep: the flush ends the turn.
BeforeSleep ==
    /\ process = "up"
    /\ aof.buf # <<>> \/ executed # {}
    /\ Flush(FALSE)
    /\ executed' = IF process' = "up" THEN {} ELSE executed
    /\ UNCHANGED <<config, data, replies, acked, rdb, dirty, saved>>

\* serverCron: a postponed flush, or one that failed, is tried again.
CronFlush ==
    /\ process = "up"
    /\ aof.buf # <<>>
    /\ aof.postponed # 0 \/ ~aof.ok
    /\ Flush(FALSE)
    /\ UNCHANGED <<config, memory, rdb, dirty, saved>>

\* bioProcessBackgroundJobs, which does not look at the result. What was written
\* while it ran may be synced or not; what was renamed away does not matter.
Fsync ==
    /\ process = "up"
    /\ fsyncs # <<>>
    /\ fsyncs' = Tail(fsyncs)
    /\ \E n \in file.synced..Len(file.data) :
          file' = IF Head(fsyncs) = "current" /\ ~file.error
                  THEN [file EXCEPT !.synced = n] ELSE file
    /\ UNCHANGED <<process, config, memory, aof, rewrite, snapshot, count>>

\* A second passes.
Tick ==
    /\ process = "up"
    /\ aof' = [aof EXCEPT !.due = policy = "everysec",
                          !.postponed = IF @ \in {1, 2} THEN @ + 1 ELSE @]
    /\ aof' # aof
    /\ UNCHANGED <<process, config, memory, file, fsyncs, rewrite, snapshot, count>>

-----------------------------------------------------------------------------
(* Rewriting the append only file *)

\* rewriteAppendOnlyFileBackground
NewRewrite ==
    [phase |-> "writing", base |-> data, diff |-> <<>>, pipe |-> <<>>, buf |-> <<>>]

StartRewrite ==
    /\ rewrite = None
    /\ rewrite' = NewRewrite

\* BGREWRITEAOF, or the growth of the file, which serverCron looks at.
Bgrewriteaof ==
    /\ process = "up"
    /\ rewrite = None
    /\ Happens("rewrite")
    /\ IF bgsave # None
       THEN aof' = [aof EXCEPT !.scheduled = TRUE] /\ UNCHANGED rewrite
       ELSE aof' = [aof EXCEPT !.scheduled = FALSE] /\ StartRewrite
    /\ UNCHANGED <<process, config, memory, file, fsyncs, snapshot>>

\* serverCron
StartScheduled ==
    /\ process = "up"
    /\ aof.scheduled /\ bgsave = None
    /\ StartRewrite
    /\ aof' = [aof EXCEPT !.scheduled = FALSE]
    /\ UNCHANGED <<process, config, memory, file, fsyncs, snapshot, count>>

Child(phases) == process = "up" /\ rewrite # None /\ rewrite.phase \in phases

ChildStep(next) ==
    /\ rewrite' = next
    /\ UNCHANGED <<process, config, memory, aof, file, fsyncs, snapshot>>

\* aofChildWriteDiffData
SendDiff ==
    /\ Child({"writing", "asked"})
    /\ rewrite.buf # <<>>
    /\ ChildStep([rewrite EXCEPT !.pipe = @ \o rewrite.buf, !.buf = <<>>])
    /\ UNCHANGED count

\* aofReadDiffFromParent
ReadDiff ==
    /\ Child({"writing"})
    /\ rewrite.pipe # <<>>
    /\ ChildStep([rewrite EXCEPT !.diff = @ \o rewrite.pipe, !.pipe = <<>>])
    /\ UNCHANGED count

\* rewriteAppendOnlyFile: the child has written the data, and asks for no more.
AskToStop ==
    /\ Child({"writing"})
    /\ ChildStep([rewrite EXCEPT !.phase = "asked"])
    /\ UNCHANGED count

\* aofChildPipeReadable
StopSending ==
    /\ Child({"asked"})
    /\ ChildStep([rewrite EXCEPT !.phase = "stopped"])
    /\ UNCHANGED count

\* The last differences are read and written; the child exits with 0.
ChildEnds ==
    /\ Child({"stopped"})
    /\ ChildStep([rewrite EXCEPT !.phase = "ok", !.diff = @ \o rewrite.pipe,
                                 !.pipe = <<>>])
    /\ UNCHANGED count

\* The child cannot write, waits in vain for the answer, or is killed.
ChildFails ==
    /\ Child({"writing", "asked", "stopped"})
    /\ Happens("fault")
    /\ ChildStep([rewrite EXCEPT !.phase = "failed"])

\* backgroundRewriteDoneHandler: the rest of the differences is appended and
\* the file takes the place of the old one. It has what is in aof_buf.
RewriteDone ==
    /\ Child({"ok"})
    /\ LET written == rewrite.base \o rewrite.diff
           new == [data |-> written \o rewrite.buf, synced |-> Len(written),
                   error |-> FALSE]
           old == [i \in DOMAIN fsyncs |-> "old"]
       IN \/ /\ aof.fd = "none"
             /\ file' = new /\ fsyncs' = old
             /\ UNCHANGED aof
          \/ /\ aof.fd # "none"
             /\ file' \in IF policy = "always" THEN Syncs(new) ELSE {new}
             /\ fsyncs' = IF policy = "everysec" THEN Append(old, "current") ELSE old
             /\ aof' = [aof EXCEPT !.state = IF @ = "wait" THEN "on" ELSE @,
                                   !.fd = "open", !.buf = <<>>, !.size = Len(new.data)]
    /\ rewrite' = None
    /\ UNCHANGED <<process, config, memory, snapshot, count>>

\* Mutant: nobody tries again.
RewriteFailedOnce ==
    /\ Child({"failed"})
    /\ rewrite' = None
    /\ UNCHANGED <<process, config, memory, aof, file, fsyncs, snapshot, count>>

\* A failure, of the child or, in the same handler, of what follows it. When
\* the AOF waits to be switched on, the next rewrite is scheduled.
RewriteFailed ==
    /\ \/ Child({"failed"}) /\ UNCHANGED count
       \/ Child({"ok"}) /\ Happens("fault")
    /\ rewrite' = None
    /\ aof' = [aof EXCEPT !.scheduled = @ \/ aof.state = "wait"]
    /\ UNCHANGED <<process, config, memory, file, fsyncs, snapshot>>

\* CONFIG SET appendonly yes: startAppendOnly. A rewrite that is going on makes
\* it fail, a BGSAVE does not.
StartAppendOnly ==
    /\ process = "up"
    /\ aof.state = "off"
    /\ Happens("config")
    /\ StartRewrite
    /\ aof' = [aof EXCEPT !.state = "wait", !.fd = "open", !.due = FALSE,
                          !.scheduled = FALSE]
    /\ UNCHANGED <<process, config, memory, file, fsyncs, snapshot>>

\* The rewrite does not start, or the file does not open. In the build for
\* POSIX systems the number of the descriptor is kept when it is closed.
StartAppendOnlyFails ==
    /\ process = "up"
    /\ aof.state = "off"
    /\ Happens("config")
    /\ \E fd \in {"none", "closed"} : aof' = [aof EXCEPT !.fd = fd, !.due = FALSE]
    /\ UNCHANGED <<process, config, memory, file, fsyncs, rewrite, snapshot>>

\* CONFIG SET appendonly no: stopAppendOnly, with what is left if the flush
\* fails. The rewriting child is killed.
StopAppendOnly ==
    LET kept == [aof |-> aof, file |-> file, fsyncs |-> fsyncs]
        flushed == IF aof.buf = <<>> THEN {kept}
                   ELSE Written \cup (IF GivesUp THEN {} ELSE Failures)
    IN /\ process = "up"
       /\ aof.state # "off"
       /\ Happens("config")
       /\ \E outcome \in flushed :
             /\ aof' = [outcome.aof EXCEPT !.state = "off", !.fd = "none"]
             /\ file' \in Syncs(outcome.file)
             /\ fsyncs' = [i \in DOMAIN outcome.fsyncs |-> "old"]
       /\ rewrite' = None
       /\ UNCHANGED <<process, config, memory, snapshot>>

\* The same, when the flush makes the process exit.
StopAppendOnlyExits ==
    /\ process = "up"
    /\ aof.state # "off" /\ aof.buf # <<>> /\ GivesUp
    /\ Happens("config")
    /\ \E outcome \in Failures : Becomes(outcome)
    /\ Ends("down")
    /\ UNCHANGED <<config, memory, rdb, dirty, saved>>

-----------------------------------------------------------------------------
(* The RDB file *)

\* rdbSaveBackground, for BGSAVE or a save point. It may be unable to fork.
StartBgsave ==
    /\ process = "up"
    /\ bgsave = None /\ rewrite = None
    /\ Happens("bgsave")
    /\ \/ /\ bgsave' = [data |-> data, before |-> dirty, phase |-> "writing"]
          /\ UNCHANGED saved
       \/ /\ saved' = FALSE
          /\ UNCHANGED bgsave
    /\ UNCHANGED <<process, config, memory, append, rdb, dirty>>

\* Mutant: SAVE does not look for a BGSAVE.
SaveAnytime ==
    /\ process = "up"
    /\ Happens("bgsave")
    /\ rdb' = data /\ dirty' = 0 /\ saved' = TRUE
    /\ UNCHANGED <<process, config, memory, append, bgsave>>

\* SAVE: rdbSave
Save ==
    /\ process = "up"
    /\ bgsave = None
    /\ Happens("bgsave")
    /\ rdb' = data /\ dirty' = 0 /\ saved' = TRUE
    /\ UNCHANGED <<process, config, memory, append, bgsave>>

\* rdbSave in the child: the file is renamed when all of it is on the disk.
BgsaveEnds ==
    /\ process = "up"
    /\ bgsave # None /\ bgsave.phase = "writing"
    /\ \/ /\ rdb' = bgsave.data
          /\ bgsave' = [bgsave EXCEPT !.phase = "ok"]
          /\ UNCHANGED count
       \/ /\ Happens("fault")
          /\ bgsave' = [bgsave EXCEPT !.phase = "failed"]
          /\ UNCHANGED rdb
    /\ UNCHANGED <<process, config, memory, append, dirty, saved>>

\* Mutant: what was written during the BGSAVE counts as saved.
BgsaveDoneClean ==
    /\ process = "up"
    /\ bgsave # None /\ bgsave.phase # "writing"
    /\ saved' = IF bgsave.phase = "killed" THEN saved ELSE bgsave.phase = "ok"
    /\ dirty' = IF bgsave.phase = "ok" THEN 0 ELSE dirty
    /\ bgsave' = None
    /\ UNCHANGED <<process, config, memory, append, rdb, count>>

\* backgroundSaveDoneHandlerDisk
BgsaveDone ==
    /\ process = "up"
    /\ bgsave # None /\ bgsave.phase # "writing"
    /\ saved' = IF bgsave.phase = "killed" THEN saved ELSE bgsave.phase = "ok"
    /\ dirty' = IF bgsave.phase = "ok" THEN dirty - bgsave.before ELSE dirty
    /\ bgsave' = None
    /\ UNCHANGED <<process, config, memory, append, rdb, count>>

-----------------------------------------------------------------------------

Init ==
    /\ process = "up"
    /\ policy \in Policies
    /\ conf \in {"off", "on"}
    /\ data = <<>> /\ executed = {} /\ replies = {} /\ acked = {}
    /\ aof = [state |-> conf, buf |-> <<>>, size |-> 0, ok |-> TRUE,
              postponed |-> 0, due |-> FALSE, scheduled |-> FALSE,
              fd |-> IF conf = "on" THEN "open" ELSE "none"]
    /\ file = [data |-> <<>>, synced |-> 0, error |-> FALSE]
    /\ fsyncs = <<>>
    /\ rewrite = None
    /\ rdb = <<>> /\ dirty = 0 /\ saved = TRUE /\ bgsave = None
    /\ count = [e \in Events |-> 0]

Rewriting ==
    \/ SendDiff \/ ReadDiff \/ AskToStop \/ StopSending \/ ChildEnds
    \/ ChildFails \/ RewriteDone \/ RewriteFailed

Saving == StartBgsave \/ Save \/ BgsaveEnds \/ BgsaveDone

Next ==
    \/ Write \/ Reply \/ BeforeSleep \/ CronFlush \/ Fsync \/ Tick
    \/ Bgrewriteaof \/ StartScheduled \/ Rewriting \/ Saving
    \/ StartAppendOnly \/ StartAppendOnlyFails
    \/ StopAppendOnly \/ StopAppendOnlyExits
    \/ Killed \/ PowerFails \/ Shutdown \/ ShutdownFails \/ Restart

Spec == Init /\ [][Next]_vars

\* The event loop, the children and the clock go on; an fsync may take for ever.
Fairness ==
    /\ WF_vars(BeforeSleep) /\ WF_vars(CronFlush) /\ WF_vars(StartScheduled)
    /\ WF_vars(Tick)
    /\ WF_vars(AskToStop) /\ WF_vars(StopSending) /\ WF_vars(ChildEnds)
    /\ WF_vars(RewriteDone) /\ WF_vars(RewriteFailed)
    /\ WF_vars(BgsaveEnds) /\ WF_vars(BgsaveDone)

FairSpec == Spec /\ Fairness

-----------------------------------------------------------------------------
(* Properties *)

TypeOK ==
    /\ process \in {"up", "down", "shutdown"}
    /\ policy \in Policies /\ conf \in {"off", "on"}
    /\ data \in Data
    /\ {executed, replies, acked} \subseteq SUBSET Nat
    /\ aof \in Aof
    /\ file.data \in Data /\ file.synced \in 0..Len(file.data)
    /\ file.error \in BOOLEAN
    /\ fsyncs \in Seq({"current", "old"})
    /\ rewrite \in Rewrite \cup {None}
    /\ rdb \in Data /\ dirty \in Nat /\ saved \in BOOLEAN
    /\ bgsave \in Bgsave \cup {None}
    /\ count \in [Events -> Nat]

\* Every write is once in the file or the buffer, and once in the file that a
\* child writes, its pipe or the buffer of differences: over writes at any
\* moment of a rewrite, short writes, and the switch from one file to the other.
AofComplete ==
    process = "up" =>
       /\ aof.state = "on" => file.data \o aof.buf = data
       /\ rewrite # None =>
             rewrite.base \o rewrite.diff \o rewrite.pipe \o rewrite.buf = data

\* With appendfsync always, what was acknowledged is on the disk when the turn
\* of the event loop is over that executed it, unless a sync has failed.
AckedSynced ==
    policy = "always" /\ aof.state = "on" /\ ~file.error =>
       acked \ executed \subseteq Range(SubSeq(file.data, 1, file.synced))

\* No save point misses a write: when no change is counted, the RDB file has
\* the data set.
DirtyCounts ==
    process = "up" /\ dirty = 0 /\ (bgsave = None \/ bgsave.phase = "writing") =>
       rdb = data \/ data = <<>>

\* A buffer is written in the end, however often that was postponed or failed,
\* and although an fsync of earlier writes may hang.
BufferDrains ==
    process = "up" /\ aof.state = "on" /\ aof.buf # <<>>
       ~> process # "up" \/ aof.state # "on" \/ aof.buf = <<>>

\* CONFIG SET appendonly yes takes effect, though rewrites fail.
AofSwitchesOn ==
    process = "up" /\ aof.state = "wait" ~> process # "up" \/ aof.state # "wait"

\* redis.c:2406: at a shutdown "the AOF we already have ... contains the full
\* dataset anyway", so at the least every write that was answered; with always
\* (aof.c:391) "on acknowledged write data is synced on disk".
ShutdownKeepsAcked ==
    process = "shutdown" /\ aof.state = "on" => acked \subseteq Range(file.data)
=============================================================================
