----------------------------- MODULE FileStore -----------------------------
(***************************************************************************)
(* configlog.FileStore: the durable configuration log of one daemon.       *)
(*                                                                         *)
(* Every mutation holds store.mu, so mutations never overlap; what can     *)
(* happen between two of their system calls is that a call fails, that the *)
(* process dies or that the machine loses power.  writeFileAtomic is four  *)
(* steps (write the temporary file, fsync it, rename it over the target,   *)
(* fsync the directory), each of which may fail.  Simplifications: a       *)
(* missing and an empty file are the same empty log (the code treats them  *)
(* alike); temporary files left by a crash are never read; a backup that   *)
(* pruning removed does not come back after a power loss.                  *)
(***************************************************************************)
EXTENDS EventChain, FiniteSets

CONSTANTS
    Batches,    \* the event sequences callers pass to AppendBatch, ReplaceAll
    Keep,       \* BackupKeepFromEnv: backups to keep, 0 for all of them
    MaxLen,     \* bound: longest log
    MaxBackups, \* bound: most backup files; also the distinct times of one
    Torn,       \* the content of a file whose data never reached the disk
    Nothing     \* no log

ASSUME StoreAssumption ==
    /\ Batches \subseteq Seq(Event)
    /\ Keep \in Nat /\ MaxLen \in Nat /\ MaxBackups \in Nat
    /\ Torn \notin Seq(Event) /\ Nothing \notin Seq(Event)

VARIABLES
    up,         \* the process runs
    memory,     \* store.memory
    file,       \* what the log path holds, as the running system sees it
    disk,       \* what the log path may hold after a power loss
    backups,    \* backup files [at, data, durable], at being the mtime
    pc,         \* where the mutation in progress stands
    op,         \* what it is writing where, and whether the data is fsynced
    res,        \* result of the last mutation
    acked       \* history: the last log whose write returned without an error

vars == <<up, memory, file, disk, backups, pc, op, res, acked>>
diskVars == <<file, disk, backups>>

NoOp == [kind |-> "none", next |-> <<>>, old |-> <<>>, target |-> "log",
         synced |-> FALSE, backup |-> 0]
Writing(kind, next, target) ==
    [kind |-> kind, next |-> next, old |-> file, target |-> target, synced |-> FALSE, backup |-> 0]

Init ==
    /\ up = TRUE
    /\ memory = <<>> /\ file = <<>> /\ disk = {<<>>}
    /\ backups = {}
    /\ pc = "idle" /\ op = NoOp /\ res = "none"
    /\ acked = Nothing

Return(r) == /\ pc' = "idle" /\ op' = NoOp /\ res' = r

\* Mutations start with the lock free; a refused one returns at once.
Begin(accepted, first) ==
    /\ up /\ pc = "idle"
    /\ IF accepted THEN pc' = "write" /\ op' = first /\ res' = "none"
                   ELSE Return("conflict")
    /\ UNCHANGED <<up, memory, diskVars, acked>>

\* FileStore.AppendBatch up to writeFileAtomic: a batch that does not chain
\* is refused before anything is written.
AppendBatch(events) ==
    /\ events # <<>> /\ Len(memory) + Len(events) <= MaxLen
    /\ Begin(CanAppend(memory, events),
             Writing("append", memory \o events, "log"))

\* FileStore.ReplaceAll up to its first write, which is the backup unless the
\* log is empty or missing.
ReplaceAll(events) ==
    /\ Len(events) <= MaxLen
    /\ Cardinality(backups) < MaxBackups
    /\ Begin(IsChain(events),
             Writing("replace", events, IF file = <<>> THEN "log" ELSE "backup"))

\* Mutant: the temporary file is renamed without having been fsynced.
WriteTempUnsynced ==
    /\ up /\ pc = "write"
    /\ pc' = "rename" /\ op' = [op EXCEPT !.synced = FALSE]
    /\ UNCHANGED <<up, memory, diskVars, res, acked>>

\* writeFileAtomic: MkdirAll, CreateTemp, Write, Chmod.
WriteTemp ==
    /\ up /\ pc = "write"
    /\ pc' = "sync" /\ op' = [op EXCEPT !.synced = FALSE]
    /\ UNCHANGED <<up, memory, diskVars, res, acked>>

\* writeFileAtomic: Sync, Close.
SyncTemp ==
    /\ up /\ pc = "sync"
    /\ pc' = "rename" /\ op' = [op EXCEPT !.synced = TRUE]
    /\ UNCHANGED <<up, memory, diskVars, res, acked>>

\* writeFileAtomic: Rename, the commit point of either target.  A backup gets
\* the current time, and clocks step back: any time not yet taken.
Rename ==
    /\ up /\ pc = "rename"
    /\ pc' = "syncdir"
    /\ IF op.target = "log"
         THEN /\ file' = op.next
              /\ disk' = disk \union {IF op.synced THEN op.next ELSE Torn}
              /\ acked' = IF op.kind = "replace" THEN Nothing ELSE acked
              /\ UNCHANGED <<backups, op>>
         ELSE /\ \E now \in 1 .. MaxBackups \ {b.at : b \in backups} :
                    /\ backups' = backups \union {[at |-> now, data |-> file, durable |-> FALSE]}
                    /\ op' = [op EXCEPT !.backup = now]
              /\ UNCHANGED <<file, disk, acked>>
    /\ UNCHANGED <<up, memory, res>>

\* pruneBackups: how many files exceed the limit, and the files left once the
\* n oldest are removed, the backup just made being passed over.
Excess == IF Keep = 0 \/ Cardinality(backups) <= Keep THEN 0 ELSE Cardinality(backups) - Keep
\* Mutant: the newest backup is not protected from a clock that stepped back.
WithoutUnprotected(n) ==
    backups \ {b \in backups : Cardinality({c \in backups : c.at < b.at}) < n}

Without(n) ==
    LET removable == {b \in backups : b.at # op.backup}
    IN  backups \ {b \in removable : Cardinality({c \in removable : c.at < b.at}) < n}

AllDurable(bs) == {[b EXCEPT !.durable = TRUE] : b \in bs}

\* Mutant: a write is acknowledged without an fsync of the directory.
SyncDirSkipped ==
    /\ up /\ pc = "syncdir"
    /\ IF op.target = "log"
         THEN /\ memory' = op.next /\ acked' = op.next
              /\ Return("ok")
         ELSE /\ pc' = "write" /\ op' = [op EXCEPT !.target = "log"]
              /\ UNCHANGED <<memory, acked, res>>
    /\ UNCHANGED <<up, diskVars>>

\* writeFileAtomic: syncDirectory succeeds.  For the log that is the end of
\* the mutation; for a backup, pruning follows and then the log's own write.
SyncDir ==
    /\ up /\ pc = "syncdir"
    /\ disk' = {file}
    /\ IF op.target = "log"
         THEN /\ memory' = op.next
              /\ backups' = AllDurable(backups)
              /\ acked' = op.next
              /\ Return("ok")
         ELSE /\ backups' = AllDurable(Without(Excess))
              /\ pc' = "write" /\ op' = [op EXCEPT !.target = "log"]
              /\ UNCHANGED <<memory, acked, res>>
    /\ UNCHANGED <<up, file>>

\* Mutant: the backup's CommitError is wrapped with %w as well.
SyncDirErrorWrapped(target) == "committed"
\* Mutant: the error of a committed write is dropped on the way up.
SyncDirErrorLost(target) == IF target = "log" THEN "nil" ELSE "failed"

\* What CommitSucceeded makes of a failed syncDirectory: AppendBatch and
\* ReplaceAll wrap the log's CommitError with %w, BackupFile formats the
\* backup's with %v, which hides it.
SyncDirError(target) == IF target = "log" THEN "committed" ELSE "failed"

\* Mutant: the in-memory log is only replaced when no error is returned.
SyncDirFailsMemoryKept ==
    /\ up /\ pc = "syncdir"
    /\ Return(SyncDirError(op.target))
    /\ UNCHANGED <<up, memory, diskVars, acked>>

\* writeFileAtomic: syncDirectory fails.  The file was replaced all the same.
SyncDirFails ==
    /\ up /\ pc = "syncdir"
    /\ memory' = IF op.target = "log" THEN op.next ELSE memory
    /\ Return(SyncDirError(op.target))
    /\ UNCHANGED <<up, diskVars, acked>>

\* A call before the rename, or the rename, fails: the temporary file is
\* removed and nothing was committed.
WriteFails ==
    /\ up /\ pc \in {"write", "sync", "rename"}
    /\ Return("failed")
    /\ UNCHANGED <<up, memory, diskVars, acked>>

\* pruneBackups fails after removing only some of the oldest backups.
PruneFails ==
    /\ up /\ pc = "syncdir" /\ op.target = "backup"
    /\ disk' = {file}
    /\ \E n \in 0 .. Excess - 1 : backups' = AllDurable(Without(n))
    /\ Return("failed")
    /\ UNCHANGED <<up, memory, file, acked>>

Down == /\ up' = FALSE /\ memory' = <<>> /\ pc' = "idle" /\ op' = NoOp /\ res' = "none"

\* The process dies; the files stay as the system sees them.
Kill ==
    /\ up
    /\ Down
    /\ UNCHANGED <<diskVars, acked>>

\* Power loss: the directory keeps every name that was synced and any of the
\* others, and the log path holds a content not yet superseded on disk.
PowerLoss ==
    /\ Down
    /\ \E content \in disk : file' = content /\ disk' = {content}
    /\ \E lost \in SUBSET {b \in backups : ~b.durable} :
          backups' = AllDurable(backups \ lost)
    /\ UNCHANGED acked

\* FileStore.load decodes the file and appends event by event.
Loadable(content) == content # Torn /\ IsChain(content)

\* NewFileStore.
Restart ==
    /\ ~up
    /\ Loadable(file)
    /\ up' = TRUE /\ memory' = file
    /\ UNCHANGED <<diskVars, pc, op, res, acked>>

Next ==
    \/ \E events \in Batches : AppendBatch(events) \/ ReplaceAll(events)
    \/ WriteTemp \/ SyncTemp \/ Rename \/ SyncDir
    \/ WriteFails \/ SyncDirFails \/ PruneFails
    \/ Kill \/ PowerLoss \/ Restart

Spec == Init /\ [][Next]_vars

-----------------------------------------------------------------------------
Content == Seq(Event) \union {Torn}
BackupRec == [at : 1 .. MaxBackups, data : Content, durable : BOOLEAN]
OpRec == [kind : {"none", "append", "replace"}, next : Seq(Event), old : Content,
          target : {"log", "backup"}, synced : BOOLEAN, backup : 0 .. MaxBackups]

\* Every variable of the store holds a value of its kind; in particular a
\* mutation ends in one of the results its callers distinguish.
TypeOK ==
    /\ up \in BOOLEAN
    /\ memory \in Seq(Event)
    /\ file \in Content
    /\ disk \in SUBSET Content
    /\ backups \in SUBSET BackupRec
    /\ pc \in {"idle", "write", "sync", "rename", "syncdir"}
    /\ op \in OpRec
    /\ res \in {"none", "ok", "conflict", "failed", "committed"}
    /\ acked \in Seq(Event) \union {Nothing}

\* Between mutations the in-memory log that Head and Range serve is what the
\* log path holds, whichever system call of earlier mutations failed.
MemoryMatchesFile == up /\ pc = "idle" => memory = file

\* A log whose write was acknowledged stays a prefix of the file, through
\* later failed mutations, kills and power losses, until a ReplaceAll commits.
AckedSurvives == acked # Nothing => file # Torn /\ IsPrefixOf(acked, file)

\* Whatever a crash leaves at the log path, NewFileStore can load: a power
\* loss at any step leaves a complete, chained log.
AlwaysLoadable == \A content \in disk \union {file} : Loadable(content)

\* A caller that asks CommitSucceeded learns the truth: a mutation returns
\* nil or a CommitError only if the log holds what it was asked to write, and
\* any other error only if the log is what it was before.
ResultTellsCommit ==
    [][up /\ up' /\ pc # "idle" /\ pc' = "idle" =>
          file' = IF res' \in {"ok", "committed"} THEN op.next ELSE op.old]_vars

\* ReplaceAll overwrites a log only when a copy of it is on disk under a backup
\* name that survives a power loss, whatever the clock said when it was made
\* and however many older backups were pruned.
ReplacedIsBackedUp ==
    [][up /\ up' /\ op.kind = "replace" /\ file' # file /\ file # <<>> =>
          \E b \in backups' : b.data = file /\ b.durable]_vars
=============================================================================
