---------------------------- MODULE RestoreFiles ----------------------------
(***************************************************************************)
(* Restoring an archive: the configured files are replaced one by one,     *)
(* each moved to a backup and a new one renamed into place; then the log   *)
(* is replaced and the runtime switched.  What fails is undone in reverse  *)
(* order.  The file phase takes no lock, so two requests may interleave,   *)
(* and the daemon may stop between any two steps.                          *)
(***************************************************************************)
EXTENDS Naturals, Sequences, SequencesExt

CONSTANTS
    Files,       \* configured target paths
    Before,      \* what each file holds at first, or "none"
    Restores,    \* restore requests
    Archive,     \* restore -> file -> what the archive holds for it
    Serial,      \* the operator sends one restore at a time
    MaxFaults,   \* bound: file operations and log replacements that fail
    MaxCrashes   \* bound: crashes

VARIABLES
    file,        \* what each target holds
    backups,     \* [file, by, holds]: the backup files
    log,         \* "old" or the restore whose events the log holds
    restore,     \* [at, todo, changes] of each request
    incomplete,  \* an undo failed and was reported
    faults, crashes

vars == <<file, backups, log, restore, incomplete, faults, crashes>>

Init ==
    /\ file = Before /\ backups = {} /\ log = "old" /\ incomplete = FALSE
    /\ restore = [r \in Restores |-> [at |-> "new", todo |-> <<>>, changes |-> <<>>]]
    /\ faults = 0 /\ crashes = 0

Fault == faults < MaxFaults /\ faults' = faults + 1

Goes(r, at) == restore' = [restore EXCEPT ![r].at = at]

\* The archive is parsed and its files validated.
Begin(r) ==
    /\ restore[r].at = "new"
    /\ Serial => \A s \in Restores : restore[s].at \in {"new", "done"}
    /\ restore' = [restore EXCEPT ![r] =
         [at |-> "stat", todo |-> SetToSeq(DOMAIN Archive[r]), changes |-> <<>>]]
    /\ UNCHANGED <<file, backups, log, incomplete, faults, crashes>>

Current(r) == Head(restore[r].todo)

\* Stat, compare and write the temporary file; a fault up to here changes nothing.
Stat(r) ==
    /\ restore[r].at = "stat"
    /\ \/ /\ restore[r].todo = <<>> /\ Goes(r, "commit") /\ faults' = faults
       \/ /\ restore[r].todo # <<>> /\ file[Current(r)] = Archive[r][Current(r)]
          /\ restore' = [restore EXCEPT ![r].todo = Tail(@)] /\ faults' = faults
       \/ /\ restore[r].todo # <<>> /\ file[Current(r)] # Archive[r][Current(r)]
          /\ Goes(r, IF file[Current(r)] = "none" THEN "create" ELSE "backup") /\ faults' = faults
       \/ restore[r].todo # <<>> /\ Goes(r, "undo") /\ Fault
    /\ UNCHANGED <<file, backups, log, incomplete, crashes>>

\* Mutant: one backup name per file.
BackedUpOver(r, f) == {b \in backups : b.file # f} \union {[file |-> f, by |-> r, holds |-> file[f]]}

\* uniqueRestoreBackupPath: no backup is overwritten.
BackedUp(r, f) == backups \union {[file |-> f, by |-> r, holds |-> file[f]]}

\* The target is renamed to the backup; it may be gone by now.
Backup(r) ==
    /\ restore[r].at = "backup"
    /\ \/ /\ file[Current(r)] # "none"
          /\ backups' = BackedUp(r, Current(r)) /\ file' = [file EXCEPT ![Current(r)] = "none"]
          /\ Goes(r, "install") /\ faults' = faults
       \/ Goes(r, "undo") /\ UNCHANGED <<file, backups>>
          /\ IF file[Current(r)] = "none" THEN faults' = faults ELSE Fault
    /\ UNCHANGED <<log, incomplete, crashes>>

Own(r, f) == CHOOSE b \in backups : b.file = f /\ b.by = r

\* Mutant: a change is recorded only when no error came with it.
ChangesAfterErrorCheck(r, created, failed) ==
    IF failed THEN restore[r].changes
    ELSE Append(restore[r].changes, [file |-> Current(r), created |-> created])

\* restoreConfigArchiveFiles records a change before it looks at the error.
Changes(r, created, failed) ==
    Append(restore[r].changes, [file |-> Current(r), created |-> created])

\* The temporary file is renamed to the target and the directory synced.
Install(r) ==
    LET f == Current(r)
        created == restore[r].at = "create" IN
    /\ restore[r].at \in {"create", "install"}
    /\ \/ \* installed, synced or not
          \E failed \in BOOLEAN :
            /\ IF failed THEN Fault ELSE faults' = faults
            /\ file' = [file EXCEPT ![f] = Archive[r][f]] /\ backups' = backups
            /\ restore' = [restore EXCEPT ![r] =
                 [at |-> IF failed THEN "undo" ELSE "stat", todo |-> Tail(@.todo),
                  changes |-> Changes(r, created, failed)]]
       \/ \* not installed; the backup, if there is one, is put back
          /\ Fault /\ Goes(r, "undo")
          /\ IF created THEN UNCHANGED <<file, backups>>
             ELSE file' = [file EXCEPT ![f] = Own(r, f).holds] /\ backups' = backups \ {Own(r, f)}
       \/ \* nor put back
          /\ ~created /\ faults + 1 < MaxFaults /\ faults' = faults + 2
          /\ UNCHANGED <<file, backups>>
          /\ restore' = [restore EXCEPT ![r].at = "undo", ![r].changes = Changes(r, created, TRUE)]
    /\ UNCHANGED <<log, incomplete, crashes>>

\* restoreConfigSnapshotFromArchive, under the lock: the log is replaced, or
\* everything but the files is back as it was.
Commit(r) ==
    /\ restore[r].at = "commit"
    /\ \/ log' = r /\ Goes(r, "done") /\ faults' = faults
       \/ log' = log /\ Goes(r, "undo") /\ Fault
    /\ UNCHANGED <<file, backups, incomplete, crashes>>

\* One change of rollbackConfigRestoreFiles, the last first.
Undo(r) ==
    LET change == Last(restore[r].changes)
        f == change.file IN
    /\ restore[r].at = "undo" /\ restore[r].changes # <<>>
    /\ restore' = [restore EXCEPT ![r].changes = Front(@)]
    /\ \/ /\ IF change.created
             THEN file' = [file EXCEPT ![f] = "none"] /\ backups' = backups
             ELSE file' = [file EXCEPT ![f] = Own(r, f).holds] /\ backups' = backups \ {Own(r, f)}
          /\ UNCHANGED <<incomplete, faults>>
       \/ \* the target is not removed, or the backup not put back
          /\ Fault /\ incomplete' = TRUE /\ backups' = backups
          /\ file' \in IF change.created THEN {file} ELSE {file, [file EXCEPT ![f] = "none"]}
    /\ UNCHANGED <<log, crashes>>

\* The error is answered.
Undone(r) ==
    /\ restore[r].at = "undo" /\ restore[r].changes = <<>> /\ Goes(r, "done")
    /\ UNCHANGED <<file, backups, log, incomplete, faults, crashes>>

\* The daemon stops: the requests under way are gone.
Crash ==
    /\ crashes < MaxCrashes /\ crashes' = crashes + 1
    /\ restore' = [r \in Restores |-> IF restore[r].at = "new" THEN restore[r]
                     ELSE [at |-> "done", todo |-> <<>>, changes |-> <<>>]]
    /\ UNCHANGED <<file, backups, log, incomplete, faults>>

Next ==
    \/ \E r \in Restores :
         Begin(r) \/ Stat(r) \/ Backup(r) \/ Install(r) \/ Commit(r) \/ Undo(r) \/ Undone(r)
    \/ Crash

Spec == Init /\ [][Next]_vars

-----------------------------------------------------------------------------

Quiet == \A r \in Restores : restore[r].at \in {"new", "done"}

\* With no restore under way and no failed undo reported, the files are those
\* of the log in force (restoreConfigArchive and its two rollbacks).
Transactional ==
    Quiet /\ ~incomplete =>
        IF log = "old" THEN file = Before
        ELSE \A f \in DOMAIN Archive[log] : file[f] = Archive[log][f]

\* What a file held at first is never lost: it is in place or in a backup,
\* through failed and committed restores and crashes (writeConfigRestoreFile).
NothingLost ==
    \A f \in Files : Before[f] # "none" =>
        file[f] = Before[f] \/ \E b \in backups : b.file = f /\ b.holds = Before[f]

=============================================================================
