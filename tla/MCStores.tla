------------------------------ MODULE MCStores ------------------------------
(***************************************************************************)
(* FileStore on four events: a genesis g, the chain g.a.b, and c, a fork   *)
(* after g.  Batches has the batches that chain somewhere, one that leaves *)
(* a gap and the full logs a ReplaceAll installs.  An event is its own     *)
(* hash, so the hash is injective.                                         *)
(*                                                                         *)
(* And RestoreFiles on a configuration file, a certificate that the first  *)
(* archive leaves as it is, and a key that does not exist yet.             *)
(*                                                                         *)
(* And Membership for one remote IX, whose second advertisement changes    *)
(* its session surface ("races"); and, with only the poller and the        *)
(* operator at work, for one whose steps fail and whose daemon restarts    *)
(* ("faults"), and for two, one of them a configured peer ("two").         *)
(*                                                                         *)
(* A behaviour is one of part's component; the others stay in their        *)
(* initial states.                                                         *)
(***************************************************************************)
EXTENDS FileStore, TLC

CONSTANTS x, y

VARIABLES
    part,
    target, copies, log, restore, incomplete, restoreFaults, restoreCrashes,
    admitted, revoked, event, past, issued, members, parked, membersFile, parkedFile, routes, open, todo,
    reconcile, changes, faults, crashes, missed, racing

restoreVars == <<target, copies, log, restore, incomplete, restoreFaults, restoreCrashes>>
memberVars == <<admitted, revoked, event, past, issued, members, parked, membersFile, parkedFile, routes,
                open, todo, reconcile, changes, faults, crashes, missed, racing>>

Ev(n, p, name) == [seq |-> n, prev |-> p, name |-> name]
MCHash(e) == e
MCNoHash == [seq |-> 0]
g == Ev(1, MCNoHash, "g")
a == Ev(2, g, "a")
b2 == Ev(3, a, "b")
c == Ev(2, g, "c")
MCEvent == {g, a, b2, c}
MCBatches == {<<g>>, <<a>>, <<b2>>, <<c>>, <<a, b2>>, <<g, a>>, <<g, c>>, <<g, b2>>}

Restore == INSTANCE RestoreFiles WITH
    file <- target, backups <- copies, faults <- restoreFaults, crashes <- restoreCrashes,
    Files <- {"config", "cert", "key"},
    Before <- ("config" :> "c0" @@ "cert" :> "x0" @@ "key" :> "none"),
    Restores <- {"r1", "r2"},
    Archive <- ("r1" :> ("config" :> "c1" @@ "cert" :> "x0" @@ "key" :> "k1")
             @@ "r2" :> ("config" :> "c2" @@ "cert" :> "x2" @@ "key" :> "k1")),
    Serial <- TRUE, MaxFaults <- 4, MaxCrashes <- 2

SurfaceOf(ixs, last) == [i \in ixs |-> [v \in 1 .. last |-> IF i = x THEN v ELSE 0]]

Races == INSTANCE Membership WITH
    file <- membersFile, IX <- {x}, StaticPeer <- {}, Poller <- "poll", Handlers <- {"post"}, Config <- "config",
    MaxVersion <- 2, Surface <- SurfaceOf({x}, 2), MaxChanges <- 1, MaxFaults <- 0, MaxCrashes <- 0

Faults == INSTANCE Membership WITH
    file <- membersFile, IX <- {x}, StaticPeer <- {}, Poller <- "poll", Handlers <- {"post"}, Config <- "config",
    MaxVersion <- 1, Surface <- SurfaceOf({x}, 1), MaxChanges <- 1, MaxFaults <- 1, MaxCrashes <- 1

Two == INSTANCE Membership WITH
    file <- membersFile, IX <- {x, y}, StaticPeer <- {y}, Poller <- "poll", Handlers <- {"post"}, Config <- "config",
    MaxVersion <- 1, Surface <- SurfaceOf({x, y}, 1), MaxChanges <- 1, MaxFaults <- 0, MaxCrashes <- 0

MCInit ==
    /\ Init /\ Restore!Init
    /\ \/ part \in {"races", "faults"} /\ Races!Init
       \/ part \in {"store", "restore"} /\ Races!Init /\ admitted = {}
       \/ part = "two" /\ Two!Init

MCNext ==
    /\ UNCHANGED part
    /\ \/ part = "store" /\ Next /\ UNCHANGED <<restoreVars, memberVars>>
       \/ part = "restore" /\ Restore!Next /\ UNCHANGED <<vars, memberVars>>
       \/ /\ UNCHANGED <<vars, restoreVars>>
          /\ \/ part = "races" /\ Races!Next
             \/ part = "faults" /\ Faults!Next /\ todo'["post"] = <<>>
             \/ part = "two" /\ Two!Next /\ todo'["post"] = <<>>

MCSpec == MCInit /\ [][MCNext]_<<part, vars, restoreVars, memberVars>>

-----------------------------------------------------------------------------
\* With no restore under way, no failed undo reported and no crash, the files
\* are those of the log in force, whichever file operations, syncs and log
\* replacements failed (restoreConfigArchive and its two rollbacks).  And what a
\* file held at first is never lost: it is in place or in a backup, through
\* failed and committed restores and crashes (writeConfigRestoreFile).
RestoreSafe == (restoreCrashes = 0 => Restore!Transactional) /\ Restore!NothingLost

\* When the daemon is quiet, the member files hold what memory holds, whatever
\* merges, prunings and deletions raced to write them and whichever of the
\* writes failed; the dataplane has the routes of the members that are there
\* (a snapshot that failed in pollPeers is the one failure nobody repairs); and
\* as long as no step failed, the sessions of every advertisement that was
\* replaced by one with another surface, expired or was pruned are closed,
\* except those of a configured peer (persistMembers, closeUntrustedDataSessions).
QuietAgrees ==
    /\ Races!SavedWhenQuiet /\ Races!RoutedWhenQuiet
    /\ IF part = "two" THEN Two!ClosedWhenQuiet ELSE Races!ClosedWhenQuiet

\* A quiet daemon has no member that lost its admission or was revoked, whatever
\* merges, failed steps, reconcile passes and restarts came between the change
\* and the pruning; only a merge verified before the change and stored after it
\* leaves one, and revocations are those of the log, which a restart may replace
\* by older ones (pruneUnadmittedMembersLocked, pruneRevokedMembers,
\* loadPersistedMembers).
MembersPruned == IF part = "two" THEN Two!PruningComplete ELSE Races!PruningComplete
=============================================================================
