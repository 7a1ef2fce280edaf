----------------------------- MODULE ConfigSync -----------------------------
(***************************************************************************)
(* Anti-entropy of the signed configuration log between the IXs of a       *)
(* domain: internal/daemon/config_sync.go, the sync half of peer.go and    *)
(* the preflight that every local mutation makes.                          *)
(*                                                                         *)
(* An IX runs two kinds of worker: the poller, which syncs with one peer   *)
(* after another for ever, and API requests, which sync with every peer    *)
(* (preflight) and then append, or replace the log by a peer's (rejoin).   *)
(* A sync reads the peer's head, then its own, and then either pulls or    *)
(* pushes; configMu is held only while a log is read or written, never     *)
(* across two of those steps, so everything interleaves between them.      *)
(*                                                                         *)
(* The store is the abstraction FileStore implements: a commit replaces    *)
(* the log at once, and unless the directory fsync succeeded a power loss  *)
(* may bring an earlier log back.  A restart loads a log and forgets the   *)
(* workers; a peer that is down is a peer whose requests fail.  daemon.head*)
(* is the head of the store.  Signature and trust verification may refuse  *)
(* any batch, which is one more way for an append to fail.                 *)
(***************************************************************************)
EXTENDS EventChain, FiniteSets

CONSTANTS
    IX,           \* the exchanges of the domain
    Genesis,      \* the deterministic first event every IX writes
    Batches,      \* the batches a local mutation may plan
    NoIX,         \* no peer
    Poller,       \* the peer poller of an IX
    Requests,     \* the API requests an IX may be serving at a time
    MaxLen,       \* bound: longest log
    MaxLate,      \* bound: pushes on the wire after their sender gave up
    MaxUnsure,    \* bound: commits whose directory fsync fails
    MaxRejoins,   \* bound: rejoins
    MaxCrashes    \* bound: restarts

ASSUME SyncAssumption ==
    /\ Genesis \in Event /\ IsChain(<<Genesis>>)
    /\ Batches \subseteq Seq(Event)
    /\ NoIX \notin IX /\ Poller \notin Requests
    /\ MaxLen \in Nat /\ MaxLate \in Nat /\ MaxUnsure \in Nat
    /\ MaxRejoins \in Nat /\ MaxCrashes \in Nat

Worker == Requests \union {Poller}

VARIABLES
    log,        \* log[i]: the config log of i, memory and file alike
    stable,     \* stable[i]: what a power loss may leave of it
    work,       \* work[i][w]: where worker w of i stands
    report,     \* what recordConfigSync recorded in the last step, if anything
    late,       \* pushes still on the wire: [to, events]
    committed,  \* history: every event ever signed and committed (event ids are random)
    spent       \* history: rejoins, crashes, crashes that lost a commit, and
                \* commits of unsure durability

vars == <<log, stable, work, report, late, committed, spent>>
logVars == <<log, stable, committed>>

\* seen is history: the peer's log its head or its events were read from, or
\* once a push is prepared the log it was taken from.
Resting == [pc |-> "idle", task |-> "none", todo |-> {}, peer |-> NoIX,
            remote |-> ZeroHead, from |-> 0, events |-> <<>>, seen |-> <<>>]

NoReport == [at |-> NoIX, of |-> NoIX, status |-> "none"]

\* Every IX has written the common genesis (ensureConfigGenesisEvent).
Init ==
    /\ log = [i \in IX |-> <<Genesis>>]
    /\ stable = [i \in IX |-> {<<Genesis>>}]
    /\ work = [i \in IX |-> [w \in Worker |-> Resting]]
    /\ report = NoReport
    /\ late = {} /\ committed = {Genesis}
    /\ spent = [rejoins |-> 0, crashes |-> 0, lost |-> 0, unsure |-> 0]

Unsure(durable) ==
    /\ durable \/ spent.unsure < MaxUnsure
    /\ spent' = [spent EXCEPT !.unsure = IF durable THEN @ ELSE @ + 1]

\* Mutant: success is reported although the directory was never synced.
CommitUnsynced(i, new, durable) ==
    /\ log' = [log EXCEPT ![i] = new]
    /\ stable' = [stable EXCEPT ![i] = @ \union {new}]
    /\ Unsure(durable)

\* Store.AppendBatch or ReplaceAll committed; durable says whether the
\* directory fsync succeeded too, otherwise the result is a CommitError.  The
\* caller reports success unless that or a later step (trust, admissions,
\* advertisement, signer cache) failed.
Commit(i, new, durable) ==
    /\ log' = [log EXCEPT ![i] = new]
    /\ stable' = [stable EXCEPT ![i] = IF durable THEN {new} ELSE @ \union {new}]
    /\ Unsure(durable)

Reported(success, durable) == IF durable THEN {success, "error"} ELSE {"error"}

Step(i, w, rec) == work' = [work EXCEPT ![i][w] = rec]

\* Mutant: a poller whose sync failed stops polling.
AfterSyncStops(i, w, st) ==
    IF w = Poller /\ st \in {"error", "conflict"} THEN [Resting EXCEPT !.pc = "stopped"]
    ELSE IF work[i][w].task = "mutate" /\ st # "conflict"
           THEN [Resting EXCEPT !.task = "mutate", !.todo = work[i][w].todo \ {work[i][w].peer}]
           ELSE Resting

\* The sync of worker w ends: recordConfigSync, and for a preflight either the
\* next target or, on a conflict, the end of the mutation (409 Conflict).
AfterSync(i, w, st) ==
    LET me == work[i][w]
    IN  IF me.task = "mutate" /\ st # "conflict"
          THEN [Resting EXCEPT !.task = "mutate", !.todo = me.todo \ {me.peer}]
          ELSE Resting

Finish(i, w, st) ==
    /\ report' = [at |-> i, of |-> work[i][w].peer, status |-> st]
    /\ Step(i, w, AfterSync(i, w, st))

-----------------------------------------------------------------------------
\* fetchPeerConfigHead, or the head in the advertisement just fetched.  The
\* poller takes any peer; a preflight takes the targets it has left.
LearnHead(i, w, j) ==
    /\ j # i
    /\ work[i][w].pc = "idle"
    /\ w \in Requests => j \in work[i][w].todo
    /\ Step(i, w, [work[i][w] EXCEPT !.pc = "compare", !.peer = j,
                                     !.remote = LogHead(log[j]), !.seen = log[j]])
    /\ report' = NoReport
    /\ UNCHANGED <<logVars, late, spent>>

\* The head cannot be fetched: recorded as an error, and a preflight goes on
\* with the next target.
LearnFails(i, w, j) ==
    /\ j # i
    /\ work[i][w].pc = "idle"
    /\ w \in Requests => j \in work[i][w].todo
    /\ report' = [at |-> i, of |-> j, status |-> "error"]
    /\ Step(i, w, [work[i][w] EXCEPT !.todo = @ \ {j}])
    /\ UNCHANGED <<logVars, late, spent>>

\* Mutant: equal sequence numbers are taken for equal logs.
CompareSeqOnly(i, w) ==
    LET me == work[i][w]
        head == LogHead(log[i])
    IN  /\ me.pc = "compare"
        /\ \/ /\ head.seq = me.remote.seq
              /\ Finish(i, w, "synced")
           \/ /\ head.seq < me.remote.seq
              /\ Step(i, w, [me EXCEPT !.pc = "fetch", !.from = head.seq + 1])
              /\ report' = NoReport
           \/ /\ head.seq > me.remote.seq
              /\ Step(i, w, [me EXCEPT !.pc = "after"])
              /\ report' = NoReport
        /\ UNCHANGED <<logVars, late, spent>>

\* syncConfigLogWithKnownHead: the local head against the remote one.
Compare(i, w) ==
    LET me == work[i][w]
        head == LogHead(log[i])
    IN  /\ me.pc = "compare"
        /\ \/ /\ head.seq = me.remote.seq
              /\ Finish(i, w, IF head.hash = me.remote.hash THEN "synced" ELSE "conflict")
           \/ /\ head.seq < me.remote.seq
              /\ Step(i, w, [me EXCEPT !.pc = "fetch", !.from = head.seq + 1])
              /\ report' = NoReport
           \/ /\ head.seq > me.remote.seq
              /\ Step(i, w, [me EXCEPT !.pc = "after"])
              /\ report' = NoReport
        /\ UNCHANGED <<logVars, late, spent>>

\* fetchPeerConfigEvents, answered by handleControlConfigLog from the log the
\* peer has by then.
Fetch(i, w) ==
    LET me == work[i][w]
        theirs == log[me.peer]
    IN  /\ me.pc = "fetch"
        /\ InRange(theirs, me.from, me.remote.seq)
        /\ Step(i, w, [me EXCEPT !.pc = "append", !.seen = theirs,
                                 !.events = LogRange(theirs, me.from, me.remote.seq)])
        /\ report' = NoReport
        /\ UNCHANGED <<logVars, late, spent>>

\* Mutant: only the sequence number of what was pulled is checked.
AppendPulledSeqOnly(i, w) ==
    LET me == work[i][w]
    IN  /\ me.pc = "append"
        /\ IF me.from = Len(log[i]) + 1
             THEN Commit(i, log[i] \o me.events, TRUE) /\ Finish(i, w, "pulled")
             ELSE Finish(i, w, "conflict") /\ UNCHANGED <<log, stable, spent>>
        /\ UNCHANGED <<late, committed>>

\* appendVerifiedConfigEvents of what was pulled.
AppendPulled(i, w) ==
    LET me == work[i][w]
    IN  /\ me.pc = "append"
        /\ \/ /\ CanAppend(log[i], me.events)
              /\ \E durable \in BOOLEAN :
                    /\ Commit(i, log[i] \o me.events, durable)
                    /\ \E st \in Reported("pulled", durable) : Finish(i, w, st)
           \/ /\ ~CanAppend(log[i], me.events)      \* ErrConflict
              /\ Finish(i, w, "conflict")
              /\ UNCHANGED <<log, stable, spent>>
        /\ UNCHANGED <<late, committed>>

\* localConfigEventsAfter: the remote head has to be an event of the local log.
IsLocalPrefix(head, mine) ==
    head.seq = 0 \/ (head.seq <= Len(mine) /\ Hash(mine[head.seq]) = head.hash)

After(i, w) ==
    LET me == work[i][w]
        n == me.remote.seq
    IN  /\ me.pc = "after"
        /\ \/ /\ ~IsLocalPrefix(me.remote, log[i])
              /\ Finish(i, w, "conflict")
           \/ /\ IsLocalPrefix(me.remote, log[i]) /\ n = Len(log[i])
              /\ Finish(i, w, "synced")
           \/ /\ IsLocalPrefix(me.remote, log[i]) /\ n < Len(log[i])
              /\ Step(i, w, [me EXCEPT !.pc = "push", !.seen = log[i],
                                       !.events = LogRange(log[i], n + 1, Len(log[i]))])
              /\ report' = NoReport
        /\ UNCHANGED <<logVars, late, spent>>

\* Mutant: a push replaces what it conflicts with.
PushForces(i, w) ==
    LET me == work[i][w]
        j == me.peer
        kept == SubSeq(log[j], 1, me.remote.seq)
    IN  /\ me.pc = "push"
        /\ Commit(j, kept \o me.events, TRUE)
        /\ Finish(i, w, "pushed")
        /\ UNCHANGED <<late, committed>>

\* pushPeerConfigEvents, handled by handleControlConfigEventsPost at the peer:
\* appended there, refused with 409, or appended with an unsure durability.
Push(i, w) ==
    LET me == work[i][w]
        j == me.peer
    IN  /\ me.pc = "push"
        /\ \/ /\ CanAppend(log[j], me.events)
              /\ \E durable \in BOOLEAN :
                    /\ Commit(j, log[j] \o me.events, durable)
                    /\ \E st \in Reported("pushed", durable) : Finish(i, w, st)
           \/ /\ ~CanAppend(log[j], me.events)
              /\ Finish(i, w, "conflict")
              /\ UNCHANGED <<log, stable, spent>>
        /\ UNCHANGED <<late, committed>>

\* The request times out at its sender and stays on the wire.
PushTimesOut(i, w) ==
    /\ work[i][w].pc = "push"
    /\ Cardinality(late) < MaxLate
    /\ late' = late \union {[to |-> work[i][w].peer, events |-> work[i][w].events]}
    /\ Finish(i, w, "error")
    /\ UNCHANGED <<logVars, spent>>

\* It is handled after all, nobody reading the answer.
DeliverLate(m) ==
    /\ late' = late \ {m}
    /\ IF CanAppend(log[m.to], m.events)
         THEN \E durable \in BOOLEAN : Commit(m.to, log[m.to] \o m.events, durable)
         ELSE UNCHANGED <<log, stable, spent>>
    /\ report' = NoReport
    /\ UNCHANGED <<work, committed>>

\* A request fails, a batch does not verify or is not committed: the sync is
\* recorded as an error and nothing changed.
SyncFails(i, w) ==
    /\ work[i][w].pc \in {"fetch", "append", "push"}
    /\ Finish(i, w, "error")
    /\ UNCHANGED <<logVars, late, spent>>

-----------------------------------------------------------------------------
\* An API request that writes the log starts with preflightConfigMutation.
BeginMutation(i, r) ==
    /\ work[i][r] = Resting
    /\ Step(i, r, [Resting EXCEPT !.task = "mutate", !.todo = IX \ {i}])
    /\ report' = NoReport
    /\ UNCHANGED <<logVars, late, spent>>

PreflightDone(i, r) ==
    work[i][r].task = "mutate" /\ work[i][r].pc = "idle" /\ work[i][r].todo = {}

HasLocalDesired(mine, i) ==
    \E k \in 1 .. Len(mine) : mine[k].resource = "desired" /\ mine[k].by = i

\* The batches applyDesiredConfigLocked and the trust, admission and grant
\* appliers sign on the head: one event, or a desired event after a trust
\* event, after the baseline of a log that has none, or after both.
Planned(i, events) ==
    /\ CanAppend(log[i], events) /\ Len(log[i]) + Len(events) <= MaxLen
    /\ \A k \in 1 .. Len(events) :
          /\ events[k].by = i /\ events[k] \notin committed
          /\ k > 1 /\ k = Len(events) => events[k].resource = "desired"
          /\ k < Len(events) => \/ k = Len(events) - 1 /\ events[k].resource = "domain"
                                \/ k = 1 /\ events[k].resource = "desired"
                                   /\ ~HasLocalDesired(log[i], i)

\* Mutant: the events are signed on a head read before the IX signed another
\* event in their place, and written there.
CommitMutationStaleHead(i, r, events) ==
    /\ PreflightDone(i, r)
    /\ \A k \in 1 .. Len(events) : events[k].by = i /\ events[k] \notin committed
    /\ \E n \in 1 .. Len(log[i]) :
          /\ n = Len(log[i]) \/ \E k \in 1 .. Len(events) : n + k <= Len(log[i]) /\ log[i][n + k].by = i
          /\ CanAppend(SubSeq(log[i], 1, n), events)
          /\ Commit(i, SubSeq(log[i], 1, n) \o events, TRUE)
    /\ committed' = committed \union {events[k] : k \in 1 .. Len(events)}
    /\ Step(i, r, Resting)
    /\ report' = NoReport
    /\ UNCHANGED late

\* Under configMu, after the last target of the preflight: append them.
CommitMutation(i, r, events) ==
    /\ PreflightDone(i, r)
    /\ Planned(i, events)
    /\ \E durable \in BOOLEAN : Commit(i, log[i] \o events, durable)
    /\ committed' = committed \union {events[k] : k \in 1 .. Len(events)}
    /\ Step(i, r, Resting)
    /\ report' = NoReport
    /\ UNCHANGED late

\* The mutation is refused, or its append fails before the commit point: the
\* events it had signed are dropped, and the next mutation signs others for the
\* same positions.
MutationFails(i, r) ==
    /\ PreflightDone(i, r)
    /\ Step(i, r, Resting)
    /\ report' = NoReport
    /\ UNCHANGED <<logVars, late, spent>>

\* switchDesiredRuntime advertises the planned head before the events are
\* appended, so a poller may learn a head that is not in the peer's log yet.
LearnPlannedHead(i, j, r, events) ==
    /\ j # i
    /\ work[i][Poller].pc = "idle"
    /\ PreflightDone(j, r)
    /\ Planned(j, events)
    /\ Step(i, Poller, [Resting EXCEPT !.pc = "compare", !.peer = j, !.seen = log[j] \o events,
                                       !.remote = LogHead(log[j] \o events)])
    /\ report' = NoReport
    /\ UNCHANGED <<logVars, late, spent>>

-----------------------------------------------------------------------------
\* rejoinConfigLogWithTarget: fetchPeerConfigSnapshot, a consistent copy of
\* the peer's log (localConfigSnapshot reads head and events under one lock).
FetchSnapshot(i, r, j) ==
    /\ j # i /\ work[i][r] = Resting
    /\ spent.rejoins < MaxRejoins
    /\ spent' = [spent EXCEPT !.rejoins = @ + 1]
    /\ Step(i, r, [Resting EXCEPT !.pc = "replace", !.task = "rejoin", !.peer = j,
                                  !.remote = LogHead(log[j]), !.events = log[j], !.seen = log[j]])
    /\ report' = NoReport
    /\ UNCHANGED <<logVars, late>>

\* verifyConfigSnapshotLocked, for the part that concerns the chain.
SnapshotVerifies(head, events) ==
    \/ head = ZeroHead /\ events = <<>>
    \/ /\ head.seq = Len(events) /\ events # <<>>
       /\ events[1].resource = "genesis"
       /\ IsChain(events) /\ LogHead(events) = head

\* What ensureLocalDesiredBaselineLocked appends after the snapshot: the local
\* desired, unless the new chain has one of this IX already.
Baselines(i, events, preserve) ==
    IF preserve /\ ~HasLocalDesired(events, i)
      THEN {<<e>> : e \in {f \in Event : /\ f.by = i /\ f.resource = "desired" /\ f \notin committed
                                         /\ CanAppend(events, <<f>>) /\ Len(events) < MaxLen}}
      ELSE {<<>>}

\* Mutant: a rejoin that was rolled back is reported as a success.
ReplaceLogRollbackHidden(i, r, preserve, rollback) ==
    LET me == work[i][r]
    IN  /\ me.pc = "replace"
        /\ SnapshotVerifies(me.remote, me.events)
        /\ Commit(i, IF rollback THEN log[i] ELSE me.events, TRUE)
        /\ Finish(i, r, "rejoined")
        /\ UNCHANGED <<late, committed>>

\* replaceConfigLogWithVerifiedSnapshot, under configMu: ReplaceAll with the
\* snapshot and the baseline after it.  Whatever was appended here since the
\* snapshot was fetched is replaced too.  A later step that fails puts the old
\* log back (rollback), unless that write fails as well.
ReplaceLog(i, r, preserve, rollback) ==
    LET me == work[i][r]
    IN  /\ me.pc = "replace"
        /\ SnapshotVerifies(me.remote, me.events)
        /\ \E base \in Baselines(i, me.events, preserve), durable \in BOOLEAN :
              LET new == IF rollback THEN log[i] ELSE me.events \o base
              IN  /\ log' = [log EXCEPT ![i] = new]
                  /\ stable' = [stable EXCEPT ![i] =
                                   IF durable THEN {new}
                                   ELSE @ \union {me.events, me.events \o base, new}]
                  /\ Unsure(durable)
                  /\ committed' = committed \union {base[k] : k \in 1 .. Len(base)}
                  /\ \E st \in Reported("rejoined", durable /\ ~rollback) : Finish(i, r, st)
        /\ UNCHANGED late

\* The snapshot does not arrive or does not verify, or its write is not
\* committed.
RejoinFails(i, r) ==
    /\ work[i][r].pc = "replace"
    /\ Finish(i, r, IF SnapshotVerifies(work[i][r].remote, work[i][r].events)
                      THEN "error" ELSE "conflict")
    /\ UNCHANGED <<logVars, late, spent>>

\* Mutant: a log that cannot be read is an empty one.
RestartEmpty(i) ==
    /\ spent.crashes < MaxCrashes
    /\ log' = [log EXCEPT ![i] = <<>>]
    /\ stable' = [stable EXCEPT ![i] = {<<>>}]
    /\ spent' = [spent EXCEPT !.crashes = @ + 1, !.lost = @ + 1]
    /\ work' = [work EXCEPT ![i] = [w \in Worker |-> Resting]]
    /\ report' = NoReport
    /\ UNCHANGED <<late, committed>>

\* A crash and the restart after it: NewFileStore loads what the disk kept.
Restart(i) ==
    /\ spent.crashes < MaxCrashes
    /\ \E kept \in stable[i] :
          /\ log' = [log EXCEPT ![i] = kept]
          /\ stable' = [stable EXCEPT ![i] = {kept}]
          /\ spent' = [spent EXCEPT !.crashes = @ + 1,
                                    !.lost = IF kept = log[i] THEN @ ELSE @ + 1]
    /\ work' = [work EXCEPT ![i] = [w \in Worker |-> Resting]]
    /\ report' = NoReport
    /\ UNCHANGED <<late, committed>>

SyncStep(i, w) ==
    \/ Compare(i, w) \/ Fetch(i, w) \/ AppendPulled(i, w) \/ After(i, w) \/ Push(i, w)
    \/ PushTimesOut(i, w) \/ SyncFails(i, w)
    \/ \E j \in IX : LearnHead(i, w, j) \/ LearnFails(i, w, j)

RequestStep(i, r) ==
    \/ BeginMutation(i, r) \/ MutationFails(i, r)
    \/ \E events \in Batches : \/ CommitMutation(i, r, events)
                               \/ \E j \in IX : LearnPlannedHead(j, i, r, events)
    \/ \E j \in IX : FetchSnapshot(i, r, j)
    \/ \E preserve, rollback \in BOOLEAN : ReplaceLog(i, r, preserve, rollback)
    \/ RejoinFails(i, r)

Next ==
    \/ \E i \in IX : \/ \E w \in Worker : SyncStep(i, w)
                     \/ \E r \in Requests : RequestStep(i, r)
                     \/ Restart(i)
    \/ \E m \in late : DeliverLate(m)

Spec == Init /\ [][Next]_vars

\* The poller runs for ever and goes round all its targets, and neither the
\* requests to a peer nor the disk fail for ever: a request or an append that
\* is tried again and again succeeds some time.
Fairness ==
    \A i \in IX :
        /\ WF_vars(Compare(i, Poller) \/ After(i, Poller))
        /\ SF_vars(Fetch(i, Poller)) /\ SF_vars(AppendPulled(i, Poller)) /\ SF_vars(Push(i, Poller))
        /\ \A j \in IX \ {i} : SF_vars(LearnHead(i, Poller, j))

FairSpec == Spec /\ Fairness

-----------------------------------------------------------------------------
WorkerRec == [pc : {"idle", "compare", "fetch", "append", "after", "push", "replace"},
              task : {"none", "mutate", "rejoin"}, todo : SUBSET IX, peer : IX \union {NoIX},
              remote : [seq : Nat, hash : {NoHash} \union {Hash(e) : e \in Event}],
              from : Nat, events : Seq(Event), seen : Seq(Event)]

Statuses == {"none", "synced", "pulled", "pushed", "rejoined", "conflict", "error"}

ReportRec == [at : IX \union {NoIX}, of : IX \union {NoIX}, status : Statuses]

\* Types: every log is a sequence of events that starts with the common
\* genesis, every worker is where the code can leave it.
TypeOK ==
    /\ log \in [IX -> Seq(Event)]
    /\ \A i \in IX : log[i] # <<>> /\ log[i][1] = Genesis
    /\ stable \in [IX -> SUBSET Seq(Event)]
    /\ work \in [IX -> [Worker -> WorkerRec]]
    /\ report \in ReportRec
    /\ late \subseteq [to : IX, events : Seq(Event)]
    /\ committed \subseteq Event
    /\ spent \in [rejoins : Nat, crashes : Nat, lost : Nat, unsure : Nat]

\* Log matching: two logs that hold the same event at a position are the same
\* up to it, whatever syncs, late pushes, rejoins, rollbacks and power losses
\* happened in whatever order; so comparing one hash (localConfigEventsAfter,
\* syncConfigLogWithKnownHead) compares whole histories.
LogMatching ==
    \A i, j \in IX : \A k \in 1 .. Len(log[i]) :
        k <= Len(log[j]) /\ log[i][k] = log[j][k]
            => \A n \in 1 .. k : log[i][n] = log[j][n]

GrowsOrReplaced(i) ==
    \/ IsPrefixOf(log[i], log'[i])
    \/ \E r \in Requests : work[i][r].pc = "replace" /\ work'[i][r].pc = "idle"
    \/ spent.unsure > 0 /\ spent'.lost > spent.lost

\* A log only grows, except when its operator replaces it by a rejoin or a
\* power loss takes back a commit that was reported as not durable: a sync
\* fails closed on a conflict and never rewrites history.
AppendOnly == [][\A i \in IX : GrowsOrReplaced(i)]_vars

ReportTrue(i, me) ==
    /\ report'.status = "synced" => log'[i] = me.seen
    /\ report'.status = "pulled" => IsPrefixOf(log'[i], me.seen)
    /\ report'.status = "pushed" => log'[me.peer] = me.seen
    /\ report'.status = "rejoined" => IsPrefixOf(me.seen, log'[i])

\* What a finished sync reports is true of the whole log although only heads
\* were compared and both sides went on in the meantime: "synced", the logs
\* were the same; "pulled", the local log is what the peer's was up to there;
\* "pushed", the peer's log is now what the local one was when the push was
\* prepared; "rejoined", the peer's snapshot begins the local log.
SyncReportIsTrue ==
    [][\A i \in IX, w \in Worker :
          work[i][w].pc # "idle" /\ work'[i][w].pc = "idle" => ReportTrue(i, work[i][w])]_vars

\* An IX never commits two events of its own for the same place of its log,
\* however its requests, its poller and the pushes of its peers interleave, unless
\* its log was replaced by a rejoin or a power loss took a commit back.  (Events
\* it signed and could not append are not among them.)
CommitsOnce ==
    spent.rejoins = 0 /\ spent.lost = 0 =>
        \A e, f \in committed : e.by = f.by /\ e.seq = f.seq => e = f

Forked(s, t) == ~IsPrefixOf(s, t) /\ ~IsPrefixOf(t, s)

\* Anti-entropy converges: in the end any two IXs have the same log or logs
\* that really forked, which only an operator's rejoin may resolve.
Converges == <>[](\A i, j \in IX : log[i] = log[j] \/ Forked(log[i], log[j]))

\* A sync ends in "conflict" only if the two logs forked.
ConflictIsFork == report.status = "conflict" => Forked(log[report.at], log[report.of])
=============================================================================
