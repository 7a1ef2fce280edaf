----------------------------- MODULE ConfigNode -----------------------------
(***************************************************************************)
(* One IX daemon between its config log, its runtime and its disk: what    *)
(* applyDesiredConfigLocked, applyTrustConfigLocked,                       *)
(* appendVerifiedConfigEvents, replaceConfigLogWithVerifiedSnapshot (a     *)
(* rejoin) and restoreConfigSnapshotFromArchive do step by step, each step *)
(* of which may fail, the reconcile worker's pass over the same state, and *)
(* a crash at any point followed by loadAndApply.                          *)
(*                                                                         *)
(* configMu is held through each of these handlers, so one runs at a time: *)
(* req is the one that does.  An event is its resource, its payload and    *)
(* its signer; how events chain is the subject of EventChain and           *)
(* ConfigSync, and a log stands here for its head.  A desired              *)
(* configuration is a trust section and all the rest.  The other IXs are   *)
(* the log `peer` they agree on, which they extend and into which they     *)
(* pull what this IX appended.  Left out: trust that revokes this IX's own *)
(* certificate, payloads that fail validation, and the certificates that   *)
(* membership registers besides those of event signers.                    *)
(***************************************************************************)
EXTENDS Naturals, Sequences

CONSTANTS
    Local,        \* the signer ID of this IX
    Remote,       \* the signer IDs of the others
    NoSigner,     \* the genesis is not signed
    Cfg,          \* what a desired configuration is besides its trust section
    Trust,        \* trust sections
    FileDesired,  \* the desired configuration of the config file
    Wanted,       \* the desired configurations an operator applies
    Kinds,        \* the requests this IX serves
    MaxLen,       \* bound: longest log
    MaxFaults,    \* bound: steps that fail
    MaxCrashes    \* bound: crashes

Desired == [cfg : Cfg, trust : Trust]
Signer == Remote \union {Local}
AllKinds == {"apply", "trust", "append", "rejoin", "restore"}

ASSUME NodeAssumption ==
    /\ Local \notin Remote /\ NoSigner \notin Signer
    /\ FileDesired \in Desired /\ Wanted \subseteq Desired /\ Kinds \subseteq AllKinds
    /\ MaxLen \in Nat /\ MaxFaults \in Nat /\ MaxCrashes \in Nat

Genesis == [resource |-> "genesis", payload |-> FileDesired, by |-> NoSigner]

\* A /ix/<ix>/desired event, and a /domain/trust event.  The trust event's
\* payload is a desired configuration of which only the trust counts.
Event == [resource : {"genesis", "desired", "trust"}, payload : Desired, by : Signer \union {NoSigner}]
Log == Seq(Event)
DesiredEvent(d) == [resource |-> "desired", payload |-> d, by |-> Local]
TrustEvent(t, s) ==
    [resource |-> "trust", payload |-> [FileDesired EXCEPT !.trust = t], by |-> s]

VARIABLES
    up,        \* the process: "up", "down", or "refused" by its own log
    log,       \* the config log, memory and file alike
    stable,    \* what a power loss may leave of it
    desired,   \* daemon.desired
    head,      \* daemon.head, as the log it is the head of
    signers,   \* daemon.signerCerts
    cache,     \* config-signers.json
    pending,   \* reconcileState.Pending
    req,       \* the request under configMu
    result,    \* what the request that ended in the last step returned
    peer,      \* the log of the other IXs
    archive,   \* an exported archive or a backup of the log, or <<>>
    faults,    \* history: steps that failed
    crashes,   \* history: crashes
    taint      \* history: a switch back failed ("unrestored"), or a log was
               \* committed and its signers never staged ("cut")

diskVars == <<log, stable>>
runVars == <<desired, head>>
envVars == <<up, peer, archive, crashes>>
vars == <<up, log, stable, desired, head, signers, cache, pending, req, result,
          peer, archive, faults, crashes, taint>>

SignersOf(l) == {l[k].by : k \in 1 .. Len(l)} \ {NoSigner}

Positions(l, resource) == {k \in 1 .. Len(l) : l[k].resource = resource}
Last(S) == CHOOSE k \in S : \A j \in S : j <= k

\* hasLocalDesiredEventLocked and latestLocalDesiredFromEvents.
LocalDesired(l) == {k \in Positions(l, "desired") : l[k].by = Local}
LatestDesired(l, otherwise) ==
    IF LocalDesired(l) = {} THEN otherwise ELSE l[Last(LocalDesired(l))].payload

\* latestDomainTrustFromLogLocked; a log without one changes nothing.
LatestTrust(l, otherwise) ==
    IF Positions(l, "trust") = {} THEN otherwise
    ELSE l[Last(Positions(l, "trust"))].payload.trust

WithTrust(d, t) == [d EXCEPT !.trust = t]

NoState == [log |-> <<>>, desired |-> FileDesired, head |-> <<>>, signers |-> {}]
Idle == [pc |-> "idle", kind |-> "none", new |-> <<>>, want |-> FileDesired, used |-> {},
         preserve |-> FALSE, unsure |-> FALSE, old |-> NoState]

\* A daemon that has just written its genesis.
Init ==
    /\ up = "up"
    /\ log = <<Genesis>> /\ stable = {<<Genesis>>}
    /\ desired = FileDesired /\ head = <<Genesis>>
    /\ signers = {Local} /\ cache = {}
    /\ pending = FALSE
    /\ req = Idle /\ result = "none"
    /\ peer = <<Genesis>> /\ archive = <<>>
    /\ faults = 0 /\ crashes = 0 /\ taint = {}

Fault == faults < MaxFaults /\ faults' = faults + 1
NoFault == faults' = faults

\* The request goes on, or ends with what its caller is told: "ok", "failed"
\* (nothing was committed), "unrestored" (nothing was committed, and the error
\* says that the previous runtime was not restored), or "committed" (a
\* committedConfigMutationError: committed, with work left to reconcile).
Continue(rec) == req' = rec /\ result' = "none"
Goto(pc) == Continue([req EXCEPT !.pc = pc])
End(st) == req' = Idle /\ result' = st
EndCommitted == End("committed") /\ pending' = TRUE

\* A request that reached its end: a CommitError on the way makes it
\* "committed".
EndOk ==
    IF req.unsure THEN EndCommitted ELSE End("ok") /\ UNCHANGED pending

-----------------------------------------------------------------------------
\* oldDesired, oldHead, oldEvents and snapshotConfigRestoreMutableState.
Old == [log |-> log, desired |-> desired, head |-> head, signers |-> signers]

\* A request takes configMu.
Begin(kind, pc, new, want, used, preserve) ==
    /\ kind \in Kinds
    /\ up = "up" /\ req = Idle
    /\ Len(new) <= MaxLen
    /\ Continue([Idle EXCEPT !.pc = pc, !.kind = kind, !.new = new, !.want = want,
                             !.used = used, !.preserve = preserve, !.old = Old])
    /\ UNCHANGED <<diskVars, runVars, envVars, signers, cache, pending, faults, taint>>

\* Mutant: the desired event is left out when the log already has one.
PlanOnce(d) ==
    (IF LocalDesired(log) = {} THEN <<DesiredEvent(desired)>> ELSE <<>>)
    \o (IF d.trust # desired.trust THEN <<TrustEvent(d.trust, Local)>> ELSE <<>>)

\* The events applyDesiredConfigLocked appends for d: the baseline of a log
\* without one, the trust if it changes, and d unless the log ends in it.
Plan(d) ==
    LET baseline == LocalDesired(log) = {}
        atEnd == IF baseline THEN d = desired ELSE LatestDesired(log, desired) = d
    IN  (IF baseline THEN <<DesiredEvent(desired)>> ELSE <<>>)
        \o (IF d.trust # desired.trust THEN <<TrustEvent(d.trust, Local)>> ELSE <<>>)
        \o (IF atEnd THEN <<>> ELSE <<DesiredEvent(d)>>)

\* handleConfigApply, or handleConfigRollback with the payload of an event.
BeginApply(d) ==
    /\ d # desired \/ Plan(d) # <<>>
    /\ Begin("apply", "switch", log \o Plan(d), d, {}, FALSE)

\* applyTrustConfigLocked; the payload names its position, so it is never the
\* one the log ends in.
BeginTrust(t) ==
    /\ t # desired.trust
    /\ Begin("trust", "commit", Append(log, TrustEvent(t, Local)), WithTrust(desired, t), {}, FALSE)

IsPrefixOf(s, t) == Len(s) <= Len(t) /\ s = SubSeq(t, 1, Len(s))

\* Mutant: the events received take the place of the log.
BeginAppendTail ==
    /\ IsPrefixOf(log, peer) /\ log # peer
    /\ LET tail == SubSeq(peer, Len(log) + 1, Len(peer))
       IN  Begin("append", "commit", tail, desired, SignersOf(tail), FALSE)

\* appendVerifiedConfigEvents, with what the peers have after this log.  They
\* send the certificates of the signers along.
BeginAppend ==
    /\ IsPrefixOf(log, peer) /\ log # peer
    /\ Begin("append", "commit", peer, desired,
             SignersOf(SubSeq(peer, Len(log) + 1, Len(peer))), FALSE)

\* replaceConfigLogWithVerifiedSnapshot: refused when the runtime's head is
\* not the store's.
BeginRejoin(preserve) ==
    /\ head = log /\ peer # log
    /\ Begin("rejoin", "commit", peer, desired, SignersOf(peer), preserve)

\* restoreConfigSnapshotFromArchive, from an archive, which carries the
\* certificates of its signers, or by restoreConfigLogBackup from a backup,
\* which does not.
BeginRestore(certificates) ==
    /\ LocalDesired(archive) # {}
    /\ certificates \/ SignersOf(archive) \subseteq signers
    /\ head = log
    /\ Begin("restore", "switch", archive, LatestDesired(archive, desired), SignersOf(archive), FALSE)

-----------------------------------------------------------------------------
\* switchDesiredRuntime to what is wanted, with the planned head.  When it
\* fails restoreDesiredRuntime puts the old one back, and asks for a
\* reconcile if that does not go without errors either.
SwitchDesiredRuntime ==
    /\ req.pc = "switch"
    /\ \/ /\ NoFault
          /\ desired' = req.want /\ head' = req.new
          /\ IF req.kind = "apply" /\ req.new = log THEN End("ok") ELSE Goto("commit")
          /\ UNCHANGED pending
       \/ /\ Fault
          /\ End("failed")
          /\ pending' \in {pending, TRUE}
          /\ UNCHANGED runVars
    /\ UNCHANGED <<diskVars, envVars, signers, cache, taint>>

\* AppendBatch or ReplaceAll, and the head it makes.  A CommitError is a
\* commit.
Commit(durable) ==
    /\ req.pc = "commit"
    /\ IF durable THEN NoFault ELSE Fault
    /\ log' = req.new
    /\ stable' = IF durable THEN {req.new} ELSE stable \union {req.new}
    /\ head' = req.new
    /\ desired' = IF req.kind = "trust" THEN req.want ELSE desired
    /\ Continue([req EXCEPT !.pc = IF req.kind \in {"apply", "trust"} THEN "after" ELSE "trust",
                            !.unsure = ~durable])
    /\ UNCHANGED <<envVars, signers, cache, pending, taint>>

\* Nothing was written.  An apply has to switch back; a restore puts the old
\* runtime back, whatever fails on the way.
CommitFails ==
    /\ req.pc = "commit"
    /\ Fault
    /\ \/ req.kind = "apply" /\ Goto("switchback") /\ UNCHANGED <<pending, runVars>>
       \/ /\ req.kind = "restore" /\ End("failed")
          /\ desired' = req.old.desired /\ head' = req.old.head
          /\ pending' \in {pending, TRUE}
       \/ /\ req.kind \in {"trust", "append", "rejoin"}
          /\ End("failed") /\ UNCHANGED <<pending, runVars>>
    /\ UNCHANGED <<diskVars, envVars, signers, cache, taint>>

\* Mutant: an apply whose append failed keeps the runtime it switched to.
SwitchBackSkipped ==
    /\ req.pc = "switchback"
    /\ NoFault /\ End("failed")
    /\ UNCHANGED <<diskVars, runVars, envVars, signers, cache, pending, taint>>

\* switchDesiredRuntime to the previous configuration.  When it fails it
\* restores the configuration it found, which is the new one.
SwitchBack ==
    /\ req.pc = "switchback"
    /\ \/ /\ NoFault /\ End("failed")
          /\ desired' = req.old.desired /\ head' = req.old.head
          /\ UNCHANGED <<pending, taint>>
       \/ /\ Fault /\ End("unrestored")
          /\ pending' \in {pending, TRUE}
          /\ taint' = taint \union {"unrestored"}
          /\ UNCHANGED runVars
    /\ UNCHANGED <<diskVars, envVars, signers, cache>>

\* Mutant: an apply whose follow-up failed reports it and leaves it at that.
AfterMutationForgets ==
    /\ req.pc = "after"
    /\ \/ NoFault /\ EndOk
       \/ Fault /\ End("committed") /\ UNCHANGED pending
    /\ UNCHANGED <<diskVars, runVars, envVars, signers, cache, taint>>

\* enforceRuntimeTrustState and the dataplane snapshot after an apply,
\* afterTrustStateChangedLocked after a trust mutation.
AfterMutation ==
    /\ req.pc = "after"
    /\ \/ NoFault /\ EndOk
       \/ Fault /\ EndCommitted
    /\ UNCHANGED <<diskVars, runVars, envVars, signers, cache, taint>>

-----------------------------------------------------------------------------
\* A step after the commit of events that came from elsewhere fails: what was
\* appended stays, and the signers' certificates are not staged; a rejoin or a
\* restore is rolled back.
FollowUpFails ==
    /\ Fault
    /\ IF req.kind = "append"
         THEN EndCommitted /\ taint' = taint \union {"cut"}
         ELSE Goto("rollback") /\ UNCHANGED <<pending, taint>>

\* Mutant: the trust is taken from the log only by a restart.
ApplyLatestDomainTrustSkipped ==
    /\ req.pc = "trust"
    /\ NoFault /\ Goto("admission")
    /\ UNCHANGED <<diskVars, runVars, envVars, signers, cache, pending, taint>>

\* applyLatestDomainTrustFromLogLocked: the trust is set before the sessions,
\* the dataplane and the advertisement follow it.
ApplyLatestDomainTrust ==
    LET t == LatestTrust(log, desired.trust)
    IN  /\ req.pc = "trust"
        /\ desired' = WithTrust(desired, t)
        /\ \/ NoFault /\ Goto("admission") /\ UNCHANGED <<pending, taint>>
           \/ t # desired.trust /\ FollowUpFails
        /\ UNCHANGED <<diskVars, head, envVars, signers, cache>>

\* afterAdmissionStateChangedLocked.
AfterAdmission ==
    /\ req.pc = "admission"
    /\ \/ /\ NoFault /\ Goto(IF req.kind = "rejoin" /\ req.preserve THEN "baseline" ELSE "refresh")
          /\ UNCHANGED <<pending, taint>>
       \/ FollowUpFails
    /\ UNCHANGED <<diskVars, runVars, envVars, signers, cache>>

\* ensureLocalDesiredBaselineLocked, for a rejoin that preserves the local
\* desired configuration.
EnsureLocalDesiredBaseline ==
    LET new == Append(log, DesiredEvent(desired))
    IN  /\ req.pc = "baseline"
        /\ \/ /\ LocalDesired(log) # {}
              /\ NoFault /\ Goto("refresh")
              /\ UNCHANGED <<diskVars, head, pending, taint>>
           \/ /\ LocalDesired(log) = {} /\ Len(new) <= MaxLen
              /\ \E durable \in BOOLEAN :
                    /\ IF durable THEN NoFault ELSE Fault
                    /\ stable' = IF durable THEN {new} ELSE stable \union {new}
                    /\ pending' = (pending \/ ~durable)
                    /\ Continue([req EXCEPT !.pc = "refresh", !.unsure = @ \/ ~durable])
              /\ log' = new /\ head' = new
              /\ UNCHANGED taint
           \/ /\ LocalDesired(log) = {}
              /\ FollowUpFails
              /\ UNCHANGED <<diskVars, head>>
        /\ UNCHANGED <<desired, envVars, signers, cache>>

\* refreshLocalAdvertisement.
RefreshLocalAdvertisement ==
    /\ req.pc = "refresh"
    /\ \/ NoFault /\ Goto("signers") /\ UNCHANGED <<pending, taint>>
       \/ FollowUpFails
    /\ UNCHANGED <<diskVars, runVars, envVars, signers, cache>>

\* Mutant: new certificates are kept in memory only.
CommitSignerCertificatesInMemory ==
    /\ req.pc = "signers"
    /\ NoFault /\ EndOk
    /\ signers' = signers \union req.used
    /\ UNCHANGED <<diskVars, runVars, envVars, cache, taint>>

\* commitConfigSignerCertificates, which writes the cache if it learns
\* anything; after a log commit a failure to write stages the certificates in
\* memory for the reconcile worker, while a restore is rolled back.
CommitSignerCertificates ==
    LET next == signers \union req.used
    IN  /\ req.pc = "signers"
        /\ \/ /\ NoFault /\ EndOk
              /\ signers' = next /\ cache' = IF next = signers THEN cache ELSE next
           \/ /\ next # signers /\ Fault
              /\ cache' \in {cache, next}
              /\ IF req.kind = "restore"
                   THEN Goto("rollback") /\ UNCHANGED pending /\ signers' \in {signers, next}
                   ELSE EndCommitted /\ signers' = next
        /\ UNCHANGED <<diskVars, runVars, envVars, taint>>

\* Mutant: the rolled back log keeps the new runtime.
RollbackLogOnly ==
    /\ req.pc = "rollback"
    /\ NoFault /\ End("failed")
    /\ log' = req.old.log /\ stable' = {req.old.log}
    /\ UNCHANGED <<runVars, envVars, signers, cache, pending, taint>>

\* rollbackFailedConfigSnapshotRestore: the log first, and only then the
\* certificates and the runtime; what fails of those is left to a reconcile.
Rollback ==
    /\ req.pc = "rollback"
    /\ \/ \E clean \in BOOLEAN :
             /\ IF clean THEN NoFault ELSE Fault
             /\ log' = req.old.log
             /\ stable' \in IF clean THEN {{log'}} ELSE {{log'}, stable \union {log'}}
             /\ signers' = req.old.signers
             /\ cache' \in IF clean THEN {signers'} ELSE {cache, signers'}
             /\ desired' = req.old.desired /\ head' = req.old.head
             /\ pending' = (pending \/ ~clean)
             /\ End("failed")
             /\ UNCHANGED taint
       \/ /\ Fault /\ EndCommitted
          /\ taint' = taint \union {"cut"}
          /\ UNCHANGED <<diskVars, runVars, signers, cache>>
    /\ UNCHANGED envVars

-----------------------------------------------------------------------------
\* retryPendingRuntimeReconcile: reconcileRuntimeState goes through all its
\* steps whichever fail, and what is pending is done when none did.
ReconcileRuntimeState ==
    /\ up = "up" /\ req = Idle /\ pending
    /\ result' = "none" /\ UNCHANGED req
    /\ head' = log
    /\ desired' = WithTrust(desired, LatestTrust(log, desired.trust))
    /\ \/ NoFault /\ pending' = FALSE /\ cache' = signers
       \/ Fault /\ UNCHANGED pending /\ cache' \in {cache, signers}
    /\ UNCHANGED <<diskVars, envVars, signers, taint>>

\* The process dies, in the middle of a request or not, and with it what the
\* disk did not have.
Crash ==
    /\ up = "up" /\ crashes < MaxCrashes
    /\ up' = "down" /\ crashes' = crashes + 1
    /\ log' \in stable \union {log} /\ stable' = {log'}
    /\ taint' = IF req.pc \in {"trust", "admission", "baseline", "refresh", "signers", "rollback"}
                   \/ log' # log
                  THEN taint \union {"cut"} ELSE taint
    /\ req' = Idle /\ result' = "none" /\ pending' = FALSE
    /\ desired' = FileDesired /\ head' = <<>> /\ signers' = {}
    /\ UNCHANGED <<cache, peer, archive, faults>>

\* Mutant: the config file wins over the log.
LoadAndApplyFile ==
    /\ up = "down"
    /\ signers' = cache \union {Local}
    /\ up' = IF SignersOf(log) \subseteq signers' THEN "up" ELSE "refused"
    /\ head' = log
    /\ desired' = WithTrust(FileDesired, LatestTrust(log, FileDesired.trust))
    /\ result' = "none"
    /\ UNCHANGED <<diskVars, cache, pending, req, peer, archive, faults, crashes, taint>>

\* loadAndApply: the certificates, the verification of the whole log against
\* them, the head, the latest trust of the log, and then the latest local
\* desired configuration of the log with the trust section it has.
LoadAndApply ==
    /\ up = "down"
    /\ signers' = cache \union {Local}
    /\ up' = IF SignersOf(log) \subseteq signers' THEN "up" ELSE "refused"
    /\ head' = log
    /\ desired' = LatestDesired(log, WithTrust(FileDesired, LatestTrust(log, FileDesired.trust)))
    /\ result' = "none"
    /\ UNCHANGED <<diskVars, cache, pending, req, peer, archive, faults, crashes, taint>>

-----------------------------------------------------------------------------
\* Another IX mutates the trust.
PeerWrites(t, s) ==
    /\ Len(peer) < MaxLen
    /\ peer' = Append(peer, TrustEvent(t, s))
    /\ result' = "none"
    /\ UNCHANGED <<up, archive, crashes, diskVars, runVars, signers, cache, pending, req, faults, taint>>

\* The others pull what this IX has after their log.
PeerPulls ==
    /\ up = "up" /\ req = Idle /\ head = log
    /\ IsPrefixOf(peer, log) /\ peer # log
    /\ peer' = log
    /\ result' = "none"
    /\ UNCHANGED <<up, archive, crashes, diskVars, runVars, signers, cache, pending, req, faults, taint>>

\* An export of the log, or the backup FileStore makes before a commit.
Export ==
    /\ "restore" \in Kinds
    /\ up = "up" /\ req = Idle /\ archive # log
    /\ archive' = log
    /\ result' = "none"
    /\ UNCHANGED <<up, peer, crashes, diskVars, runVars, signers, cache, pending, req, faults, taint>>

RequestStep ==
    \/ SwitchDesiredRuntime \/ CommitFails \/ SwitchBack \/ AfterMutation
    \/ \E durable \in BOOLEAN : Commit(durable)
    \/ ApplyLatestDomainTrust \/ AfterAdmission \/ EnsureLocalDesiredBaseline
    \/ RefreshLocalAdvertisement \/ CommitSignerCertificates \/ Rollback

Next ==
    \/ \E d \in Wanted : BeginApply(d)
    \/ \E t \in Trust : BeginTrust(t)
    \/ BeginAppend
    \/ \E flag \in BOOLEAN : BeginRejoin(flag) \/ BeginRestore(flag)
    \/ RequestStep
    \/ ReconcileRuntimeState \/ Crash \/ LoadAndApply
    \/ \E t \in Trust, s \in Remote : PeerWrites(t, s)
    \/ PeerPulls \/ Export

Spec == Init /\ [][Next]_vars

-----------------------------------------------------------------------------
OldRec == [log : Log, desired : Desired, head : Log, signers : SUBSET Signer]
Pcs == {"idle", "switch", "commit", "switchback", "after", "trust", "admission",
        "baseline", "refresh", "signers", "rollback"}
ReqRec == [pc : Pcs, kind : AllKinds \union {"none"}, new : Log, want : Desired,
           used : SUBSET Signer, preserve : BOOLEAN, unsure : BOOLEAN, old : OldRec]

\* The state of the daemon is well typed, and its log starts with the genesis:
\* a request can fail at any step of its way and be rolled back, and never
\* leaves the daemon without a log.
TypeOK ==
    /\ up \in {"up", "down", "refused"}
    /\ log \in Log /\ stable \subseteq Log
    /\ desired \in Desired /\ head \in Log
    /\ signers \subseteq Signer /\ cache \subseteq Signer
    /\ pending \in BOOLEAN
    /\ req \in ReqRec
    /\ result \in {"none", "ok", "failed", "unrestored", "committed"}
    /\ peer \in Log /\ archive \in Log
    /\ faults \in Nat /\ crashes \in Nat /\ taint \subseteq {"unrestored", "cut"}
    /\ Len(log) > 0 /\ log[1] = Genesis
    /\ req # Idle => Len(req.new) > 0 /\ req.new[1] = Genesis

Quiet == up = "up" /\ req = Idle /\ ~pending

\* A daemon with nothing under way and nothing left to reconcile advertises
\* and serves the head its store has, unless an apply said that it could not
\* restore the previous runtime.  Planned heads are installed before the
\* append (switchDesiredRuntime) and taken back on every failure path.
HeadIsCommitted == Quiet /\ "unrestored" \notin taint => head = log

\* Such a daemon enforces the latest /domain/trust of its log, as long as the
\* process has not been restarted since.
TrustInForce ==
    Quiet /\ "unrestored" \notin taint /\ crashes = 0
    => desired.trust = LatestTrust(log, desired.trust)

\* Such a daemon can be restarted: the certificates that verify its log are in
\* the cache file, unless a commit was cut short before they were staged.
CanRestart == Quiet /\ "cut" \notin taint => SignersOf(log) \subseteq cache \union {Local}

\* What a request tells its caller is what happened.  Failed: the log, the
\* runtime and the head are those from before.  Committed: a reconcile is
\* pending.  Ok: the log is the one that was asked for, the head is its head,
\* and a restart would come back with the configuration an apply or a restore
\* switched to.
OutcomeIsTrue ==
    [][ LET was == req
        IN  was.pc # "idle" /\ req'.pc = "idle" /\ up' = "up" =>
              /\ result' = "failed" =>
                    log' = was.old.log /\ desired' = was.old.desired /\ head' = was.old.head
              /\ result' = "unrestored" => log' = was.old.log
              /\ result' = "committed" => pending'
              /\ result' = "ok" =>
                    /\ IsPrefixOf(was.new, log') /\ head' = log'
                    /\ was.kind = "apply" => LatestDesired(log', desired') = desired'
                    /\ was.kind = "restore" => LatestDesired(log', desired').cfg = desired'.cfg ]_vars

\* The settings that run, which is everything of the desired configuration but
\* its trust section, are those a restart would load: between the apply or the
\* restore that switches the runtime and the event that records it no crash and
\* no failure separates the two.  Of the trust see TrustSurvivesRestart.
RestartKeepsSettings ==
    Quiet /\ taint = {} => LatestDesired(log, FileDesired).cfg = desired.cfg

\* project-blueprint.md: after a restart an IX recovers a consistent
\* configuration from its signed log; so it enforces the trust it enforced.
TrustSurvivesRestart ==
    Quiet /\ taint = {} => desired.trust = LatestTrust(log, desired.trust)

\* first-run.md: a rejoin puts the runtime's desired configuration at the tail
\* of the new chain, unless it is asked not to.
RejoinPreservesDesired ==
    [][req.kind = "rejoin" /\ req.preserve /\ result' = "ok"
       => LatestDesired(log', FileDesired) = desired']_vars

\* first-run.md: the signers' certificates are cached so that after a restart
\* the events of other IXs can still be verified.
SignersSurviveRestart == Quiet => SignersOf(log) \subseteq cache \union {Local}
=============================================================================
