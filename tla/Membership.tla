----------------------------- MODULE Membership -----------------------------
(***************************************************************************)
(* The member table of one daemon (internal/daemon/membership.go) and what *)
(* keeps it in step with trust and admissions (revocation.go,              *)
(* admission_resource.go): advertisements that are merged or parked, the   *)
(* pruning that follows an admission or a trust event, expiry, deletion by *)
(* an operator, the two state files, the dataplane snapshot, the reconcile *)
(* pass, and a restart.                                                    *)
(*                                                                         *)
(* Merges do not hold configMu: an advertisement is verified, stored and   *)
(* persisted in separate steps while a mutation runs its own.  Every       *)
(* goroutine has the list todo[p] of the steps it still has to take; a     *)
(* step that fails drops the rest of its group, which is what the callers' *)
(* early returns do.                                                       *)
(*                                                                         *)
(* An advertisement is a version of its IX, ordered by advertisementNewer; *)
(* how versions are issued and relayed is the subject of MemberGossip.     *)
(* Whether it verifies depends on its IX alone: not revoked by the trust   *)
(* in force, and admitted by the latest admission of the log.  Endpoints   *)
(* that require a grant (dropped by the grant policy as well) are left out.*)
(***************************************************************************)
EXTENDS Naturals, Sequences, FiniteSets

CONSTANTS
    IX,          \* the remote IXs
    StaticPeer,  \* those that are also configured as peers
    Poller,      \* the goroutine of peerPoller
    Handlers,    \* goroutines of the control API that merge advertisements
    Config,      \* the goroutine that holds configMu
    Surface,     \* Surface[i][v]: the session surface of an advertisement
    MaxVersion,  \* bound: advertisements an IX issues
    MaxChanges,  \* bound: admission and trust events, and deletions
    MaxFaults,   \* bound: steps that fail
    MaxCrashes   \* bound: restarts

Procs == Handlers \union {Poller, Config}

VARIABLES
    admitted,   \* the IXs whose latest admission event approves them
    revoked,    \* the IXs whose certificate the trust in force revokes
    event,      \* the IXs whose certificate the log's latest trust event revokes
    past,       \* the revocations of the trust events so far
    issued,     \* issued[i]: the versions IX i has issued
    members,    \* members[i]: the version in the member table, or 0
    parked,     \* pendingMembers[i]: the version waiting for an admission, or 0
    file,       \* members.json
    parkedFile, \* pending-members.json
    routes,     \* the member versions the dataplane snapshot was built from
    open,       \* the IXs that may hold data sessions made for a version that
                \* has been replaced or removed
    todo,       \* todo[p]: the steps goroutine p still has to take
    reconcile,  \* the reconcile request: "none", "asked" or "serving"
    changes,    \* history: admission and trust events, and deletions
    faults,     \* history: steps that failed
    crashes,    \* history: restarts
    missed,     \* history: the poller's last snapshot failed
    racing      \* history: the IXs of which a merge was verified and not yet
                \* stored when their admission or the trust changed

logVars == <<admitted, revoked, event, past>>
tableVars == <<members, parked>>
diskVars == <<file, parkedFile>>
bounds == <<changes, faults, crashes>>
vars == <<admitted, revoked, event, past, issued, members, parked, file, parkedFile, routes, open,
          todo, reconcile, changes, faults, crashes, missed, racing>>

Version == 0 .. MaxVersion
NoMembers == [i \in IX |-> 0]

\* verifyAdvertisementBase, and verifyAdmissionForAdvertisement.
VerifyBase(i) == i \notin revoked
VerifyAdmission(i) == i \in admitted
Verify(i) == VerifyBase(i) /\ VerifyAdmission(i)

Do(op, ixs, v, group) == [op |-> op, ixs |-> ixs, v |-> v, group |-> group]
Plain(op, group) == Do(op, {}, 0, group)

\* What is left of p's list when its first step is done, or failed.
Done(p) == Tail(todo[p])
Abort(p) == SelectSeq(Tail(todo[p]), LAMBDA s : s.group # Head(todo[p]).group)
Becomes(p, list) == todo' = [todo EXCEPT ![p] = list]
AtStep(p, op) == todo[p] # <<>> /\ Head(todo[p]).op = op
Target(p) == CHOOSE i \in Head(todo[p]).ixs : TRUE

Init ==
    /\ admitted \in SUBSET IX /\ revoked = {} /\ event = {} /\ past = {{}}
    /\ issued = [i \in IX |-> 1]
    /\ members = NoMembers /\ parked = NoMembers
    /\ file = NoMembers /\ parkedFile = NoMembers /\ routes = NoMembers
    /\ open = {}
    /\ todo = [p \in Procs |-> <<>>]
    /\ reconcile = "none"
    /\ changes = 0 /\ faults = 0 /\ crashes = 0 /\ missed = FALSE /\ racing = {}

-----------------------------------------------------------------------------
\* IX i issues another advertisement (refreshLocalAdvertisement at i).
Issue(i) ==
    /\ issued[i] < MaxVersion
    /\ issued' = [issued EXCEPT ![i] = @ + 1]
    /\ UNCHANGED <<logVars, tableVars, diskVars, routes, open, todo, reconcile, bounds, missed, racing>>

\* handleControlAdvertisementPost: any version issued so far may arrive.
Post(p, i, v) ==
    /\ p \in Handlers /\ todo[p] = <<>>
    /\ v \in 1 .. issued[i]
    /\ Becomes(p, <<Do("verify", {i}, v, 1)>>)
    /\ UNCHANGED <<logVars, issued, tableVars, diskVars, routes, open, reconcile, bounds, missed, racing>>

\* One round of pollPeers that fetched version v of IX i: the merge, then
\* pruneExpiredMembers and, if anything changed, the snapshot.
Poll(i, v) ==
    /\ todo[Poller] = <<>>
    /\ v \in 1 .. issued[i]
    /\ Becomes(Poller, <<Do("verify", {i}, v, 1), Plain("expire", 2)>>)
    /\ UNCHANGED <<logVars, issued, tableVars, diskVars, routes, open, reconcile, bounds, missed, racing>>

\* updatePendingMemberRejectReason, when a merge of admitPendingMembers (group 7)
\* failed for another reason than the admission.
Rejected(p, i) ==
    IF Head(todo[p]).group = 7 /\ parked[i] # 0 THEN <<Plain("persist parked", 9)>> ELSE <<>>

\* The checks at the head of mergeAdvertisementWithOptions, which take no lock:
\* refused, to be parked, or to be stored.
VerifyStep(p) ==
    LET i == Target(p)  v == Head(todo[p]).v  g == Head(todo[p]).group IN
    /\ AtStep(p, "verify")
    /\ Becomes(p, (CASE ~VerifyBase(i) -> Rejected(p, i)
                     [] VerifyBase(i) /\ ~VerifyAdmission(i) ->
                            <<Do("park", {i}, v, g), Plain("persist parked", g)>>
                     [] OTHER -> <<Do("store", {i}, v, g)>>) \o Done(p))
    /\ UNCHANGED <<logVars, issued, tableVars, diskVars, routes, open, reconcile, bounds, missed, racing>>

\* recordPendingMember.  A member that is there stays.
Park(p) ==
    LET i == Target(p) IN
    /\ AtStep(p, "park")
    /\ parked' = [parked EXCEPT ![i] = Head(todo[p]).v]
    /\ Becomes(p, Done(p))
    /\ UNCHANGED <<logVars, issued, members, diskVars, routes, open, reconcile, bounds, missed, racing>>

\* The snapshot a caller owes once a merge or an expiry changed something.
Owing(p, group, list) ==
    IF p = Config \/ \E k \in DOMAIN list : list[k].op = "snapshot" THEN list
    ELSE Append(list, Plain("snapshot", group))

\* The part of mergeAdvertisementWithOptions under membershipMu.  A version
\* that is not newer still refreshes LastSeen and ends the waiting.
Store(p) ==
    LET i == Target(p)  v == Head(todo[p]).v  g == Head(todo[p]).group
        newer == v > members[i]
        changed == newer /\ (members[i] = 0 \/ Surface[i][v] # Surface[i][members[i]])
        rest == <<Plain("persist", g)>>
                \o (IF parked[i] # 0 THEN <<Plain("persist parked", g)>> ELSE <<>>)
                \o (IF changed THEN <<Do("close", {i}, 0, g)>> ELSE <<>>)
    IN
    /\ AtStep(p, "store")
    /\ members' = IF newer THEN [members EXCEPT ![i] = v] ELSE members
    /\ parked' = [parked EXCEPT ![i] = 0]
    /\ open' = IF changed THEN open \union {i} ELSE open
    /\ Becomes(p, IF newer THEN Owing(p, g, rest \o Done(p)) ELSE rest \o Done(p))
    /\ UNCHANGED <<logVars, issued, diskVars, routes, reconcile, bounds, missed, racing>>

\* persistMembers: under membershipDiskMu the table is read and written.
Persist(p) ==
    /\ AtStep(p, "persist")
    /\ file' = members
    /\ Becomes(p, Done(p))
    /\ UNCHANGED <<logVars, issued, tableVars, parkedFile, routes, open, reconcile, bounds, missed, racing>>

\* persistPendingMembers.
PersistParked(p) ==
    /\ AtStep(p, "persist parked")
    /\ parkedFile' = parked
    /\ Becomes(p, Done(p))
    /\ UNCHANGED <<logVars, issued, tableVars, file, routes, open, reconcile, bounds, missed, racing>>

\* The sessions left when closing some of them ends, be it with an error.
Closed(p) ==
    CASE AtStep(p, "close") -> open \ Head(todo[p]).ixs
      [] AtStep(p, "close untrusted") -> {i \in open : members[i] # 0 \/ i \in StaticPeer}
      [] OTHER -> open

\* closeDataSessionsForPeers and clearFlowsForPeers; closeUntrustedDataSessions,
\* where members and configured peers keep theirs.
Close(p) ==
    /\ AtStep(p, "close") \/ AtStep(p, "close untrusted")
    /\ open' = Closed(p)
    /\ Becomes(p, Done(p))
    /\ UNCHANGED <<logVars, issued, tableVars, diskVars, routes, reconcile, bounds, missed, racing>>

\* applyRuntimeDataplaneSnapshot, serialised by runtimeDataplaneMu.
Snapshot(p) ==
    /\ AtStep(p, "snapshot")
    /\ routes' = members
    /\ missed' = FALSE
    /\ Becomes(p, Done(p))
    /\ UNCHANGED <<logVars, issued, tableVars, diskVars, open, reconcile, bounds, racing>>

Fallible == {"store", "persist", "persist parked", "close", "close untrusted", "signers", "snapshot"}

\* Mutant: a failed write is only logged.
FailsQuietly(p) ==
    /\ todo[p] # <<>> /\ Head(todo[p]).op \in Fallible
    /\ faults < MaxFaults /\ faults' = faults + 1
    /\ file' \in IF AtStep(p, "persist") THEN {file, members} ELSE {file}
    /\ parkedFile' \in IF AtStep(p, "persist parked") THEN {parkedFile, parked} ELSE {parkedFile}
    /\ open' = Closed(p)
    /\ missed' = (missed \/ (p = Poller /\ AtStep(p, "snapshot")))
    /\ Becomes(p, Abort(p))
    /\ UNCHANGED <<logVars, issued, tableVars, routes, reconcile, changes, crashes, racing>>

\* A step that can fail does: a write may have replaced the file all the same
\* (its directory was not synced), and sessions are closed although one of the
\* Close calls returned an error.  A merge may fail before it stores, when the
\* signer certificate cannot be registered.  The caller asks for a reconcile,
\* except pollPeers, which only records that the snapshot failed, a merge whose
\* signer was not registered at all, and updatePendingMemberRejectReason.
Fails(p) ==
    /\ todo[p] # <<>> /\ Head(todo[p]).op \in Fallible
    /\ faults < MaxFaults /\ faults' = faults + 1
    /\ file' \in IF AtStep(p, "persist") THEN {file, members} ELSE {file}
    /\ parkedFile' \in IF AtStep(p, "persist parked") THEN {parkedFile, parked} ELSE {parkedFile}
    /\ open' = Closed(p)
    /\ reconcile' \in CASE (p = Poller /\ AtStep(p, "snapshot")) \/ Head(todo[p]).group = 9 -> {reconcile}
                        [] AtStep(p, "store") -> {reconcile, "asked"}
                        [] OTHER -> {"asked"}
    /\ missed' = (missed \/ (p = Poller /\ AtStep(p, "snapshot")))
    /\ Becomes(p, (IF AtStep(p, "store") THEN Rejected(p, Target(p)) ELSE <<>>) \o Abort(p))
    /\ UNCHANGED <<logVars, issued, tableVars, routes, changes, crashes, racing>>

-----------------------------------------------------------------------------
\* Mutant: only the advertisements that wait expire.
ExpireParked(p, dead) ==
    /\ AtStep(p, "expire") /\ dead = {}
    /\ \E old \in SUBSET {i \in IX : parked[i] # 0} :
          /\ parked' = [i \in IX |-> IF i \in old THEN 0 ELSE parked[i]]
          /\ Becomes(p, (IF old = {} THEN <<>> ELSE <<Plain("persist parked", 4)>>) \o Done(p))
    /\ UNCHANGED <<logVars, issued, members, diskVars, routes, open, reconcile, bounds, missed, racing>>

\* pruneExpiredMembers and pruneExpiredPendingMembers: the expired records go
\* under membershipMu, the rest follows whether or not the file is written.
\* dead are the members not seen for memberRecordTTL; time is not modelled, so
\* that may be any of them.
Expire(p, dead) ==
    /\ AtStep(p, "expire")
    /\ \A i \in dead : members[i] # 0
    /\ members' = [i \in IX |-> IF i \in dead THEN 0 ELSE members[i]]
    /\ open' = open \union (dead \ StaticPeer)
    /\ \E old \in SUBSET {i \in IX : parked[i] # 0} :
          /\ parked' = [i \in IX |-> IF i \in old THEN 0 ELSE parked[i]]
          /\ LET list == (IF dead = {} THEN <<>> ELSE <<Plain("persist", 2)>>)
                         \o (IF dead \subseteq StaticPeer THEN <<>>
                             ELSE <<Do("close", dead \ StaticPeer, 0, 3)>>)
                         \o (IF old = {} THEN <<>> ELSE <<Plain("persist parked", 4)>>)
                         \o Done(p)
             IN Becomes(p, IF dead = {} /\ old = {} THEN list ELSE Owing(p, 5, list))
    /\ UNCHANGED <<logVars, issued, diskVars, routes, reconcile, bounds, missed, racing>>

\* handleControlMemberDelete: all three steps are tried.
MemberDelete(p, i) ==
    /\ p \in Handlers /\ todo[p] = <<>>
    /\ members[i] # 0
    /\ changes < MaxChanges /\ changes' = changes + 1
    /\ members' = [members EXCEPT ![i] = 0]
    /\ open' = open \union {i}
    /\ Becomes(p, <<Do("close", {i}, 0, 1), Plain("persist", 2), Plain("snapshot", 3)>>)
    /\ UNCHANGED <<logVars, issued, parked, diskVars, routes, reconcile, faults, crashes, missed, racing>>

-----------------------------------------------------------------------------
\* The lists of afterAdmissionStateChangedLocked, of afterTrustStateChangedLocked
\* (enforceRuntimeTrustState and the snapshot) and of reconcileRuntimeState,
\* which goes on to the next part when one fails.
AfterAdmission(group) == <<Plain("read unadmitted", group)>>
AfterTrust(group) == <<Plain("read revoked", group)>>
ReconcilePass == <<Plain("read unadmitted", 1), Plain("read revoked", 2), Plain("persist", 3),
                   Plain("persist parked", 4), Plain("snapshot", 5), Plain("finish", 6)>>

\* The IXs of ixs that are about to be stored: a change of theirs is too late for
\* the check that was made.
Racing(ixs) ==
    racing \union {i \in ixs : \E p \in Procs : \E k \in DOMAIN todo[p] :
                                  todo[p][k].op = "store" /\ i \in todo[p][k].ixs}

Steps(list, group) == [k \in 1 .. Len(list) |-> Plain(list[k], group)]

\* A mutation that changes an admission or the trust is committed, and its
\* follow-up begins: applyAdmissionConfigLocked, applyTrustConfigLocked.
ChangeAdmission(i) ==
    /\ todo[Config] = <<>>
    /\ changes < MaxChanges /\ changes' = changes + 1
    /\ admitted' = IF i \in admitted THEN admitted \ {i} ELSE admitted \union {i}
    /\ racing' = Racing({i})
    /\ Becomes(Config, AfterAdmission(1))
    /\ UNCHANGED <<revoked, event, past, issued, tableVars, diskVars, routes, open, reconcile, faults, crashes, missed>>

ChangeTrust(i) ==
    /\ todo[Config] = <<>>
    /\ changes < MaxChanges /\ changes' = changes + 1
    /\ revoked' = IF i \in revoked THEN revoked \ {i} ELSE revoked \union {i}
    /\ event' = revoked' /\ past' = past \union {revoked'}
    /\ racing' = Racing({i})
    /\ Becomes(Config, AfterTrust(1))
    /\ UNCHANGED <<admitted, issued, tableVars, diskVars, routes, open, reconcile, faults, crashes, missed>>

\* The worker takes configMu for a pass of reconcileRuntimeState, which begins
\* with applyLatestDomainTrustFromLogLocked.
BeginReconcile ==
    /\ todo[Config] = <<>>
    /\ reconcile = "asked" /\ reconcile' = "serving"
    /\ revoked' = event /\ racing' = Racing(event \ revoked)
    /\ Becomes(Config, (IF event = revoked THEN <<>> ELSE AfterTrust(0)) \o ReconcilePass)
    /\ UNCHANGED <<admitted, event, past, issued, tableVars, diskVars, routes, open, bounds, missed>>

FinishReconcile(p) ==
    /\ AtStep(p, "finish")
    /\ reconcile' = IF reconcile = "serving" THEN "none" ELSE reconcile
    /\ Becomes(p, Done(p))
    /\ UNCHANGED <<logVars, issued, tableVars, diskVars, routes, open, bounds, missed, racing>>

\* pruneUnadmittedMembersLocked up to the lock it takes to delete, with the
\* rest of afterAdmissionStateChangedLocked, which goes on when sessions could
\* not be closed.  The merges of admitPendingMembers close the sessions of the
\* members they admit; that this is done once more is left out.
ReadUnadmitted(p) ==
    LET g == Head(todo[p]).group
        bad == {i \in IX : members[i] # 0 /\ ~VerifyAdmission(i)}
        waiting == {i \in IX : parked[i] # 0}
    IN
    /\ AtStep(p, "read unadmitted")
    /\ Becomes(p, (IF bad = {} THEN <<>> ELSE <<Do("delete", bad, 0, g)>>)
                  \o <<Do("admit", waiting, 0, g)>>
                  \o (IF bad = {} THEN <<>> ELSE <<Plain("persist", g), Plain("close untrusted", 8)>>)
                  \o Steps(<<"persist parked", "snapshot">>, g) \o Done(p))
    /\ UNCHANGED <<logVars, issued, tableVars, diskVars, routes, open, reconcile, bounds, missed, racing>>

\* pruneRevokedMembers and pruneInvalidPendingMembers up to their deletes, and
\* the rest of enforceRuntimeTrustState, with the snapshot of
\* afterTrustStateChangedLocked.  pruneRevokedConfigSigners may fail before
\* anything is written, and may change the signers.
ReadRevoked(p) ==
    LET g == Head(todo[p]).group
        bad == {i \in IX : members[i] # 0 /\ ~Verify(i)}
        badParked == {i \in IX : parked[i] # 0 /\ ~VerifyBase(i)}
    IN
    /\ AtStep(p, "read revoked")
    /\ \E signers \in BOOLEAN :
          Becomes(p, (IF bad = {} THEN <<>> ELSE <<Do("delete", bad, 0, g)>>)
                     \o (IF badParked = {} THEN <<>> ELSE <<Do("drop parked", badParked, 0, g)>>)
                     \o <<Plain("signers", g)>>
                     \o (IF bad = {} THEN <<>> ELSE <<Plain("persist", g)>>)
                     \o (IF badParked = {} THEN <<>> ELSE <<Plain("persist parked", g)>>)
                     \o (IF bad = {} /\ ~signers THEN <<>> ELSE <<Plain("close untrusted", g)>>)
                     \o (IF g = 2 THEN <<>> ELSE <<Plain("snapshot", g)>>) \o Done(p))
    /\ UNCHANGED <<logVars, issued, tableVars, diskVars, routes, open, reconcile, bounds, missed, racing>>

\* The deletes by ID, whatever version is in the table by then; admitPendingMembers
\* reads its IDs next.
Delete(p) ==
    LET ixs == Head(todo[p]).ixs  rest == Done(p) IN
    /\ AtStep(p, "delete")
    /\ members' = [i \in IX |-> IF i \in ixs THEN 0 ELSE members[i]]
    /\ open' = open \union {i \in ixs : members[i] # 0}
    /\ Becomes(p, IF Head(rest).op # "admit" THEN rest
                  ELSE <<[Head(rest) EXCEPT !.ixs = {i \in IX : parked[i] # 0}]>> \o Tail(rest))
    /\ UNCHANGED <<logVars, issued, parked, diskVars, routes, reconcile, bounds, missed, racing>>

DropParked(p) ==
    /\ AtStep(p, "drop parked")
    /\ parked' = [i \in IX |-> IF i \in Head(todo[p]).ixs THEN 0 ELSE parked[i]]
    /\ Becomes(p, Done(p))
    /\ UNCHANGED <<logVars, issued, members, diskVars, routes, open, reconcile, bounds, missed, racing>>

PruneSigners(p) ==
    /\ AtStep(p, "signers")
    /\ Becomes(p, Done(p))
    /\ UNCHANGED <<logVars, issued, tableVars, diskVars, routes, open, reconcile, bounds, missed, racing>>

\* admitPendingMembers takes the IDs it read in turn: mergePendingAdvertisement
\* merges the version that waits by then, if any, and a merge that fails does
\* not keep it from the next one.
AdmitPending(p) ==
    LET ixs == Head(todo[p]).ixs IN
    /\ AtStep(p, "admit")
    /\ IF ixs = {} THEN Becomes(p, Done(p))
       ELSE \E i \in ixs :
              LET merge == IF parked[i] = 0 THEN <<>>
                           ELSE <<Do("verify", {i}, parked[i], 7)>>
              IN Becomes(p, merge \o <<[Head(todo[p]) EXCEPT !.ixs = ixs \ {i}]>> \o Done(p))
    /\ UNCHANGED <<logVars, issued, tableVars, diskVars, routes, open, reconcile, bounds, missed, racing>>

-----------------------------------------------------------------------------
\* Mutant: what the files hold is taken over as it is.
LoadAll(f, kept) == [i \in IX |-> IF i \in kept THEN f[i] ELSE 0]

\* loadPersistedMembers, which checks against the trust of the configuration
\* file, and the pruning by the log's latest trust event, which is put in force
\* next: what expired or verifies against one of them no more is dropped.  The
\* file revokes nobody.  kept are the IXs whose record is still within its TTL.
Load(f, kept) == [i \in IX |-> IF i \in kept /\ i \notin event /\ VerifyAdmission(i) THEN f[i] ELSE 0]

\* loadPersistedPendingMembers: what verifies by now is dropped too.
LoadParked(f, kept, bad) ==
    [i \in IX |-> IF i \in kept /\ i \notin bad /\ ~VerifyAdmission(i) THEN f[i] ELSE 0]

\* The process dies and starts again.  The members are loaded and pruned; then
\* restoreLatestLocalDesiredFromLogLocked puts the trust section of the latest
\* desired event in force, which is the trust of the moment it was applied; the
\* parked advertisements are loaded, the files written back and the first
\* snapshot built.  No session of before is left.
Restart ==
    /\ crashes < MaxCrashes /\ crashes' = crashes + 1
    /\ revoked' \in past
    /\ \E kept, keptParked \in SUBSET IX :
          /\ members' = Load(file, kept)
          /\ parked' = LoadParked(parkedFile, keptParked, revoked')
    /\ file' = members' /\ parkedFile' = parked' /\ routes' = members'
    /\ open' = {} /\ reconcile' = "none" /\ missed' = FALSE /\ racing' = {}
    /\ todo' = [p \in Procs |-> <<>>]
    /\ UNCHANGED <<admitted, event, past, issued, changes, faults>>

Step(p) ==
    \/ VerifyStep(p) \/ Park(p) \/ Store(p) \/ Persist(p) \/ PersistParked(p) \/ Close(p)
    \/ Snapshot(p) \/ (\E dead \in SUBSET IX : Expire(p, dead)) \/ FinishReconcile(p) \/ ReadUnadmitted(p) \/ ReadRevoked(p)
    \/ Delete(p) \/ DropParked(p) \/ PruneSigners(p) \/ AdmitPending(p)

Next ==
    \/ \E i \in IX :
          \/ Issue(i) \/ ChangeAdmission(i) \/ ChangeTrust(i)
          \/ \E v \in 1 .. MaxVersion : Poll(i, v) \/ \E p \in Handlers : Post(p, i, v)
          \/ \E p \in Handlers : MemberDelete(p, i)
    \/ \E p \in Procs : Step(p) \/ Fails(p)
    \/ BeginReconcile \/ Restart

Spec == Init /\ [][Next]_vars

\* Goroutines go on, the tickers of the poller and of the reconcile worker keep
\* firing, a record that is not refreshed expires at some round of the poller,
\* and each IX keeps pushing its current advertisement; a handler is always
\* found for it, since every request has its own goroutine.
ExpireOne(i) == \E dead \in SUBSET IX : i \in dead /\ Expire(Poller, dead)
PollAny == \E i \in IX, v \in 1 .. MaxVersion : Poll(i, v)
PostCurrent(i) == \E p \in Handlers : Post(p, i, issued[i])
Fairness ==
    /\ \A p \in Procs : WF_vars(Step(p))
    /\ WF_vars(BeginReconcile) /\ WF_vars(PollAny)
    /\ \A i \in IX : SF_vars(ExpireOne(i)) /\ SF_vars(PostCurrent(i))
FairSpec == Spec /\ Fairness

-----------------------------------------------------------------------------
Op == {"verify", "park", "store", "persist", "persist parked", "close", "close untrusted",
       "snapshot", "expire", "finish", "read unadmitted", "read revoked", "delete",
       "drop parked", "signers", "admit"}

\* The state of the member table and its goroutines is well typed; nothing is
\* stored or parked that its IX did not issue.
TypeOK ==
    /\ \A S \in past \union {admitted, revoked, event, open, racing} : S \subseteq IX
    /\ issued \in [IX -> 1 .. MaxVersion]
    /\ \A f \in {members, parked, file, parkedFile, routes} :
          f \in [IX -> Version] /\ \A i \in IX : f[i] <= issued[i]
    /\ \A p \in Procs : \A k \in DOMAIN todo[p] :
          todo[p][k].op \in Op /\ todo[p][k].ixs \subseteq IX /\ todo[p][k].v \in Version
    /\ reconcile \in {"none", "asked", "serving"} /\ missed \in BOOLEAN

\* Nobody is in the middle of anything and no reconcile is owed.
Quiet == reconcile = "none" /\ \A p \in Procs : todo[p] = <<>>

\* When the daemon is quiet, the files hold what memory holds, whatever merges,
\* prunings and deletions raced to write them and whichever of the writes
\* failed: persistMembers reads the table under the lock of the file, and a
\* failed write leaves a reconcile behind.
SavedWhenQuiet == Quiet => file = members /\ parkedFile = parked

\* And the dataplane has the routes of the members that are there; a snapshot
\* that failed in pollPeers is the one failure that nobody repairs.
RoutedWhenQuiet == Quiet /\ ~missed => routes = members

\* As long as no step failed, a quiet daemon has closed the sessions of every
\* advertisement that was replaced by one with another surface, expired or was
\* pruned; only a pruned member that is also a configured peer keeps them.
ClosedWhenQuiet == Quiet /\ faults = 0 => \A i \in open : i \in StaticPeer /\ members[i] = 0

\* A quiet daemon has no member that lost its admission or was revoked, whatever
\* merges, failed steps, reconcile passes and restarts came between the change
\* and the pruning (pruneUnadmittedMembersLocked, pruneRevokedMembers,
\* loadPersistedMembers).  Only a merge that was verified before the change and
\* stored after it leaves one; and of the revocations, only while the trust in
\* force is that of the log, which a restart may replace by an older one.
PruningComplete ==
    Quiet => \A i \in IX \ racing :
                members[i] # 0 => VerifyAdmission(i) /\ (revoked = event => VerifyBase(i))

\* An IX that stays revoked or unadmitted is out of the table in the end, even
\* when a merge that was verified before the revocation is stored after the
\* pruning: its record is not refreshed any more and expires.
RevokedGoes == \A i \in IX : <>[](~Verify(i)) => <>[](members[i] = 0)

\* An IX that stays admitted gets into the table and comes back after every
\* expiry, even when its advertisement was parked just after the admission's
\* follow-up looked for it.
AdmittedJoins == \A i \in IX : <>[](Verify(i)) => []<>(members[i] # 0)

\* "existing dynamic members are checked again after an admission changed ...
\* and those that do not match any more are cleaned up": a quiet daemon has no
\* member without an admission.
QuietMembersAdmitted == Quiet => \A i \in IX : members[i] # 0 => VerifyAdmission(i)

\* "revoked dynamic members and their data sessions are cleaned up": a quiet
\* daemon holds no data session of an IX that was pruned.
PrunedSessionsClosed ==
    Quiet => \A i \in open : members[i] # 0 \/ i \in StaticPeer
=============================================================================
