--------------------------- MODULE MCSessionsLive ---------------------------
(***************************************************************************)
(* What has to happen in the end to the members and their sessions:        *)
(* Membership for one remote IX ("members"); DataSessions for a flow and a *)
(* listener, with a close and a record the kernel refuses ("sessions").    *)
(*                                                                         *)
(* A behaviour is one of part's component; the other one stays in its      *)
(* initial state, and only the steps of part's component are fair.         *)
(***************************************************************************)
EXTENDS Naturals

CONSTANTS closing, ticking, noThread, flow1, accept1, x

VARIABLES
    part,
    admitted, revoked, event, past, issued, members, parked, file, parkedFile, routes, open, todo, reconcile,
    changes, faults, crashes, missed, racing,
    table, sess, epoch, generation, dial, cache, kernel, kmu, inited, me, peerGen, closed, closes, fails, kfails

memberVars == <<admitted, revoked, event, past, issued, members, parked, file, parkedFile, routes, open, todo,
                reconcile, changes, faults, crashes, missed, racing>>
sessionVars == <<table, sess, epoch, generation, dial, cache, kernel, kmu, inited, me, peerGen, closed,
                 closes, fails, kfails>>

Members == INSTANCE Membership WITH
    IX <- {x}, StaticPeer <- {}, Poller <- "poll", Handlers <- {"post"}, Config <- "config",
    Surface <- [i \in {x} |-> <<1>>], MaxVersion <- 1, MaxChanges <- 1, MaxFaults <- 0, MaxCrashes <- 0

Sessions == INSTANCE DataSessions WITH
    Closer <- closing, Ticker <- ticking, Nobody <- noThread,
    Flow <- {flow1}, Acceptor <- {accept1}, PreferReverse <- FALSE, KeepReverse <- FALSE,
    MayLoseAddress <- FALSE, MaxSessions <- 2, MaxCloses <- 1, MaxRestarts <- 0, MaxFails <- 0, MaxKernelFails <- 1

MCInit ==
    /\ part \in {"members", "sessions"}
    /\ Members!Init /\ (part = "sessions" => admitted = {})
    /\ Sessions!Init

MCNext ==
    /\ UNCHANGED part
    /\ \/ part = "members" /\ Members!Next /\ UNCHANGED sessionVars
       \/ part = "sessions" /\ Sessions!Next /\ UNCHANGED memberVars

moving == <<memberVars, sessionVars>>

\* A step of part's component.
M(step) == part = "members" /\ step /\ UNCHANGED sessionVars
S(step) == part = "sessions" /\ step /\ UNCHANGED memberVars

\* The fairness of each component (their FairSpec), while it is the one that
\* moves; a conjunct about two is about the one that does.
MCFairness ==
    /\ \A p \in {"poll", "post", "config"} : WF_moving(M(Members!Step(p)))
    /\ WF_moving(M(Members!BeginReconcile))
    /\ WF_moving(M(Members!PollAny))
    /\ WF_moving(S(Sessions!CloseAll)) /\ WF_moving(S(Sessions!SyncApply))
    /\ WF_moving(S(Sessions!FlowStep(flow1)))
    /\ \A t \in {flow1, 1, 2} : WF_moving(S(Sessions!Caller(t)))
    /\ \A s \in {1, 2} : WF_moving(S(Sessions!Receiver(s))) /\ WF_moving(S(Sessions!Notices(s)))
    /\ WF_moving(S(Sessions!Listener(accept1)))
    /\ \A t \in Sessions!Thread : WF_moving(S(Sessions!Unlocked(t)))
    /\ SF_moving(M(Members!ExpireOne(x)) \/ S(Sessions!LockAny))
    /\ SF_moving(M(Members!PostCurrent(x)) \/ S(Sessions!SyncLock))

MCFairSpec == MCInit /\ [][MCNext]_<<part, moving>> /\ MCFairness

-----------------------------------------------------------------------------
\* An IX that stays revoked or unadmitted is out of the table in the end, even
\* when a merge verified before the revocation is stored after the pruning; one
\* that stays admitted gets into the table and comes back after every expiry,
\* even when it was parked just after the admission's follow-up.
MembersFollowTrust ==
    /\ <>[](part = "members" /\ ~Members!Verify(x)) => <>[](members[x] = 0)
    /\ <>[](part = "members" /\ Members!Verify(x)) => []<>(members[x] # 0)

\* The turn to dial is always given back, whatever becomes of the dial, and
\* records the kernel refused, or that stayed behind, are repaired by the ticker
\* (acquireDataSessionDial, syncKernelDatapathState).
SessionsHeal == []<>(dial = noThread) /\ <>[](kernel = table)
=============================================================================
