---------------------------- MODULE MemberGossip ----------------------------
(***************************************************************************)
(* How advertisements spread (internal/daemon/peer.go, membership.go and   *)
(* the control API): each IX polls its control targets in turn, pushes its *)
(* own advertisement when the target has not acknowledged this one yet,    *)
(* fetches the members the target knows at first hand, pushes again if it  *)
(* is not among them, and merges what it got.                              *)
(*                                                                         *)
(* Requests or their answers are lost; an answer is merged                 *)
(* after the tables moved on; IXs restart with what members.json kept, and *)
(* leave for good.  Everybody is admitted here; admission, files and locks *)
(* are the subject of Membership, pages that of MemberPaging.              *)
(*                                                                         *)
(* Time: a record expires memberRecordTTL (4 polls) after it was last      *)
(* refreshed.  Records of IXs that are up and polled or pushing at first   *)
(* hand expire only MaxLapses times; all others may at any time.           *)
(***************************************************************************)
EXTENDS Naturals, FiniteSets

CONSTANTS
    Node,
    StaticTarget, \* StaticTarget[n]: the peers and bootstrap peers n is configured with
    Reach,        \* Reach[n]: the IXs whose control API n can connect to
    MaxIssues,    \* bound: advertisements issued after the first ones
    MaxRejoins,   \* bound: rejoins to another, not longer, log
    MaxCrashes,   \* bound: restarts
    MaxLeaves,    \* bound: IXs that leave for good
    MaxLapses,    \* bound: expiries of the record of an IX that is there
    MaxLosses     \* bound: requests to an IX that is there that fail

VARIABLES
    ad,       \* ad[n]: the local advertisement: head [seq, hash] and issue time
    gone,     \* the IXs that left
    members,  \* members[n][m]: Unknown, or what n holds of m
    pushed,   \* controlAdPush: pushed[n][t] is what t acknowledged to n
    poll,     \* poll[n]: what the poller of n is doing
    clock,    \* history: advertisements issued; the time of the next one
    rejoins, crashes, lapses, losses

vars == <<ad, gone, members, pushed, poll, clock, rejoins, crashes, lapses, losses>>

Unknown == [at |-> 0]
Idle == [pc |-> "push", left |-> {}]
Clock == 1 .. MaxIssues + MaxRejoins + 1

Init ==
    /\ ad = [n \in Node |-> [seq |-> 1, hash |-> 1, at |-> 1]]
    /\ gone = {}
    /\ members = [n \in Node |-> [m \in Node |-> Unknown]]
    /\ pushed = [n \in Node |-> [m \in Node |-> Unknown]]
    /\ poll = [n \in Node |-> Idle]
    /\ clock = 1 /\ rejoins = 0 /\ crashes = 0 /\ lapses = 0 /\ losses = 0

Up(n) == n \notin gone

\* controlTargetsForDesired: the configured targets and the control APIs of the
\* members; the fanout that selectDynamicControlTargets may set is not reached.
ControlTargets(n) == StaticTarget[n] \union {m \in Node : members[n][m] # Unknown}

\* advertisementNewer.
AdvertisementNewer(existing, candidate) ==
    IF candidate.seq # existing.seq THEN candidate.seq > existing.seq
    ELSE candidate.hash # existing.hash \/ candidate.at > existing.at

\* mergeAdvertisementWithOptions: what is left in the record of an IX when an
\* advertisement arrives, at first hand (refreshing LastSeen) or by a relay.
Merged(record, candidate, direct) ==
    IF record = Unknown THEN [ad |-> candidate, direct |-> direct, at |-> 1]
    ELSE [record EXCEPT !.direct = @ \/ direct,
                        !.ad = IF AdvertisementNewer(@, candidate) THEN candidate ELSE @]

\* Mutant: whatever is in the table is passed on.
ResponseAll(t, n) ==
    {<<t, ad[t]>>} \union {<<m, members[t][m].ad>> : m \in {x \in Node : members[t][x] # Unknown}}

\* controlMembersResponse: the server's own advertisement and the members it
\* knows at first hand.  Indirect ones are not passed on.
Response(t, n) ==
    {<<t, ad[t]>>}
    \union {<<m, members[t][m].ad>> : m \in {x \in Node : members[t][x] # Unknown /\ members[t][x].direct}}

-----------------------------------------------------------------------------
\* refreshLocalAdvertisement after the log grew, or with the same head.
Issue(n) ==
    /\ Up(n) /\ clock <= MaxIssues + rejoins /\ clock' = clock + 1
    /\ \E grown \in {0, 1} :
          ad' = [ad EXCEPT ![n] = [seq |-> @.seq + grown, at |-> clock',
                                   hash |-> IF grown = 1 THEN clock' ELSE @.hash]]
    /\ UNCHANGED <<gone, members, pushed, poll, rejoins, crashes, lapses, losses>>

\* A rejoin replaced the log of n by one that is not longer.
Rejoin(n) ==
    /\ Up(n) /\ rejoins < MaxRejoins /\ rejoins' = rejoins + 1 /\ clock' = clock + 1
    /\ \E seq \in 1 .. ad[n].seq :
          ad' = [ad EXCEPT ![n] = [seq |-> seq, hash |-> clock', at |-> clock']]
    /\ UNCHANGED <<gone, members, pushed, poll, crashes, lapses, losses>>

\* A request from n to t: it arrives unless t cannot be reached or it is lost,
\* and then the answer may be lost.
Request(n, t, delivered, acked) ==
    \/ t \in Reach[n] /\ Up(t) /\ delivered /\ acked /\ UNCHANGED losses
    \/ ~(t \in Reach[n] /\ Up(t)) /\ ~delivered /\ ~acked /\ UNCHANGED losses
    \/ /\ t \in Reach[n] /\ Up(t) /\ ~acked
       /\ losses < MaxLosses /\ losses' = losses + 1

\* pollPeers takes its targets at the beginning of a round.
BeginRound(n) ==
    /\ Up(n) /\ poll[n] = Idle
    /\ ControlTargets(n) # {}
    /\ poll' = [poll EXCEPT ![n].left = ControlTargets(n)]
    /\ UNCHANGED <<ad, gone, members, pushed, clock, rejoins, crashes, lapses, losses>>

\* The turn of one target begins with pushLocalAdvertisement, which reaches
\* handleControlAdvertisementPost at t.  shouldPushLocalAdvertisement skips what
\* the target has acknowledged, unless the push interval is over.
Push(n, t) ==
    /\ Up(n) /\ poll[n].pc = "push" /\ t \in poll[n].left
    /\ poll' = [poll EXCEPT ![n] = [pc |-> "fetch", left |-> @.left \ {t}, target |-> t]]
    /\ \/ pushed[n][t] = ad[n] /\ UNCHANGED <<members, pushed, losses>>
       \/ \E delivered, acked \in BOOLEAN :
             /\ Request(n, t, delivered, acked)
             /\ members' = IF delivered THEN [members EXCEPT ![t][n] = Merged(@, ad[n], TRUE)]
                           ELSE members
             /\ pushed' = IF acked THEN [pushed EXCEPT ![n][t] = ad[n]] ELSE pushed
    /\ UNCHANGED <<ad, gone, clock, rejoins, crashes, lapses>>

\* fetchMembers; when the members are not answered, fetchSingleAdvertisement asks
\* for the target's own advertisement, and an error of both ends its turn.
Fetch(n) ==
    /\ Up(n) /\ poll[n].pc = "fetch"
    /\ LET t == poll[n].target
           answered(ads) == [pc |-> "merge", left |-> poll[n].left, target |-> t, ads |-> ads]
       IN
       \E delivered, acked \in BOOLEAN :
          /\ Request(n, t, delivered, acked)
          /\ \/ acked /\ poll' = [poll EXCEPT ![n] = answered(Response(t, n))]
             \/ ~acked /\ t \in Reach[n] /\ Up(t) /\ poll' = [poll EXCEPT ![n] = answered({<<t, ad[t]>>})]
             \/ ~acked /\ poll' = [poll EXCEPT ![n] = [pc |-> "push", left |-> @.left]]
    /\ UNCHANGED <<ad, gone, members, pushed, clock, rejoins, crashes, lapses>>

\* Mutant: an advertisement of the IX itself that came back is merged.
MergeAllOwn(n, t, ads) ==
    [m \in Node |->
        IF ~\E a \in ads : a[1] = m THEN members[n][m]
        ELSE Merged(members[n][m], (CHOOSE a \in ads : a[1] = m)[2], m = t)]

\* Mutant: only the target's own advertisement is taken.
MergeAllDirect(n, t, ads) ==
    [m \in Node |->
        IF m # t \/ ~\E a \in ads : a[1] = m THEN members[n][m]
        ELSE Merged(members[n][m], (CHOOSE a \in ads : a[1] = m)[2], m = t)]

\* The merges of one answer; the IX's own advertisement is skipped.
MergeAll(n, t, ads) ==
    [m \in Node |->
        IF m = n \/ ~\E a \in ads : a[1] = m THEN members[n][m]
        ELSE Merged(members[n][m], (CHOOSE a \in ads : a[1] = m)[2], m = t)]

NextTarget(n) == poll' = [poll EXCEPT ![n] = [pc |-> "push", left |-> @.left]]

\* Mutant: an IX that is missing from the answer waits for the push interval.
MergeWithoutRepush(n) ==
    /\ Up(n) /\ poll[n].pc = "merge"
    /\ members' = [members EXCEPT ![n] = MergeAll(n, poll[n].target, poll[n].ads)]
    /\ NextTarget(n)
    /\ UNCHANGED <<ad, gone, pushed, clock, rejoins, crashes, lapses, losses>>

\* The rest of the turn: if n is not among the members the target answered,
\* forgetLocalAdvertisementPush and another push; then
\* mergeAdvertisementFromControlTarget for each advertisement.
Merge(n) ==
    /\ Up(n) /\ poll[n].pc = "merge"
    /\ LET t == poll[n].target  ads == poll[n].ads
           mine == [members EXCEPT ![n] = MergeAll(n, t, ads)]
       IN
       \/ /\ \E a \in ads : a[1] = n
          /\ members' = mine /\ UNCHANGED <<pushed, losses>>
       \/ /\ ~\E a \in ads : a[1] = n
          /\ \E delivered, acked \in BOOLEAN :
                /\ Request(n, t, delivered, acked)
                /\ members' = IF delivered THEN [mine EXCEPT ![t][n] = Merged(@, ad[n], TRUE)] ELSE mine
                /\ pushed' = [pushed EXCEPT ![n][t] = IF acked THEN ad[n] ELSE Unknown]
    /\ NextTarget(n)
    /\ UNCHANGED <<ad, gone, clock, rejoins, crashes, lapses>>

\* Whether something at n keeps refreshing m: m pushes to n or n polls m.
FirstHand(n, m) == Up(m) /\ (n \in Reach[m] \/ m \in Reach[n])

\* pruneExpiredMembers at n finds that m was not refreshed for memberRecordTTL.
Expire(n, m) ==
    /\ Up(n) /\ members[n][m] # Unknown
    /\ IF FirstHand(n, m) /\ members[n][m].direct
       THEN lapses < MaxLapses /\ lapses' = lapses + 1
       ELSE UNCHANGED lapses
    /\ members' = [members EXCEPT ![n][m] = Unknown]
    /\ UNCHANGED <<ad, gone, pushed, poll, clock, rejoins, crashes, losses>>

\* A restart: caches and the turn are lost, and the records that expired.
Restart(n) ==
    /\ Up(n) /\ crashes < MaxCrashes /\ crashes' = crashes + 1
    /\ \E kept \in SUBSET Node :
          members' = [members EXCEPT ![n] = [m \in Node |-> IF m \in kept THEN @[m] ELSE Unknown]]
    /\ pushed' = [pushed EXCEPT ![n] = [m \in Node |-> Unknown]]
    /\ poll' = [poll EXCEPT ![n] = Idle]
    /\ UNCHANGED <<ad, gone, clock, rejoins, lapses, losses>>

\* An IX stops and does not come back.
Leave(n) ==
    /\ Up(n) /\ Cardinality(gone) < MaxLeaves
    /\ gone' = gone \union {n}
    /\ members' = [members EXCEPT ![n] = [m \in Node |-> Unknown]]
    /\ poll' = [poll EXCEPT ![n] = Idle]
    /\ UNCHANGED <<ad, pushed, clock, rejoins, crashes, lapses, losses>>

Next == \E n \in Node :
    \/ Issue(n) \/ Rejoin(n) \/ Restart(n) \/ Leave(n)
    \/ BeginRound(n) \/ Fetch(n) \/ Merge(n)
    \/ \E t \in Node : Push(n, t) \/ Expire(n, t)

Spec == Init /\ [][Next]_vars

\* The poller's ticker keeps firing and a round takes every target, and records
\* that nothing refreshes expire.
PollStep(n) == BeginRound(n) \/ Fetch(n) \/ Merge(n) \/ \E t \in Node : Push(n, t)
ExpireUnrefreshed(n, m) == Expire(n, m) /\ ~(FirstHand(n, m) /\ members[n][m].direct)
Fairness == \A n \in Node :
    WF_vars(PollStep(n)) /\ \A m \in Node \ {n} : WF_vars(ExpireUnrefreshed(n, m))
FairSpec == Spec /\ Fairness

-----------------------------------------------------------------------------
\* Tables, caches and pollers are well typed, and nobody is a member of itself.
TypeOK ==
    /\ \A n \in Node : ad[n] \in [seq : Clock, hash : Clock, at : Clock]
    /\ gone \subseteq Node
    /\ \A n, m \in Node :
          /\ members[n][m] = Unknown \/ (m # n /\ members[n][m].ad.at <= ad[m].at
                                      /\ members[n][m].direct \in BOOLEAN)
          /\ pushed[n][m] = Unknown \/ pushed[n][m].at <= ad[n].at
    /\ \A n \in Node : poll[n].pc \in {"push", "fetch", "merge"}

NoGhosts == \A n \in Node, m \in gone : members[n][m] = Unknown

\* An IX that left disappears from every table, although its neighbours tell
\* each other of it as long as they hold it: what is known at second hand is
\* neither refreshed nor passed on.
GhostsVanish == <>[]NoGhosts

Holds(n, m) == members[n][m] # Unknown /\ members[n][m].ad = ad[m]

NeighboursHold ==
    \A n \in Node : \A m \in StaticTarget[n] : Up(n) /\ Up(m) => Holds(n, m) /\ Holds(m, n)

\* "a hub that restarts recovers its members": once nothing changes any more, two
\* IXs one of which polls the other hold each other's current advertisement for
\* good, whatever was lost on the way and although an advertisement that was
\* acknowledged is not pushed again.
NeighboursConverge == <>[]NeighboursHold

Neighbours(t) == {n \in Node : t \in StaticTarget[n]}

\* And those that know each other only through a common neighbour see each
\* other's current advertisement again and again: their records expire and are
\* learnt again.
RelayedConverge ==
    \A t \in Node : \A n \in Neighbours(t) : \A m \in Neighbours(t) \ {n} :
        []<>(Up(n) /\ Up(m) /\ Up(t) => Holds(n, m))
=============================================================================
