----------------------------- MODULE MCControl ------------------------------
(***************************************************************************)
(* What has to happen in the end on the control plane: RuntimeReconcile    *)
(* for a pass over three aspects ("reconcile"); MemberGossip for a hub     *)
(* with two leaves behind NAT ("gossip"), for a pair that loses requests   *)
(* and restarts ("loss"), and for a leaf that leaves ("ghosts");           *)
(* MemberPaging for five members, of which the client is the second        *)
(* ("paging").                                                             *)
(*                                                                         *)
(* A behaviour is one of part's component; the others stay in their        *)
(* initial states, and only the steps of part's component are fair.        *)
(***************************************************************************)
EXTENDS RuntimeReconcile

CONSTANTS trust, dataplane, advertisement, hub, b, c

VARIABLES
    part,
    ad, gone, members, pushed, poll, clock, rejoins, crashes, lapses, losses,
    have, stored, cursor, got, pages, imported, changes

gossipVars == <<ad, gone, members, pushed, poll, clock, rejoins, crashes, lapses, losses>>
pagingVars == <<have, stored, cursor, got, pages, imported, changes>>
MCSteps == <<trust, dataplane, advertisement>>

Hub(nodes) == [n \in nodes |-> IF n = hub THEN {} ELSE {hub}]

\* The leaves are behind NAT: only the hub's control API can be reached.  Only b
\* issues another advertisement, with the head of the first one.
Gossip == INSTANCE MemberGossip WITH
    Node <- {hub, b, c}, StaticTarget <- Hub({hub, b, c}),
    Reach <- Hub({hub, b, c}), MaxIssues <- 1, MaxRejoins <- 0, MaxCrashes <- 0, MaxLeaves <- 0,
    MaxLapses <- 0, MaxLosses <- 0

\* Both reach each other; at most two crashes, expiries and lost requests.
Loss == INSTANCE MemberGossip WITH
    Node <- {hub, b}, StaticTarget <- Hub({hub, b}),
    Reach <- [n \in {hub, b} |-> {hub, b} \ {n}], MaxIssues <- 0, MaxRejoins <- 1, MaxCrashes <- 1,
    MaxLeaves <- 0, MaxLapses <- 1, MaxLosses <- 1

\* Only c is behind NAT, and the hub does not leave.
Ghosts == INSTANCE MemberGossip WITH
    Node <- {hub, b, c}, StaticTarget <- Hub({hub, b, c}),
    Reach <- [n \in {hub, b, c} |-> IF n = hub THEN {b} ELSE {hub}], MaxIssues <- 0, MaxRejoins <- 0,
    MaxCrashes <- 0, MaxLeaves <- 1, MaxLapses <- 0, MaxLosses <- 0

Paging == INSTANCE MemberPaging WITH
    Ids <- 1 .. 5, Own <- 2, PageSize <- 2, ImportLimit <- 3, MaxPages <- 2, MaxChanges <- 2

MCInit ==
    /\ Init
    /\ part \in {"reconcile", "gossip", "loss", "ghosts", "paging"}
    /\ IF part = "loss" THEN Loss!Init ELSE Gossip!Init
    /\ Paging!Init /\ (part # "paging" => have = {})

MCNext ==
    /\ UNCHANGED part
    /\ \/ part = "reconcile" /\ Next /\ UNCHANGED <<gossipVars, pagingVars>>
       \/ /\ UNCHANGED <<vars, pagingVars>>
          /\ \/ part = "gossip" /\ Gossip!Next /\ ad'[hub] = ad[hub] /\ ad'[c] = ad[c]
                /\ ad'[b].seq = ad[b].seq
             \/ part = "loss" /\ Loss!Next /\ crashes' + lapses' + losses' <= 2
             \/ part = "ghosts" /\ Ghosts!Next /\ hub \notin gone'
       \/ part = "paging" /\ Paging!Next /\ UNCHANGED <<vars, gossipVars>>

\* The fairness of each component (FairSpec, and Spec of MemberPaging), while it
\* is the one that moves.
PollStep(n) ==
    \/ part = "gossip" /\ Gossip!PollStep(n)
    \/ part = "loss" /\ n # c /\ Loss!PollStep(n)
    \/ part = "ghosts" /\ Ghosts!PollStep(n)

ExpireUnrefreshed(n, m) ==
    \/ part = "gossip" /\ Gossip!ExpireUnrefreshed(n, m)
    \/ part = "loss" /\ {n, m} = {hub, b} /\ Loss!ExpireUnrefreshed(n, m)
    \/ part = "ghosts" /\ Ghosts!ExpireUnrefreshed(n, m)

MCFairness ==
    /\ WF_vars(part = "reconcile" /\ WorkerStep)
    /\ \A k \in Callers : WF_vars(part = "reconcile" /\ CallerStep(k))
    /\ \A n \in {hub, b, c} :
          /\ WF_gossipVars(PollStep(n))
          /\ \A m \in {hub, b, c} \ {n} : WF_gossipVars(ExpireUnrefreshed(n, m))
    /\ WF_pagingVars(part = "paging" /\ Paging!Begin) /\ SF_pagingVars(part = "paging" /\ Paging!FetchPage)

MCFairSpec == MCInit /\ [][MCNext]_<<part, vars, gossipVars, pagingVars>> /\ MCFairness

-----------------------------------------------------------------------------
\* Once nothing changes any more, two IXs one of which polls the other hold each
\* other's current advertisement for good, whatever was lost on the way, although
\* an advertisement that was acknowledged is not pushed again; IXs that know each
\* other only through a common neighbour see each other's current advertisement
\* again and again; and an IX that left disappears from every table, although its
\* neighbours tell each other of it as long as they hold it.
GossipConverges ==
    /\ <>[](/\ part = "gossip" => Gossip!NeighboursHold
            /\ part = "loss" => Loss!NeighboursHold
            /\ part = "ghosts" => Ghosts!NoGhosts)
    /\ []<>(part = "gossip" => Gossip!Holds(b, c))
    /\ []<>(part = "gossip" => Gossip!Holds(c, b))

\* Every member that stays is imported again and again, although the table
\* changes between the pages and a fetch ends in the middle of the list.
NobodyStarves == Paging!NobodyStarves
=============================================================================
