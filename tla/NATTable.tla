------------------------------ MODULE NATTable ------------------------------
(***************************************************************************)
(* The daemon's NAT table and the copy of it that the LAN egress program   *)
(* of the dataplane translates replies with.  A packet worker updates the  *)
(* table under the table's lock; only when the update reports a change     *)
(* does it take a snapshot of the table and apply it, two steps later and  *)
(* under other locks.  A copy carries its own expiry and is not renewed by *)
(* the packets that renew the table's binding.                             *)
(***************************************************************************)
EXTENDS Naturals, FiniteSets

CONSTANTS
    Keys,         \* translated address, remote address, protocol and ports
    Hosts,        \* LAN hosts
    Workers,      \* goroutines that handle packets
    Operators,    \* workers that also apply configurations
    Settings,     \* [limit, ttl]: lan.nat.max_bindings and binding_ttl
    MaxTime,      \* bound: the last instant
    MaxReconfigs, \* bound: configurations applied
    MaxFailures   \* bound: snapshots the dataplane refuses

None == "none"  \* no host

VARIABLES
    now,       \* the clock
    cfg,       \* the settings in force
    table,     \* key -> [original, created, seen]; it expires at seen + ttl
    dp,        \* key -> [original, expires]: the binding map of the dataplane
    worker,    \* what each worker is doing
    used,      \* history: when a key was last used and by which host
    refused,   \* history: the last snapshot was refused
    reconfigs, failures

vars == <<now, cfg, table, dp, worker, used, refused, reconfigs, failures>>
bounds == <<reconfigs, failures>>

\* undo holds the settings to go back to when the snapshot is refused.
Idle == [at |-> "idle", snap |-> <<>>, key |-> None, owner |-> None, undo |-> {}]

Init ==
    /\ now = 0 /\ cfg \in Settings /\ table = <<>> /\ dp = <<>>
    /\ worker = [w \in Workers |-> Idle]
    /\ used = [k \in Keys |-> [at |-> 0, host |-> None]]
    /\ refused = FALSE /\ reconfigs = 0 /\ failures = 0

Only(t, S) == [k \in S |-> t[k]]

\* Mutant: the oldest binding is the one created first.
NoYoungerByCreation(t, k, j) == t[k].created <= t[j].created

\* evictOldestLocked: k goes no later than j (ties in both instants go by map order).
NoYounger(t, k, j) ==
    t[k].seen < t[j].seen \/ (t[k].seen = t[j].seen /\ t[k].created <= t[j].created)

\* The tables that evicting down to n bindings can leave.
Evicted(t, n) ==
    {Only(t, S) : S \in {S \in SUBSET DOMAIN t :
        /\ Cardinality(S) = IF Cardinality(DOMAIN t) <= n THEN Cardinality(DOMAIN t) ELSE n
        /\ \A k \in DOMAIN t \ S, j \in S : NoYounger(t, k, j)}}

Pruned(t, c) == Only(t, {k \in DOMAIN t : now < t[k].seen + c.ttl})

\* configure: every expiry recomputed, then the limit; no change is reported.
Configured(c) == Evicted(Pruned(table, c), c.limit)

\* Half of the TTL or less is left.
Refresh(b) == (b.seen + cfg.ttl) - now <= cfg.ttl \div 2

\* Mutant: another host on the same key is no change.
UpsertChangedByKey(t, k, h) == k \notin DOMAIN t \/ Refresh(t[k])

\* What upsert reports, an eviction apart.
UpsertChanged(t, k, h) == k \notin DOMAIN t \/ Refresh(t[k]) \/ t[k].original # h

Written(t, k, b) == [j \in DOMAIN t \union {k} |-> IF j = k THEN b ELSE t[j]]

\* applyOutboundNAT or mirrorOutboundNATFromCapture: ensureNATTable, upsert.
Outbound(w, k, h) ==
    /\ worker[w].at = "idle"
    /\ \E t \in Configured(cfg) :
         LET full == k \notin DOMAIN t /\ Cardinality(DOMAIN t) >= cfg.limit IN
         \E kept \in IF full THEN Evicted(t, Cardinality(DOMAIN t) - 1) ELSE {t} :
           /\ table' = Written(kept, k,
                [original |-> h, seen |-> now,
                 created |-> IF k \in DOMAIN kept THEN kept[k].created ELSE now])
           /\ worker' = [worker EXCEPT ![w].at =
                IF full \/ UpsertChanged(kept, k, h) THEN "snapshot" ELSE "idle"]
    /\ used' = [used EXCEPT ![k] = [at |-> now, host |-> h]]
    /\ UNCHANGED <<now, cfg, dp, refused, bounds>>

\* inboundNATBinding: ensureNATTable, lookup.  A reply without a binding goes the local way.
Inbound(w, k) ==
    /\ worker[w].at = "idle"
    /\ \E t \in Configured(cfg) :
         IF k \in DOMAIN t
         THEN /\ table' = Written(t, k, [t[k] EXCEPT !.seen = now])
              /\ used' = [used EXCEPT ![k].at = now]
              /\ worker' = [worker EXCEPT ![w] =
                   [Idle EXCEPT !.at = IF Refresh(t[k]) THEN "snapshot" ELSE "inject",
                                !.key = k, !.owner = t[k].original]]
         ELSE table' = t /\ UNCHANGED <<worker, used>>
    /\ UNCHANGED <<now, cfg, dp, refused, bounds>>

\* runtimeDataplaneSnapshot: the live bindings with their expiries.
Snapshot(w) ==
    /\ worker[w].at = "snapshot"
    /\ table' = Pruned(table, cfg)
    /\ worker' = [worker EXCEPT ![w].at = "apply", ![w].snap =
         [k \in DOMAIN table' |->
            [original |-> table[k].original, expires |-> table[k].seen + cfg.ttl]]]
    /\ UNCHANGED <<now, cfg, dp, used, refused, bounds>>

Synced(w) == IF worker[w].key = None THEN Idle ELSE [worker[w] EXCEPT !.at = "inject", !.snap = <<>>]

\* ApplyNATSnapshot, or ApplySnapshot's part of it: the map becomes the
\* snapshot's unexpired bindings.
Apply(w) ==
    /\ worker[w].at = "apply"
    /\ dp' = Only(worker[w].snap, {k \in DOMAIN worker[w].snap : now < worker[w].snap[k].expires})
    /\ refused' = FALSE
    /\ worker' = [worker EXCEPT ![w] = Synced(w)]
    /\ UNCHANGED <<now, cfg, table, used, bounds>>

\* ApplyNATSnapshot or ApplySnapshot refuses and puts the previous bindings back.
\* A packet worker only counts it; a new configuration is taken back and the
\* snapshot of the previous one applied (restoreDesiredRuntime), whose refusal is
\* left to a later reconcile.
ApplyFails(w) ==
    /\ worker[w].at = "apply" /\ failures < MaxFailures
    /\ failures' = failures + 1 /\ refused' = TRUE
    /\ \/ /\ worker[w].undo = {}
          /\ worker' = [worker EXCEPT ![w] = Synced(w)]
          /\ UNCHANGED <<cfg, table>>
       \/ \E c \in worker[w].undo :
          /\ cfg' = c /\ table' \in Configured(c)
          /\ worker' = [worker EXCEPT ![w] = [Idle EXCEPT !.at = "snapshot"]]
    /\ UNCHANGED <<now, dp, used, reconfigs>>

\* The lookup of the LAN egress program: an expired binding is a miss.
EgressDNAT(k) == IF k \in DOMAIN dp /\ now <= dp[k].expires THEN dp[k].original ELSE None

\* InjectNATPacket, and the daemon's own DNAT when the map holds no binding.
SentTo(w) == IF DOMAIN dp = {} THEN worker[w].owner ELSE EgressDNAT(worker[w].key)

Inject(w) ==
    /\ worker[w].at = "inject"
    /\ worker' = [worker EXCEPT ![w] = Idle]
    /\ UNCHANGED <<now, cfg, table, dp, used, refused, bounds>>

\* Mutant: a new configuration does not apply the dataplane snapshot.
ReconfigureAlone(w, c) ==
    /\ worker[w].at = "idle" /\ w \in Operators /\ reconfigs < MaxReconfigs /\ c # cfg
    /\ cfg' = c /\ table' \in Configured(c) /\ reconfigs' = reconfigs + 1
    /\ UNCHANGED <<now, dp, worker, used, refused, failures>>

\* setRuntimeDesired configures the table; applyRuntimeDataplaneSnapshot follows.
Reconfigure(w, c) ==
    /\ worker[w].at = "idle" /\ w \in Operators /\ reconfigs < MaxReconfigs /\ c # cfg
    /\ cfg' = c /\ table' \in Configured(c) /\ reconfigs' = reconfigs + 1
    /\ worker' = [worker EXCEPT ![w] = [Idle EXCEPT !.at = "snapshot", !.undo = {cfg}]]
    /\ UNCHANGED <<now, dp, used, refused, failures>>

\* applyRuntimeDataplaneSnapshot with the settings in force: a reconcile, a
\* change of the members, of an endpoint's health or of the trust.
Reapply(w) ==
    /\ worker[w].at = "idle" /\ w \in Operators
    /\ worker' = [worker EXCEPT ![w].at = "snapshot"]
    /\ UNCHANGED <<now, cfg, table, dp, used, refused, bounds>>

\* Time passes; a worker takes no time between two of its steps.
Tick ==
    /\ now < MaxTime /\ \A w \in Workers : worker[w].at = "idle"
    /\ now' = now + 1
    /\ UNCHANGED <<cfg, table, dp, worker, used, refused, bounds>>

Next ==
    \/ \E w \in Workers :
         \/ \E k \in Keys : (\E h \in Hosts : Outbound(w, k, h)) \/ Inbound(w, k)
         \/ Snapshot(w) \/ Apply(w) \/ ApplyFails(w) \/ Inject(w)
         \/ \E c \in Settings : Reconfigure(w, c)
         \/ Reapply(w)
    \/ Tick

Spec == Init /\ [][Next]_vars

-----------------------------------------------------------------------------

\* A flow used within the TTL keeps its binding and its host while fewer other
\* flows than the limit allows were used since (upsert, lookup, configure and
\* evictOldestLocked; the settings stay the same).
FlowKept ==
    \A k \in Keys :
        LET since == {j \in Keys \ {k} : used[j].host # None /\ used[j].at >= used[k].at} IN
        (/\ used[k].host # None /\ now < used[k].at + cfg.ttl
         /\ reconfigs = 0 /\ Cardinality(since) < cfg.limit)
        => k \in DOMAIN table /\ table[k].original = used[k].host

\* When no synchronisation is under way and the last one was not refused, every
\* binding the egress program would still use is one of the table and names the
\* same host (what upsert and lookup report as changed, the silent removals of
\* configure, and a configuration that is taken back).
DataplaneAgrees ==
    (~refused /\ \A w \in Workers : worker[w].at \in {"idle", "inject"}) =>
    \A k \in DOMAIN dp :
        now < dp[k].expires => k \in DOMAIN table /\ dp[k].original = table[k].original

\* A reply the table has a binding for is sent to the binding's host.
RepliesTranslated == \A w \in Workers : worker[w].at = "inject" => SentTo(w) = worker[w].owner

=============================================================================
