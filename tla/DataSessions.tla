---------------------------- MODULE DataSessions ----------------------------
(***************************************************************************)
(* The data sessions with one peer: the table of sessions and runtimes     *)
(* (dataSessions and dataSessionState change together under dataMu), the   *)
(* single flight dial, the epoch and the peer's generation, sessions that  *)
(* come in, the receive loop of every session and the refill of the pool   *)
(* after it, the forward cache of the flows, the operations that close     *)
(* sessions, and the records of the sessions in the kernel datapath.       *)
(*                                                                         *)
(* What happens under dataMu is one step.  What a goroutine does after it  *)
(* has unlocked (cancel, Close, the kernel records under their own mutex)  *)
(* is the list todo, worked off in order, one step each.  The pool has one *)
(* slot for the dialed and one for the reverse session of the endpoint.    *)
(***************************************************************************)
EXTENDS Naturals, Sequences, FiniteSets, SequencesExt

CONSTANTS
    Flow,           \* flows that send; each has an entry of the forward cache
    Acceptor,       \* accept loops, one per listener
    Closer,         \* the goroutine that applies configurations and closes sessions
    Ticker,         \* the goroutine of the periodic kernel sync
    Nobody,         \* no goroutine
    PreferReverse,  \* preferReverseSessionForAddressedEndpoint
    KeepReverse,    \* shouldKeepExistingKernelUDPReverseSessionLocked
    MayLoseAddress, \* whether the peer's endpoint can have no address when a session comes in
    MaxSessions,    \* bound: sessions that are opened
    MaxCloses,      \* bound: operations that close sessions
    MaxRestarts,    \* bound: restarts of the peer
    MaxFails,       \* bound: sessions that fail by themselves
    MaxKernelFails  \* bound: writes the kernel refuses

Key == {"out", "rev"}
Id == 1..MaxSessions           \* a session, and the goroutines that serve it
Thread == Flow \union Acceptor \union Id \union {Closer}

VARIABLES
    table,       \* dataSessions: the session at each key, 0 for none
    sess,        \* every session opened so far
    epoch,       \* dataSessionEpoch
    generation,  \* peerSessionGeneration, 0 before the first session
    dial,        \* dataSessionDials: who dials, or Nobody
    cache,       \* forwardCache: the session of each flow, 0 for none
    kernel,      \* the session records of the kernel datapath
    kmu,         \* kernelDatapathStateMu: the holder and the table it has read
    inited,      \* kernelDatapathStateInitialized
    me,          \* each goroutine: where it is, its session, its epoch, what is left to do
    peerGen,     \* the generation of the peer's process
    closed,      \* history: the epoch after the last closing of the dialed session
    closes, fails, kfails

vars == <<table, sess, epoch, generation, dial, cache, kernel, kmu, inited, me, peerGen, closed,
          closes, fails, kfails>>
shared == <<table, epoch, generation, closed>>   \* guarded by dataMu
bounds == <<closes, fails, kfails>>
kvars == <<kernel, kmu, inited>>

Free == [who |-> Nobody, seen |-> [k \in Key |-> 0]]

Init ==
    /\ table = [k \in Key |-> 0] /\ sess = <<>> /\ epoch = 0 /\ generation = 0
    /\ dial = Nobody /\ cache = [f \in Flow |-> 0]
    /\ kernel = table /\ kmu = Free /\ inited = FALSE
    /\ me = [t \in Thread |-> [pc |-> IF t \in Id THEN "none" ELSE "idle",
                               s |-> 0, ep |-> 0, todo |-> <<>>]]
    /\ peerGen = 1 /\ closed = 0
    /\ closes = 0 /\ fails = 0 /\ kfails = 0

-----------------------------------------------------------------------------
At(t, pc) == me[t].pc = pc /\ me[t].todo = <<>>

\* Goroutine t goes on at pc, for session s, with ops left to do first.
Go(t, pc, s, ops) == [me EXCEPT ![t].pc = pc, ![t].s = s, ![t].todo = ops]

\* finalizeDroppedDataSessions: cancel, close and remove the records, per session.
Finalize(keys) ==
    FlattenSeq([i \in 1..Cardinality(keys) |->
        LET k == SetToSeq(keys)[i] IN <<<<"close", k, table[k]>>, <<"kdel", k, table[k]>>>>])

Stored == {k \in Key : table[k] # 0}

\* clearForwardCacheForSession for the given keys.
ClearCache(keys) ==
    cache' = [f \in Flow |-> IF cache[f] # 0 /\ sess[cache[f]].key \in keys THEN 0 ELSE cache[f]]

\* A session that is opened with the peer's present process.
Open(key, ep) == Append(sess, [key |-> key, gen |-> peerGen, born |-> ep,
                               open |-> TRUE, cancelled |-> FALSE])

Dead(s) == ~sess[s].open \/ sess[s].gen # peerGen

-----------------------------------------------------------------------------
\* A flow has a packet: a hit of the forward cache, or sendPacketByDecision.
Begin(f) ==
    /\ At(f, "idle")
    /\ me' = [me EXCEPT ![f].pc = IF cache[f] # 0 THEN "send" ELSE "lookup",
                        ![f].s = cache[f], ![f].ep = epoch]
    /\ UNCHANGED <<shared, sess, dial, cache, kvars, peerGen, bounds>>

\* The sessions sessionForEndpoint takes without a dial.
Existing == IF PreferReverse /\ table["rev"] # 0 THEN table["rev"] ELSE table["out"]

Lookup(f) ==
    /\ At(f, "lookup")
    /\ me' = IF Existing # 0 THEN Go(f, "send", Existing, <<>>) ELSE Go(f, "acquire", 0, <<>>)
    /\ UNCHANGED <<shared, sess, dial, cache, kvars, peerGen, bounds>>

\* warmSessionPool: done when nothing is missing or the epoch has changed.
Warm(t) ==
    /\ t \in Id /\ At(t, "warm")
    /\ me' = IF Existing # 0 \/ epoch # me[t].ep THEN Go(t, "end", 0, <<>>) ELSE Go(t, "acquire", 0, <<>>)
    /\ UNCHANGED <<shared, sess, dial, cache, kvars, peerGen, bounds>>

RequireEpoch(t) == t \in Id

\* acquireDataSessionDial; it waits while somebody dials.
Acquire(t) ==
    /\ At(t, "acquire")
    /\ IF RequireEpoch(t) /\ epoch # me[t].ep THEN me' = Go(t, "return", 0, <<>>) /\ dial' = dial
       ELSE IF table["out"] # 0 THEN me' = Go(t, "return", table["out"], <<>>) /\ dial' = dial
       ELSE dial = Nobody /\ dial' = t /\ me' = Go(t, "dial", 0, <<>>)
    /\ UNCHANGED <<shared, sess, cache, kvars, peerGen, bounds>>

\* The context of the caller ends while it waits.
AcquireTimeout(t) ==
    /\ At(t, "acquire") /\ dial # Nobody
    /\ me' = Go(t, "return", 0, <<>>)
    /\ UNCHANGED <<shared, sess, dial, cache, kvars, peerGen, bounds>>

Dial(t) ==
    /\ At(t, "dial") /\ Len(sess) < MaxSessions
    /\ sess' = Open("out", me[t].ep)
    /\ me' = Go(t, "store", Len(sess'), <<>>)
    /\ UNCHANGED <<shared, dial, cache, kvars, peerGen, bounds>>

\* The dial fails or its session is rejected: a reverse session will do.
DialFails(t) ==
    /\ At(t, "dial")
    /\ me' = Go(t, "return", table["rev"], <<>>)
    /\ UNCHANGED <<shared, sess, dial, cache, kvars, peerGen, bounds>>

\* observePeerDataSessionGenerationLocked: a new generation drops every session.
Changed(s) == generation # 0 /\ sess[s].gen # generation

\* The session is stored under the key, as the only one after a change; those at
\* the keys gone leave the table with it.
Keep(k, s, gone) ==
    /\ generation' = sess[s].gen
    /\ table' = [i \in Key |-> IF i = k THEN s ELSE IF Changed(s) \/ i \in gone THEN 0 ELSE table[i]]
    /\ epoch' = IF Changed(s) THEN epoch + 1 ELSE epoch

\* finishPeerDataSessionGenerationChange.
Finish(s) == IF Changed(s) THEN <<<<"flows">>>> \o Finalize(Stored) ELSE <<>>

\* Goroutine t goes on at pc for s, and the receive loop of session new begins.
Start(t, pc, s, new, ops) == [Go(t, pc, s, ops) EXCEPT ![new].pc = "recv"]

\* Mutant: a dialed session that is not needed is dropped without being closed.
StoreLeaks(t) ==
    LET s == me[t].s IN
    /\ At(t, "store")
    /\ IF epoch # me[t].ep
       THEN /\ me' = Go(t, "return", 0, <<>>)
            /\ UNCHANGED <<shared, cache>>
       ELSE /\ Keep("out", s, {}) /\ closed' = closed
            /\ (IF Changed(s) THEN ClearCache(Stored) ELSE cache' = cache)
            /\ me' = Start(t, "return", s, s, Finish(s) \o <<<<"kup", "out", s>>>>)
    /\ UNCHANGED <<sess, dial, kvars, peerGen, bounds>>

\* The end of sessionForEndpoint after the dial.  The check of the epoch before
\* the lock is not modelled: what it refuses the one under the lock refuses.
Store(t) ==
    LET s == me[t].s IN
    /\ At(t, "store")
    /\ IF epoch # me[t].ep
       THEN /\ me' = Go(t, "return", 0, <<<<"shut", "out", s>>>>)
            /\ UNCHANGED <<shared, cache>>
       ELSE IF table["out"] # 0 /\ ~Changed(s)
       THEN /\ me' = Go(t, "return", table["out"], <<<<"shut", "out", s>>>>)
            /\ generation' = sess[s].gen
            /\ UNCHANGED <<table, epoch, closed, cache>>
       ELSE /\ Keep("out", s, {}) /\ closed' = closed
            /\ (IF Changed(s) THEN ClearCache(Stored) ELSE cache' = cache)
            /\ me' = Start(t, "return", s, s, Finish(s) \o <<<<"kup", "out", s>>>>)
    /\ UNCHANGED <<sess, dial, kvars, peerGen, bounds>>

\* Mutant: only a dial that succeeded gives its turn back.
ReturnHolds(t) ==
    /\ At(t, "return")
    /\ dial' = IF dial = t /\ me[t].s # 0 THEN Nobody ELSE dial
    /\ \/ t \in Flow /\ me' = Go(t, IF me[t].s # 0 THEN "send" ELSE "idle", me[t].s, <<>>)
       \/ t \in Id /\ \E pc \in {"warm", "end"} : me' = Go(t, pc, 0, <<>>)
    /\ UNCHANGED <<shared, sess, cache, kvars, peerGen, bounds>>

\* sessionForEndpoint returns and releases the dial.  The packet goes out; the
\* warmup tries again unless its deadline is over.
Return(t) ==
    /\ At(t, "return")
    /\ dial' = IF dial = t THEN Nobody ELSE dial
    /\ \/ t \in Flow /\ me' = Go(t, IF me[t].s # 0 THEN "send" ELSE "idle", me[t].s, <<>>)
       \/ t \in Id /\ \E pc \in {"warm", "end"} : me' = Go(t, pc, 0, <<>>)
    /\ UNCHANGED <<shared, sess, cache, kvars, peerGen, bounds>>

\* sendDataSessionPacket.  A sent packet puts the session into the forward cache,
\* whatever has become of it; an error begins dropSession, which clears the
\* entries of the key before it takes the lock.
Send(f) ==
    LET s == me[f].s IN
    /\ At(f, "send")
    /\ \/ /\ sess[s].open
          /\ cache' = [cache EXCEPT ![f] = s]
          /\ me' = Go(f, "idle", 0, <<>>)
       \/ /\ Dead(s)
          /\ ClearCache({sess[s].key})
          /\ me' = Go(f, "dropkey", s, <<>>)
    /\ UNCHANGED <<shared, sess, dial, kvars, peerGen, bounds>>

\* dropSession(key): whatever session is at the key by now.
DropKey(f) ==
    LET k == sess[me[f].s].key IN
    /\ At(f, "dropkey")
    /\ table' = [table EXCEPT ![k] = 0]
    /\ me' = Go(f, "idle", 0, IF table[k] # 0 THEN Finalize({k}) ELSE <<<<"kdel", k, 0>>>>)
    /\ UNCHANGED <<epoch, generation, closed, sess, dial, cache, kvars, peerGen, bounds>>

-----------------------------------------------------------------------------
Accept(a) ==
    /\ At(a, "idle") /\ Len(sess) < MaxSessions
    /\ sess' = Open("rev", epoch)
    /\ me' = Go(a, "register", Len(sess'), <<>>)
    /\ UNCHANGED <<shared, dial, cache, kvars, peerGen, bounds>>

\* registerInboundDataSession, from the lock on.  A change of the generation that
\* drops a dialed session starts its warmup.  When the peer's endpoint has no
\* address, its dialed session is dropped (dropOutboundDataSessionsForInbound).
Register(a) ==
    LET s == me[a].s  old == IF Changed(s) THEN 0 ELSE table["rev"] IN
    /\ At(a, "register")
    /\ IF old # 0 /\ KeepReverse
       THEN /\ me' = Go(a, "idle", 0, <<<<"shut", "rev", s>>>>)
            /\ generation' = sess[s].gen
            /\ UNCHANGED <<table, epoch, closed, sess, cache>>
       ELSE \E gone \in {{}} \union (IF MayLoseAddress THEN {{"out"}} ELSE {}) :
            /\ Keep("rev", s, gone) /\ closed' = closed
            /\ sess' = IF old = 0 THEN sess ELSE [sess EXCEPT ![old].cancelled = TRUE]
            /\ ClearCache((IF Changed(s) THEN Stored ELSE {}) \union (gone \intersect Stored)
                            \union (IF PreferReverse THEN {"out"} ELSE {}))
            /\ me' = Start(a, "registered", IF Changed(s) THEN table["out"] ELSE 0, s,
                           Finish(s)
                             \o (IF old = 0 THEN <<>> ELSE <<<<"shut", "rev", old>>>>)
                             \o <<<<"kup", "rev", s>>>>
                             \o (IF Changed(s) THEN <<>> ELSE Finalize(gone \intersect Stored)))
    /\ UNCHANGED <<dial, kvars, peerGen, bounds>>

\* warmPeerDataSessionGenerationEndpoints, with the epoch as it is now.
Registered(a) ==
    LET old == me[a].s  next == Go(a, "idle", 0, <<>>) IN
    /\ At(a, "registered")
    /\ me' = IF old = 0 THEN next ELSE [next EXCEPT ![old].pc = "warm", ![old].ep = epoch]
    /\ UNCHANGED <<shared, sess, dial, cache, kvars, peerGen, bounds>>

-----------------------------------------------------------------------------
\* The receive loop or the heartbeat of session s fails: dropRuntimeSession
\* begins, and clears the forward cache before it takes the lock.
ReceiveFails(s) ==
    /\ s \in Id /\ At(s, "recv") /\ ~sess[s].cancelled
    /\ \/ Dead(s) /\ fails' = fails
       \/ fails < MaxFails /\ fails' = fails + 1
    /\ ClearCache({sess[s].key})
    /\ me' = Go(s, "drop", 0, <<>>)
    /\ UNCHANGED <<shared, sess, dial, kvars, peerGen, closes, kfails>>

\* dropRuntimeSession: only the runtime that is in the table.  The receive loop
\* closes its session in any case.
DropRuntime(s) ==
    LET k == sess[s].key IN
    /\ s \in Id /\ At(s, "drop")
    /\ IF table[k] = s
       THEN table' = [table EXCEPT ![k] = 0] /\ me' = Go(s, "refill", 0, Finalize({k}))
       ELSE table' = table /\ me' = Go(s, "end", 0, <<<<"shut", k, s>>>>)
    /\ UNCHANGED <<epoch, generation, closed, sess, dial, cache, kvars, peerGen, bounds>>

\* refillSessionPoolAfterRuntimeDrop reads the epoch as it is now.
Refill(s) ==
    /\ s \in Id /\ At(s, "refill")
    /\ me' = [me EXCEPT ![s].pc = IF sess[s].key = "out" THEN "warm" ELSE "end", ![s].ep = epoch]
    /\ UNCHANGED <<shared, sess, dial, cache, kvars, peerGen, bounds>>

-----------------------------------------------------------------------------
\* The operations that close the sessions at the given keys.
CloseAt(keys) ==
    /\ table' = [k \in Key |-> IF k \in keys THEN 0 ELSE table[k]]
    /\ epoch' = epoch + 1 /\ closed' = epoch'
    /\ me' = Go(Closer, "idle", 0, Finalize(Stored \intersect keys))
    /\ UNCHANGED <<generation, sess, dial, kvars, peerGen, fails, kfails>>

\* closeDataSessionsForPeers, and reconcileRouteSelectedOutboundSessions when the
\* routes no longer select the endpoint of the dialed session.
CloseForPeers ==
    /\ At(Closer, "idle") /\ closes < MaxCloses /\ closes' = closes + 1
    /\ ClearCache(Stored)
    /\ CloseAt(Key)

CloseUnselected ==
    /\ At(Closer, "idle") /\ closes < MaxCloses /\ closes' = closes + 1
    /\ table["out"] # 0
    /\ ClearCache({"out"})
    /\ CloseAt({"out"})

\* closeDataSessions clears the forward cache before it takes the lock.
CloseAllBegin ==
    /\ At(Closer, "idle") /\ closes < MaxCloses /\ closes' = closes + 1
    /\ cache' = [f \in Flow |-> 0]
    /\ me' = Go(Closer, "closeall", 0, <<>>)
    /\ UNCHANGED <<shared, sess, dial, kvars, peerGen, fails, kfails>>

CloseAll ==
    /\ At(Closer, "closeall")
    /\ CloseAt(Key)
    /\ UNCHANGED <<cache, closes>>

PeerRestart ==
    /\ peerGen <= MaxRestarts /\ peerGen' = peerGen + 1
    /\ UNCHANGED <<shared, sess, dial, cache, kvars, me, bounds>>

-----------------------------------------------------------------------------
\* The next unlocked operation of goroutine t.
Op(t) == Head(me[t].todo)
Doing(t, names) == me[t].todo # <<>> /\ Op(t)[1] \in names
Done(t) == [me EXCEPT ![t].todo = Tail(@)]

\* Mutant: the session is looked up again when it is closed.
CloseSessionByKey(t) ==
    LET now == table[Op(t)[2]]  s == IF now # 0 THEN now ELSE Op(t)[3] IN
    /\ Doing(t, {"close", "shut"})
    /\ sess' = [sess EXCEPT ![s].open = FALSE, ![s].cancelled = @ \/ Op(t)[1] = "close"]
    /\ me' = Done(t)
    /\ UNCHANGED <<shared, dial, cache, kvars, peerGen, bounds>>

\* Close, with the runtime cancelled before it or not.
CloseSession(t) ==
    /\ Doing(t, {"close", "shut"})
    /\ sess' = [sess EXCEPT ![Op(t)[3]].open = FALSE,
                            ![Op(t)[3]].cancelled = @ \/ Op(t)[1] = "close"]
    /\ me' = Done(t)
    /\ UNCHANGED <<shared, dial, cache, kvars, peerGen, bounds>>

\* clearFlowsForPeers.
ClearFlows(t) ==
    /\ Doing(t, {"flows"})
    /\ cache' = [f \in Flow |-> 0]
    /\ me' = Done(t)
    /\ UNCHANGED <<shared, sess, dial, kvars, peerGen, bounds>>

\* The kernel operations take their mutex and look at the table.
KernelLock(t) ==
    /\ Doing(t, {"kup", "kdel"}) /\ kmu = Free
    /\ kmu' = [who |-> t, seen |-> table]
    /\ UNCHANGED <<shared, sess, dial, cache, kernel, inited, me, peerGen, bounds>>

\* syncKernelDatapathSessionRecords writes the records of the current session only.
Upserted(k, s, seen) == IF seen[k] = s THEN [kernel EXCEPT ![k] = s] ELSE kernel

\* syncKernelDatapathSessionDelete leaves a session that is current alone, and
\* puts back the records of another one it finds.
Deleted(k, s, seen) == IF s # 0 /\ seen[k] = s THEN kernel ELSE [kernel EXCEPT ![k] = seen[k]]

Records(op, seen) ==
    IF op[1] = "kup" THEN Upserted(op[2], op[3], seen) ELSE Deleted(op[2], op[3], seen)

\* The records are written, or the kernel refuses them.  A session whose
\* readiness cannot be told to the peer is closed.
KernelApply(t) ==
    /\ kmu.who = t
    /\ kmu' = Free
    /\ \/ /\ kernel' = Records(Op(t), kmu.seen)
          /\ \/ me' = Done(t) /\ fails' = fails
             \/ /\ Op(t)[1] = "kup" /\ table[Op(t)[2]] = Op(t)[3]
                /\ fails < MaxFails /\ fails' = fails + 1
                /\ me' = [me EXCEPT ![t].todo = <<<<"shut", Op(t)[2], Op(t)[3]>>>> \o Tail(@)]
          /\ kfails' = kfails
       \/ /\ kfails < MaxKernelFails /\ kfails' = kfails + 1
          /\ me' = Done(t)
          /\ UNCHANGED <<kernel, fails>>
    /\ UNCHANGED <<shared, sess, dial, cache, inited, peerGen, closes>>

\* runKernelDatapathStateSync: the ticker takes the same mutex.
SyncLock ==
    /\ kmu = Free /\ kmu' = [who |-> Ticker, seen |-> table]
    /\ UNCHANGED <<shared, sess, dial, cache, kernel, inited, me, peerGen, bounds>>

Count(t) == Cardinality({k \in Key : t[k] # 0})

\* The records once those of the sessions at keys have been written.
Written(keys, seen) == [k \in Key |-> IF k \in keys /\ seen[k] # 0 THEN seen[k] ELSE kernel[k]]

\* The tables are cleared the first time, after a reset that failed, and when the
\* counts disagree before the records are written and after it.
Resets(seen) ==
    ~inited \/ (Count(kernel) # Count(seen) /\ Count(Written(Key, seen)) # Count(seen))

\* syncKernelDatapathStateLocked.  It may fail with some of the records written;
\* a reset may fail before it has cleared the tables or after.
SyncApply ==
    LET seen == kmu.seen IN
    /\ kmu.who = Ticker /\ kmu' = Free
    /\ \/ /\ kernel' = IF Resets(seen) THEN seen ELSE Written(Key, seen)
          /\ inited' = TRUE /\ kfails' = kfails
       \/ /\ kfails < MaxKernelFails /\ kfails' = kfails + 1
          /\ \E keys \in SUBSET Key :
                \/ inited /\ kernel' = Written(keys, seen) /\ inited' = inited
                \/ /\ Resets(seen) /\ inited' = FALSE
                   /\ \/ kernel' = IF inited THEN Written(Key, seen) ELSE kernel
                      \/ kernel' = [k \in Key |-> IF k \in keys THEN seen[k] ELSE 0]
    /\ UNCHANGED <<shared, sess, dial, cache, me, peerGen, closes, fails>>

Caller(t) == Acquire(t) \/ Dial(t) \/ DialFails(t) \/ Store(t) \/ Return(t)
Sender(f) == Begin(f) \/ Lookup(f) \/ Send(f) \/ DropKey(f)
Receiver(s) == DropRuntime(s) \/ Refill(s) \/ Warm(s)
Listener(a) == Register(a) \/ Registered(a)
Work(t) == CloseSession(t) \/ ClearFlows(t) \/ KernelLock(t) \/ KernelApply(t)
Closing == CloseForPeers \/ CloseUnselected \/ CloseAllBegin

Next ==
    \/ \E f \in Flow : Sender(f)
    \/ \E t \in Flow \union Id : Caller(t) \/ AcquireTimeout(t)
    \/ \E s \in Id : ReceiveFails(s) \/ Receiver(s)
    \/ \E a \in Acceptor : Accept(a) \/ Listener(a)
    \/ \E t \in Thread : Work(t)
    \/ Closing \/ CloseAll \/ PeerRestart \/ SyncLock \/ SyncApply

Spec == Init /\ [][Next]_vars

Notices(s) == s \in DOMAIN sess /\ Dead(s) /\ ReceiveFails(s)

\* Goroutines that run go on, the mutex is fair, the receive loops and heartbeats notice a dead
\* session, and the ticker of the kernel state fires.
FlowStep(f) == Lookup(f) \/ Send(f) \/ DropKey(f)
Unlocked(t) == CloseSession(t) \/ ClearFlows(t) \/ KernelApply(t)
LockAny == \E t \in Thread : KernelLock(t)
FairSpec ==
    /\ Spec
    /\ \A f \in Flow : WF_vars(FlowStep(f))
    /\ \A t \in Flow \union Id : WF_vars(Caller(t))
    /\ \A s \in Id : WF_vars(Receiver(s)) /\ WF_vars(Notices(s))
    /\ \A a \in Acceptor : WF_vars(Listener(a))
    /\ \A t \in Thread : WF_vars(Unlocked(t))
    /\ SF_vars(LockAny) /\ SF_vars(SyncLock)
    /\ WF_vars(CloseAll) /\ WF_vars(SyncApply)

-----------------------------------------------------------------------------
TypeOK ==
    /\ table \in [Key -> 0..Len(sess)] /\ kernel \in [Key -> 0..Len(sess)]
    /\ sess \in Seq([key : Key, gen : 1..MaxRestarts + 1, born : 0..epoch,
                     open : BOOLEAN, cancelled : BOOLEAN])
    /\ Len(sess) <= MaxSessions
    /\ generation \in 0..peerGen /\ closed \in 0..epoch
    /\ dial \in Flow \union Id \union {Nobody}
    /\ cache \in [Flow -> 0..Len(sess)]
    /\ kmu.who \in Thread \union {Ticker, Nobody} /\ kmu.seen \in [Key -> 0..Len(sess)]
    /\ inited \in BOOLEAN

\* No goroutine is in the middle of an operation.
Quiet ==
    /\ \A t \in Thread : me[t].todo = <<>> /\ me[t].pc \in {"idle", "none", "recv", "end"}
    /\ kmu.who \in {Nobody, Ticker}

\* No session leaks: once nothing is in progress, the sessions that are open are
\* those of the table, whichever of dial, accept, generation, drop and close met.
NoLeakWhenQuiet == Quiet => \A s \in DOMAIN sess : sess[s].open => table[sess[s].key] = s

\* A session of the table is served: its runtime has not been cancelled, and the
\* receive loop that removes it when it fails still runs.
TableServed ==
    \A k \in Key : table[k] # 0 => ~sess[table[k]].cancelled /\ me[table[k]].pc \in {"recv", "drop"}

\* The table never mixes the sessions of two processes of the peer, and the
\* generation that was noted is theirs.
OneGeneration == \A k \in Key : table[k] # 0 => sess[table[k]].gen = generation

\* A dial that began before the sessions were closed never brings one back.
ClosedStaysClosed == table["out"] # 0 => sess[table["out"]].born >= closed

\* Upserts and deletes of the kernel records come after the table has been
\* unlocked, in any order: once nothing is in progress they agree with it.
KernelAgreesWhenQuiet == Quiet /\ kmu = Free /\ kfails = 0 => kernel = table

\* The turn to dial is always given back, whatever becomes of the dial.
DialReleased == []<>(dial = Nobody)

\* Records the kernel refused, or that stayed behind, are repaired by the ticker.
KernelHeals == <>[](kernel = table)
=============================================================================
