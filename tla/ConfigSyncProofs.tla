-------------------------- MODULE ConfigSyncProofs --------------------------
(***************************************************************************)
(* Proofs about ConfigSync for any set of IXs, any number of requests per  *)
(* IX, any events and any bounds: the inductive invariant, log matching,   *)
(* that nobody commits twice for the same position, that logs only grow and*)
(* that what a sync reports is true.                                       *)
(***************************************************************************)
EXTENDS ConfigSync, TLAPS, WellFoundedInduction

\* A non-empty set of natural numbers has a least element.
LEMMA LeastElement ==
    ASSUME NEW T, T \subseteq Nat, T # {}
    PROVE  \E x \in T : \A y \in T : x <= y
  <1>1. PICK x \in T : \A y \in T : ~(<<y, x>> \in OpToRel(<, Nat))
    BY WFMin, NatLessThanWellFounded, Zenon
  <1>2. \A y \in T : ~(y < x)
    BY <1>1, Zenon DEF OpToRel
  <1> QED
    BY <1>2

\* Two chains that hold the same event at a position hold the same events at
\* every position before it: what MemoryStore.AppendBatch checks of each event
\* against its predecessor alone makes whole prefixes agree.
LEMMA ChainsAgree ==
    ASSUME NEW s \in Seq(Event), NEW t \in Seq(Event), IsChain(s), IsChain(t),
           NEW k \in 1 .. Len(s), k <= Len(t), s[k] = t[k]
    PROVE  \A m \in 1 .. k : s[m] = t[m]
  <1> DEFINE Bad == {n \in Nat : n < k /\ s[k - n] # t[k - n]}
  <1> SUFFICES ASSUME Bad # {} PROVE FALSE
    <2>1. ASSUME NEW m \in 1 .. k PROVE s[m] = t[m]
      <3>1. k - m \in Nat /\ k - m < k /\ k - (k - m) = m
        OBVIOUS
      <3> QED
        BY <3>1, Zenon
    <2> QED
      BY <2>1
  <1>1. PICK n \in Bad : \A y \in Bad : n <= y
    <2> HIDE DEF Bad
    <2>1. Bad \subseteq Nat
      BY DEF Bad
    <2> QED
      BY <2>1, LeastElement, Zenon
  <1>2. n # 0
    BY <1>1
  <1>3. n - 1 \notin Bad /\ n - 1 \in Nat /\ n - 1 < k
    <2>1. n \in Nat /\ n < k
      OBVIOUS
    <2>2. n - 1 \in Nat /\ n - 1 < k /\ ~(n <= n - 1)
      BY <1>2, <2>1
    <2> HIDE DEF Bad
    <2>3. n - 1 \notin Bad
      BY <1>1, <2>2
    <2> QED BY <2>2, <2>3
  <1>4. s[k - (n - 1)] = t[k - (n - 1)]
    BY <1>3
  <1> DEFINE j == k - (n - 1)
  <1>5. j \in 2 .. Len(s) /\ j <= Len(t) /\ k - n = j - 1
    BY <1>1, <1>2
  <1>6. Links(s, j) /\ Links(t, j)
    <2>1. j \in 1 .. Len(s) /\ j \in 1 .. Len(t)
      BY <1>5
    <2> HIDE DEF j
    <2> QED BY <2>1 DEF IsChain
  <1>7. Hash(s[j - 1]) = Hash(t[j - 1])
    BY <1>4, <1>5, <1>6 DEF Links, PrevHash
  <1>8. s[j - 1] = t[j - 1]
    BY <1>5, <1>7, HashAssumption, SMTT(60)
  <1> QED
    BY <1>1, <1>5, <1>8

\* Appending a batch that MemoryStore.AppendBatch accepts to a chain gives a
\* chain that has the old log as a prefix.
LEMMA AppendKeepsChain ==
    ASSUME NEW s \in Seq(Event), NEW events \in Seq(Event),
           IsChain(s), CanAppend(s, events)
    PROVE  /\ s \o events \in Seq(Event)
           /\ IsChain(s \o events)
           /\ IsPrefixOf(s, s \o events)
  <1> DEFINE new == s \o events
  <1>1. /\ new \in Seq(Event) /\ Len(new) = Len(s) + Len(events)
        /\ \A k \in 1 .. Len(s) : new[k] = s[k]
    OBVIOUS
  <1>2. ASSUME NEW k \in 1 .. Len(new) PROVE Links(new, k)
    <2>1. CASE k \in 1 .. Len(s)
      <3>1. Links(s, k)
        BY <2>1 DEF IsChain
      <3>2. new[k] = s[k] /\ (k # 1 => new[k - 1] = s[k - 1])
        BY <1>1, <2>1
      <3> QED
        BY <3>1, <3>2 DEF Links, PrevHash
    <2>2. CASE k \in Len(s) + 1 .. Len(s) + Len(events)
      BY <2>2 DEF CanAppend
    <2> QED
      BY <1>1, <2>1, <2>2
  <1> QED
    BY <1>1, <1>2 DEF IsChain, IsPrefixOf

\* What MemoryStore.Range returns is a sequence of events.
LEMMA RangeOf ==
    ASSUME NEW S, NEW s \in Seq(S), NEW m \in Nat, NEW n \in Nat, m # 0, n <= Len(s)
    PROVE  SubSeq(s, m, n) \in Seq(S)
  OBVIOUS

\* A log begins what extends it.
LEMMA ConcatExtends ==
    ASSUME NEW S, NEW s \in Seq(S), NEW x \in Seq(S)
    PROVE  IsPrefixOf(s, s \o x)
  BY DEF IsPrefixOf

\* Where a concatenation begins and ends its second part.
LEMMA ConcatEnds ==
    ASSUME NEW s \in Seq(Event), NEW t \in Seq(Event), Len(t) >= 1
    PROVE  /\ s \o t \in Seq(Event) /\ Len(s \o t) = Len(s) + Len(t)
           /\ (s \o t)[Len(s) + 1] = t[1]
           /\ (s \o t)[Len(s) + Len(t)] = t[Len(t)]
  OBVIOUS

\* Every log is a prefix of itself.
LEMMA PrefixReflexive ==
    ASSUME NEW s \in Seq(Event) PROVE IsPrefixOf(s, s)
  BY DEF IsPrefixOf

GoodLog(s) == s \in Seq(Event) /\ IsChain(s) /\ s # <<>> /\ s[1] = Genesis

\* The logs and what a power loss may leave of them.
LogInv ==
    /\ log \in [IX -> Seq(Event)] /\ stable \in [IX -> SUBSET Seq(Event)]
    /\ spent \in [rejoins : Nat, crashes : Nat, lost : Nat, unsure : Nat]
    /\ \A i \in IX : /\ GoodLog(log[i])
                     /\ \A s \in stable[i] : GoodLog(s)
                     /\ log[i] \in stable[i]
                     /\ spent.unsure = 0 => stable[i] = {log[i]}

\* What a worker remembers was true of the log it was read from.
RecOK(me) ==
    /\ me.pc # "idle" => me.peer \in IX /\ GoodLog(me.seen)
    /\ me.pc \in {"compare", "fetch", "after"} => me.remote = LogHead(me.seen)
    /\ me.pc = "append" => /\ InRange(me.seen, me.from, me.remote.seq)
                           /\ me.events = LogRange(me.seen, me.from, me.remote.seq)
    /\ me.pc = "push" => /\ me.remote.seq < Len(me.seen)
                         /\ me.events = LogRange(me.seen, me.remote.seq + 1, Len(me.seen))
    /\ me.pc = "replace" => me.events = me.seen

WorkInv ==
    /\ work \in [IX -> [Worker -> WorkerRec]]
    /\ \A i \in IX, w \in Worker :
          /\ RecOK(work[i][w])
          /\ work[i][w].pc = "replace" => w \in Requests /\ spent.rejoins > 0

MiscInv ==
    /\ report \in ReportRec
    /\ late \subseteq [to : IX, events : Seq(Event)]
    /\ committed \subseteq Event

\* Until a rejoin or a lost commit, whatever an IX signed and committed is in its log.
OwnInv ==
    spent.rejoins = 0 /\ spent.lost = 0 =>
        \A e \in committed : \/ e = Genesis
                             \/ e.by \in IX /\ \E k \in 1 .. Len(log[e.by]) : log[e.by][k] = e

\* The inductive invariant.
IInv == LogInv /\ WorkInv /\ MiscInv /\ OwnInv

-----------------------------------------------------------------------------
\* The head of a log a worker reads is well typed, and for a chain its
\* sequence number is the length.
LEMMA HeadOfGood ==
    ASSUME NEW s, GoodLog(s)
    PROVE  /\ LogHead(s) \in [seq : Nat, hash : {NoHash} \union {Hash(e) : e \in Event}]
           /\ LogHead(s).seq = Len(s) /\ LogHead(s).hash = Hash(s[Len(s)])
           /\ Len(s) \in Nat /\ Len(s) > 0
  <1>1. s \in Seq(Event) /\ Len(s) \in Nat /\ Len(s) > 0
    BY DEF GoodLog
  <1>2. s[Len(s)].seq = Len(s) /\ s[Len(s)] \in Event
    BY <1>1 DEF GoodLog, IsChain, Links
  <1> QED
    BY <1>1, <1>2 DEF LogHead, GoodLog

\* What an accepted batch appends keeps a log good.
LEMMA AppendGood ==
    ASSUME NEW s, NEW events \in Seq(Event), GoodLog(s), CanAppend(s, events)
    PROVE  GoodLog(s \o events) /\ IsPrefixOf(s, s \o events)
  <1>1. s \in Seq(Event) /\ Len(s) > 0
    BY DEF GoodLog
  <1>2. (s \o events)[1] = s[1] /\ s \o events # <<>>
    BY <1>1
  <1> QED
    BY <1>1, <1>2, AppendKeepsChain DEF GoodLog

\* The resting record.
LEMMA RestingOK == Resting \in WorkerRec /\ RecOK(Resting) /\ Resting.pc = "idle"
  <1>1. <<>> \in Seq(Event)
    OBVIOUS
  <1> QED
    BY <1>1 DEF Resting, WorkerRec, RecOK, ZeroHead

\* What is known of every worker.
LEMMA WorkerFacts ==
    ASSUME WorkInv, NEW i \in IX, NEW w \in Worker
    PROVE  work[i][w] \in WorkerRec /\ RecOK(work[i][w])
  <1>1. work[i] \in [Worker -> WorkerRec]
    BY Zenon DEF WorkInv
  <1>2. RecOK(work[i][w])
    BY Zenon DEF WorkInv
  <1> QED
    BY <1>1, <1>2, Zenon

LEMMA RecFacts ==
    ASSUME NEW me \in WorkerRec
    PROVE  me.events \in Seq(Event) /\ me.from \in Nat /\ me.remote.seq \in Nat
  <1>1. me.events \in Seq(Event) /\ me.from \in Nat
    BY DEF WorkerRec
  <1>2. me.remote \in [seq : Nat, hash : {NoHash} \union {Hash(e) : e \in Event}]
    BY SMTT(30) DEF WorkerRec
  <1> QED
    BY <1>1, <1>2

\* What a worker's step leaves of the other workers.
LEMMA StepInv ==
    ASSUME WorkInv, spent'.rejoins >= spent.rejoins, spent.rejoins \in Nat, spent'.rejoins \in Nat,
           NEW i \in IX, NEW w \in Worker, NEW STATE rec, rec \in WorkerRec, RecOK(rec),
           rec.pc = "replace" => w \in Requests /\ spent'.rejoins > 0,
           Step(i, w, rec)
    PROVE  /\ WorkInv' /\ work'[i][w] = rec
           /\ \A j \in IX, v \in Worker : (j # i \/ v # w) => work'[j][v] = work[j][v]
  <1>1. /\ work' \in [IX -> [Worker -> WorkerRec]] /\ work'[i][w] = rec
        /\ \A j \in IX, v \in Worker : (j # i \/ v # w) => work'[j][v] = work[j][v]
    BY DEF WorkInv, Step
  <1>2. ASSUME NEW j \in IX, NEW v \in Worker
        PROVE  RecOK(work'[j][v]) /\ (work'[j][v].pc = "replace" => v \in Requests /\ spent'.rejoins > 0)
    <2>1. CASE j = i /\ v = w
      BY <1>1, <2>1
    <2>2. CASE j # i \/ v # w
      BY <1>1, <2>2 DEF WorkInv
    <2> QED
      BY <2>1, <2>2
  <1> QED
    BY <1>1, <1>2 DEF WorkInv, RecOK, GoodLog

\* A step that neither starts a rejoin nor counts one.
LEMMA QuietStep ==
    ASSUME WorkInv, spent'.rejoins = spent.rejoins, spent.rejoins \in Nat,
           NEW i \in IX, NEW w \in Worker, NEW STATE rec, rec \in WorkerRec, RecOK(rec),
           rec.pc # "replace", Step(i, w, rec)
    PROVE  WorkInv'
  <1>1. spent'.rejoins >= spent.rejoins
    OBVIOUS
  <1> QED
    BY <1>1, StepInv, Zenon

\* The record a finished sync leaves is a resting or a preflighting one.
LEMMA AfterSyncOK ==
    ASSUME WorkInv, NEW i \in IX, NEW w \in Worker, NEW st
    PROVE  AfterSync(i, w, st) \in WorkerRec /\ RecOK(AfterSync(i, w, st)) /\ AfterSync(i, w, st).pc = "idle"
  <1>1. work[i][w] \in WorkerRec /\ work[i][w].todo \in SUBSET IX
    BY DEF WorkInv, WorkerRec
  <1>2. \A t \in SUBSET IX :
           /\ [Resting EXCEPT !.task = "mutate", !.todo = t] \in WorkerRec
           /\ [Resting EXCEPT !.task = "mutate", !.todo = t].pc = "idle"
    BY RestingOK, Zenon DEF Resting, WorkerRec
  <1>3. \A me \in WorkerRec : me.pc = "idle" => RecOK(me)
    BY DEF RecOK
  <1> QED
    BY <1>1, <1>2, <1>3, RestingOK, Zenon DEF AfterSync

\* A worker that finishes, and what is recorded of it.
LEMMA FinishInv ==
    ASSUME WorkInv, UNCHANGED spent \/ spent'.rejoins = spent.rejoins, spent.rejoins \in Nat,
           NEW i \in IX, NEW w \in Worker, NEW st \in Statuses, work[i][w].pc # "idle",
           Finish(i, w, st)
    PROVE  /\ WorkInv' /\ work'[i][w].pc = "idle"
           /\ report' \in ReportRec
           /\ report'.status = st
           /\ \A j \in IX, v \in Worker : (j # i \/ v # w) => work'[j][v] = work[j][v]
  <1> DEFINE rec == AfterSync(i, w, st)
  <1>1. rec \in WorkerRec /\ RecOK(rec) /\ rec.pc = "idle" /\ Step(i, w, rec)
    BY AfterSyncOK DEF Finish
  <1>2. /\ WorkInv' /\ work'[i][w] = rec
        /\ \A j \in IX, v \in Worker : (j # i \/ v # w) => work'[j][v] = work[j][v]
    <2> HIDE DEF rec
    <2> QED
      BY <1>1, StepInv
  <1>3. work[i][w].peer \in IX
    BY DEF WorkInv, RecOK
  <1> QED
    BY <1>1, <1>2, <1>3 DEF Finish, ReportRec

\* A commit of a good log keeps the logs good.
LEMMA CommitInv ==
    ASSUME LogInv, NEW i \in IX, NEW STATE new, GoodLog(new), NEW durable \in BOOLEAN,
           Commit(i, new, durable)
    PROVE  /\ LogInv' /\ log' = [log EXCEPT ![i] = new]
           /\ spent'.rejoins = spent.rejoins /\ spent'.lost = spent.lost
  <1>1. /\ spent' \in [rejoins : Nat, crashes : Nat, lost : Nat, unsure : Nat]
        /\ spent'.rejoins = spent.rejoins /\ spent'.lost = spent.lost
        /\ spent'.unsure = IF durable THEN spent.unsure ELSE spent.unsure + 1
        /\ spent.unsure \in Nat
    <2>1. spent \in [rejoins : Nat, crashes : Nat, lost : Nat, unsure : Nat] /\ Unsure(durable)
      BY DEF LogInv, Commit
    <2>2. CASE durable
      BY <2>1, <2>2 DEF Unsure
    <2>3. CASE ~durable
      BY <2>1, <2>3 DEF Unsure
    <2> QED
      BY <2>2, <2>3
  <1>2. new \in Seq(Event)
    BY DEF GoodLog
  <1>3. log' \in [IX -> Seq(Event)] /\ stable' \in [IX -> SUBSET Seq(Event)]
    BY <1>2 DEF LogInv, Commit
  <1>4. ASSUME NEW j \in IX
        PROVE  /\ GoodLog(log'[j]) /\ \A s \in stable'[j] : GoodLog(s)
               /\ log'[j] \in stable'[j]
               /\ spent'.unsure = 0 => stable'[j] = {log'[j]}
    <2>1. CASE j # i
      BY <1>1, <2>1 DEF LogInv, Commit
    <2>2. CASE j = i
      BY <1>1, <2>2 DEF LogInv, Commit
    <2> QED
      BY <2>1, <2>2
  <1> QED
    BY <1>1, <1>3, <1>4 DEF LogInv, Commit, GoodLog

\* A step that leaves the logs alone.
LEMMA SameLogs ==
    ASSUME LogInv, OwnInv, UNCHANGED <<logVars, spent>>
    PROVE  LogInv' /\ OwnInv' /\ spent' = spent /\ spent.rejoins \in Nat
  BY DEF LogInv, OwnInv, logVars, GoodLog

\* A log that grows still holds what its IX committed, new events included.
LEMMA SignGrows ==
    ASSUME LogInv, OwnInv, NEW i \in IX, NEW STATE events, events \in Seq(Event),
           log' = [log EXCEPT ![i] = log[i] \o events],
           spent'.rejoins = spent.rejoins, spent'.lost = spent.lost,
           \/ committed' = committed
           \/ /\ committed' = committed \union {events[k] : k \in 1 .. Len(events)}
              /\ \A k \in 1 .. Len(events) : events[k].by = i
    PROVE  OwnInv'
  <1> SUFFICES ASSUME spent.rejoins = 0, spent.lost = 0, NEW e \in committed', e # Genesis
               PROVE  e.by \in IX /\ \E k \in 1 .. Len(log'[e.by]) : log'[e.by][k] = e
    BY DEF OwnInv
  <1>1. log[i] \in Seq(Event) /\ log'[i] = log[i] \o events
    BY DEF LogInv
  <1>2. CASE e \in committed
    <2>1. e.by \in IX /\ \E k \in 1 .. Len(log[e.by]) : log[e.by][k] = e
      BY <1>2 DEF OwnInv
    <2>2. CASE e.by = i
      BY <1>1, <2>1, <2>2
    <2>3. CASE e.by # i
      BY <2>1, <2>3 DEF LogInv
    <2> QED
      BY <2>2, <2>3
  <1>3. CASE e \notin committed
    <2>1. PICK k \in 1 .. Len(events) : events[k] = e /\ e.by = i
      BY <1>3
    <2>2. Len(log[i]) + k \in 1 .. Len(log'[i]) /\ log'[i][Len(log[i]) + k] = e
      BY <1>1, <2>1
    <2> QED
      BY <2>1, <2>2
  <1> QED
    BY <1>2, <1>3

-----------------------------------------------------------------------------
\* Domains whose IXs have just written the genesis satisfy the invariant.
LEMMA InitInv == Init => IInv
  <1> SUFFICES ASSUME Init PROVE IInv
    OBVIOUS
  <1>1. GoodLog(<<Genesis>>) /\ <<Genesis>> \in Seq(Event)
    BY SyncAssumption DEF GoodLog
  <1>2. LogInv
    BY <1>1 DEF Init, LogInv
  <1>3. WorkInv
    BY RestingOK DEF Init, WorkInv
  <1>4. MiscInv
    BY SyncAssumption DEF Init, MiscInv, NoReport, Statuses, ReportRec
  <1>5. OwnInv
    BY DEF Init, OwnInv
  <1> QED
    BY <1>2, <1>3, <1>4, <1>5 DEF IInv

\* A step that records nothing.
LEMMA NoReportOK == NoReport \in ReportRec
  BY DEF NoReport, ReportRec, Statuses

\* The steps of a sync that only change the worker.
LEMMA LearnInv ==
    ASSUME IInv, NEW i \in IX, NEW w \in Worker, NEW j \in IX,
           LearnHead(i, w, j) \/ LearnFails(i, w, j)
    PROVE  IInv'
  <1> USE DEF IInv
  <1> DEFINE me == work[i][w]
  <1>1. me \in WorkerRec /\ RecOK(me)
    BY DEF WorkInv
  <1>2. GoodLog(log[j]) /\ log[j] \in Seq(Event)
    BY DEF LogInv
  <1>3. LogInv' /\ OwnInv' /\ spent' = spent /\ spent.rejoins \in Nat
    BY SameLogs DEF LearnHead, LearnFails
  <1>4. CASE LearnHead(i, w, j)
    <2> DEFINE rec == [me EXCEPT !.pc = "compare", !.peer = j, !.remote = LogHead(log[j]), !.seen = log[j]]
    <2>1. rec \in WorkerRec
      BY <1>1, <1>2, HeadOfGood, Zenon DEF WorkerRec
    <2>2. RecOK(rec) /\ rec.pc = "compare"
      BY <1>1, <1>2 DEF RecOK, WorkerRec
    <2>3. Step(i, w, rec)
      BY <1>4 DEF LearnHead
    <2>4. WorkInv'
      <3> HIDE DEF rec
      <3> QED
        BY <2>1, <2>2, <2>3, <1>3, QuietStep, Zenon
    <2> QED
      BY <1>3, <1>4, <2>4, NoReportOK DEF LearnHead, MiscInv, logVars
  <1>5. CASE LearnFails(i, w, j)
    <2> DEFINE rec == [me EXCEPT !.todo = @ \ {j}]
    <2>1. rec \in WorkerRec /\ rec.pc = "idle" /\ RecOK(rec)
      BY <1>1, <1>5 DEF WorkerRec, LearnFails, RecOK
    <2>2. Step(i, w, rec)
      BY <1>5 DEF LearnFails
    <2>3. WorkInv'
      <3> HIDE DEF rec
      <3> QED
        BY <2>1, <2>2, <1>3, QuietStep, Zenon
    <2> QED
      BY <1>3, <1>5, <2>3 DEF LearnFails, MiscInv, logVars, Statuses, ReportRec
  <1> QED
    BY <1>4, <1>5

\* The comparison of heads and the two ways to prepare a transfer.
LEMMA CompareInv ==
    ASSUME IInv, NEW i \in IX, NEW w \in Worker, Compare(i, w)
    PROVE  IInv'
  <1> USE DEF IInv
  <1> DEFINE me == work[i][w]
             head == LogHead(log[i])
  <1>1. me \in WorkerRec /\ RecOK(me) /\ me.pc = "compare"
    BY DEF WorkInv, Compare
  <1>2. head.seq \in Nat
    BY HeadOfGood DEF LogInv
  <1>3. LogInv' /\ OwnInv' /\ spent' = spent /\ spent.rejoins \in Nat
    BY SameLogs DEF Compare
  <1>4. UNCHANGED <<late, committed>>
    BY DEF Compare, logVars
  <1>5. CASE \E st \in Statuses : Finish(i, w, st)
    BY <1>1, <1>3, <1>4, <1>5, FinishInv DEF MiscInv
  <1>6. ASSUME NEW STATE rec, rec \in WorkerRec, RecOK(rec), rec.pc # "replace", Step(i, w, rec),
               report' = NoReport
        PROVE  IInv'
    <2>1. WorkInv'
      BY <1>3, <1>6, QuietStep, Zenon
    <2> QED
      BY <1>3, <1>4, <1>6, <2>1, NoReportOK, Zenon DEF MiscInv
  <1>7. CASE Step(i, w, [me EXCEPT !.pc = "fetch", !.from = head.seq + 1]) /\ report' = NoReport
    <2> DEFINE rec == [me EXCEPT !.pc = "fetch", !.from = head.seq + 1]
    <2>1. rec \in WorkerRec /\ rec.pc = "fetch" /\ rec.peer = me.peer /\ rec.seen = me.seen
          /\ rec.remote = me.remote
      <3>1. ASSUME NEW m \in WorkerRec, NEW n \in Nat
            PROVE  LET r == [m EXCEPT !.pc = "fetch", !.from = n]
                   IN  r \in WorkerRec /\ r.pc = "fetch" /\ r.peer = m.peer /\ r.seen = m.seen
                       /\ r.remote = m.remote
        BY Zenon DEF WorkerRec
      <3>2. head.seq + 1 \in Nat
        BY <1>2
      <3> QED
        BY <1>1, <3>1, <3>2, Zenon
    <2>2. RecOK(rec) /\ rec.pc # "replace"
      <3> HIDE DEF rec
      <3> QED
        BY <1>1, <2>1 DEF RecOK
    <2> QED
      BY <2>1, <2>2, <1>6, <1>7, Zenon
  <1>8. CASE Step(i, w, [me EXCEPT !.pc = "after"]) /\ report' = NoReport
    <2> DEFINE rec == [me EXCEPT !.pc = "after"]
    <2>1. rec \in WorkerRec /\ RecOK(rec) /\ rec.pc # "replace"
      BY <1>1, SMTT(30) DEF WorkerRec, RecOK
    <2> QED
      BY <2>1, <1>6, <1>8, Zenon
  <1> QED
    BY <1>5, <1>7, <1>8 DEF Compare, Statuses

\* The events a pull is answered with.
LEMMA FetchInv ==
    ASSUME IInv, NEW i \in IX, NEW w \in Worker, Fetch(i, w)
    PROVE  IInv'
  <1> USE DEF IInv
  <1> DEFINE me == work[i][w]
             theirs == log[me.peer]
             evs == LogRange(theirs, me.from, me.remote.seq)
             rec == [me EXCEPT !.pc = "append", !.seen = theirs, !.events = evs]
  <1>1. me \in WorkerRec /\ RecOK(me) /\ me.pc = "fetch" /\ InRange(theirs, me.from, me.remote.seq)
    BY DEF WorkInv, Fetch
  <1>2. me.peer \in IX /\ GoodLog(theirs) /\ theirs \in Seq(Event) /\ me.from \in Nat /\ me.remote.seq \in Nat
    BY <1>1, Zenon DEF RecOK, LogInv, WorkerRec
  <1>3. LogInv' /\ OwnInv' /\ spent' = spent /\ spent.rejoins \in Nat
    BY SameLogs DEF Fetch
  <1>4. evs \in Seq(Event)
    <2>1. me.from # 0 /\ me.remote.seq <= Len(theirs)
      BY <1>1, Zenon DEF InRange
    <2> QED BY <1>2, <2>1, RangeOf, Zenon DEF LogRange
  <1>5. rec \in WorkerRec
    <2> HIDE DEF evs, theirs
    <2> QED
      BY <1>1, <1>2, <1>4, Zenon DEF WorkerRec
  <1>6. RecOK(rec) /\ rec.pc # "replace"
    BY <1>1, <1>2 DEF RecOK, WorkerRec
  <1>7. Step(i, w, rec) /\ report' = NoReport /\ UNCHANGED <<late, committed>>
    BY DEF Fetch, logVars
  <1>8. WorkInv'
    <2> HIDE DEF rec
    <2> QED
      BY <1>3, <1>5, <1>6, <1>7, QuietStep, Zenon
  <1> QED
    BY <1>3, <1>7, <1>8, NoReportOK DEF MiscInv

\* The events a push will carry, or the end of the sync.
LEMMA AfterInv ==
    ASSUME IInv, NEW i \in IX, NEW w \in Worker, After(i, w)
    PROVE  IInv'
  <1> USE DEF IInv
  <1> DEFINE me == work[i][w]
             n == me.remote.seq
             evs == LogRange(log[i], n + 1, Len(log[i]))
             rec == [me EXCEPT !.pc = "push", !.seen = log[i], !.events = evs]
  <1>1. me \in WorkerRec /\ RecOK(me) /\ me.pc = "after" /\ n \in Nat
    BY DEF WorkInv, After, WorkerRec
  <1>2. GoodLog(log[i]) /\ log[i] \in Seq(Event)
    BY DEF LogInv
  <1>3. LogInv' /\ OwnInv' /\ spent' = spent /\ spent.rejoins \in Nat /\ UNCHANGED <<late, committed>>
    BY SameLogs DEF After, logVars
  <1>4. CASE \E st \in Statuses : Finish(i, w, st)
    BY <1>1, <1>3, <1>4, FinishInv DEF MiscInv
  <1>5. CASE n < Len(log[i]) /\ Step(i, w, rec) /\ report' = NoReport
    <2>1. evs \in Seq(Event)
      BY <1>1, <1>2, <1>5, SMTT(30) DEF LogRange
    <2>2. rec \in WorkerRec
      <3> HIDE DEF evs
      <3> QED
        BY <1>1, <1>2, <2>1, Zenon DEF WorkerRec
    <2>3. RecOK(rec) /\ rec.pc # "replace"
      BY <1>1, <1>2, <1>5 DEF RecOK, WorkerRec
    <2>4. WorkInv'
      <3> HIDE DEF rec
      <3> QED
        BY <1>3, <1>5, <2>2, <2>3, QuietStep, Zenon
    <2> QED
      BY <1>3, <1>5, <2>4, NoReportOK DEF MiscInv
  <1> QED
    BY <1>4, <1>5 DEF After, Statuses

\* appendVerifiedConfigEvents at IX j, whoever calls it.
LEMMA AppendInv ==
    ASSUME LogInv, OwnInv, NEW j \in IX, NEW STATE events, events \in Seq(Event),
           CanAppend(log[j], events), NEW durable \in BOOLEAN,
           Commit(j, log[j] \o events, durable),
           \/ committed' = committed
           \/ /\ committed' = committed \union {events[k] : k \in 1 .. Len(events)}
              /\ \A k \in 1 .. Len(events) : events[k].by = j
    PROVE  LogInv' /\ OwnInv' /\ spent'.rejoins = spent.rejoins /\ spent.rejoins \in Nat
  <1>1. GoodLog(log[j]) /\ spent.rejoins \in Nat
    BY DEF LogInv
  <1>2. GoodLog(log[j] \o events)
    BY <1>1, AppendGood
  <1> DEFINE new == log[j] \o events
  <1>3. /\ LogInv' /\ log' = [log EXCEPT ![j] = new]
        /\ spent'.rejoins = spent.rejoins /\ spent'.lost = spent.lost
    <2>1. GoodLog(new) /\ Commit(j, new, durable)
      BY <1>2
    <2> HIDE DEF new
    <2> QED
      BY <2>1, CommitInv
  <1> QED
    BY <1>1, <1>3, SignGrows, Zenon

\* The two ways a sync changes a log.
LEMMA TransferInv ==
    ASSUME IInv, NEW i \in IX, NEW w \in Worker, AppendPulled(i, w) \/ Push(i, w)
    PROVE  IInv'
  <1> USE DEF IInv
  <1> DEFINE me == work[i][w]
  <1>1. me \in WorkerRec /\ RecOK(me) /\ me.pc # "idle" /\ me.events \in Seq(Event) /\ me.peer \in IX
    <2>1. me \in WorkerRec /\ RecOK(me)
      BY WorkerFacts
    <2>2. me.pc \in {"append", "push"}
      BY Zenon DEF AppendPulled, Push
    <2> HIDE DEF me
    <2>3. me.pc # "idle" /\ me.peer \in IX
      BY <2>1, <2>2 DEF RecOK
    <2> QED
      BY <2>1, <2>3, RecFacts
  <1>2. UNCHANGED <<late, committed>>
    BY Zenon DEF AppendPulled, Push
  <1>3. PICK j \in IX :
           \/ /\ CanAppend(log[j], me.events)
              /\ \E durable \in BOOLEAN : /\ Commit(j, log[j] \o me.events, durable)
                                          /\ \E st \in Statuses : Finish(i, w, st)
           \/ UNCHANGED <<log, stable, spent>> /\ Finish(i, w, "conflict")
    <2>1. \A durable \in BOOLEAN : Reported("pulled", durable) \subseteq Statuses
                                   /\ Reported("pushed", durable) \subseteq Statuses
      BY DEF Reported, Statuses
    <2>2. CASE AppendPulled(i, w)
      <3>1. \/ /\ CanAppend(log[i], me.events)
               /\ \E durable \in BOOLEAN : /\ Commit(i, log[i] \o me.events, durable)
                                           /\ \E st \in Statuses : Finish(i, w, st)
            \/ UNCHANGED <<log, stable, spent>> /\ Finish(i, w, "conflict")
        BY <2>1, <2>2, ZenonT(60) DEF AppendPulled
      <3> HIDE DEF me
      <3> QED
        BY <3>1, Zenon
    <2>3. CASE Push(i, w)
      BY <1>1, <2>1, <2>3 DEF Push
    <2> QED
      BY <2>2, <2>3
  <1>4. /\ LogInv' /\ OwnInv' /\ spent'.rejoins = spent.rejoins /\ spent.rejoins \in Nat
        /\ \E st \in Statuses : Finish(i, w, st)
    <2>1. CASE UNCHANGED <<log, stable, spent>> /\ Finish(i, w, "conflict")
      BY <1>2, <2>1, SameLogs DEF logVars, Statuses
    <2>2. CASE /\ CanAppend(log[j], me.events)
               /\ \E durable \in BOOLEAN : /\ Commit(j, log[j] \o me.events, durable)
                                           /\ \E st \in Statuses : Finish(i, w, st)
      <3> HIDE DEF me
      <3> QED
        BY <1>1, <1>2, <2>2, AppendInv
    <2> QED
      BY <1>3, <2>1, <2>2
  <1> QED
    BY <1>1, <1>2, <1>4, FinishInv DEF MiscInv

\* Failures of a sync and pushes that arrive late.
LEMMA FailInv ==
    ASSUME IInv, NEW i \in IX, NEW w \in Worker, PushTimesOut(i, w) \/ SyncFails(i, w)
    PROVE  IInv'
  <1> USE DEF IInv
  <1> DEFINE me == work[i][w]
  <1>1. me \in WorkerRec /\ RecOK(me) /\ me.pc # "idle" /\ me.events \in Seq(Event) /\ me.peer \in IX
    <2>1. me \in WorkerRec /\ RecOK(me)
      BY WorkerFacts
    <2>2. me.pc \in {"fetch", "append", "push"}
      BY Zenon DEF PushTimesOut, SyncFails
    <2> HIDE DEF me
    <2>3. me.pc # "idle" /\ me.peer \in IX
      BY <2>1, <2>2 DEF RecOK
    <2> QED
      BY <2>1, <2>3, RecFacts
  <1>2. LogInv' /\ OwnInv' /\ spent' = spent /\ spent.rejoins \in Nat /\ committed' = committed
    BY SameLogs DEF PushTimesOut, SyncFails, logVars
  <1>3. "error" \in Statuses /\ Finish(i, w, "error")
    BY DEF PushTimesOut, SyncFails, Statuses
  <1>4. WorkInv' /\ report' \in ReportRec
    BY <1>1, <1>2, <1>3, FinishInv, Zenon
  <1>5. late' \subseteq [to : IX, events : Seq(Event)]
    <2>1. late \subseteq [to : IX, events : Seq(Event)]
      BY Zenon DEF MiscInv
    <2>2. late' = late \/ late' = late \union {[to |-> me.peer, events |-> me.events]}
      BY Zenon DEF PushTimesOut, SyncFails
    <2> HIDE DEF me, IInv
    <2>3. [to |-> me.peer, events |-> me.events] \in [to : IX, events : Seq(Event)]
      BY <1>1
    <2> QED BY <2>1, <2>2, <2>3, Zenon
  <1> QED
    BY <1>2, <1>4, <1>5 DEF MiscInv

\* A push that is handled after its sender gave up.
LEMMA DeliverInv ==
    ASSUME IInv, NEW m \in late, DeliverLate(m)
    PROVE  IInv'
  <1> USE DEF IInv
  <1>1. m.to \in IX /\ m.events \in Seq(Event) /\ late' \subseteq [to : IX, events : Seq(Event)]
    BY DEF MiscInv, DeliverLate
  <1>2. UNCHANGED <<work, committed>> /\ report' \in ReportRec
    BY NoReportOK DEF DeliverLate
  <1>3. LogInv' /\ OwnInv' /\ spent'.rejoins = spent.rejoins
    <2>1. CASE CanAppend(log[m.to], m.events)
      BY <1>1, <1>2, <2>1, AppendInv DEF DeliverLate
    <2>2. CASE ~CanAppend(log[m.to], m.events)
      BY <1>2, <2>2, SameLogs DEF DeliverLate, logVars
    <2> QED
      BY <2>1, <2>2
  <1>4. WorkInv'
    BY <1>2, <1>3 DEF WorkInv
  <1> QED
    BY <1>1, <1>2, <1>3, <1>4 DEF MiscInv

\* The steps of a mutation.
LEMMA MutationInv ==
    ASSUME IInv, NEW i \in IX, NEW r \in Requests,
           \/ BeginMutation(i, r) \/ MutationFails(i, r)
           \/ \E events \in Batches : CommitMutation(i, r, events)
    PROVE  IInv'
  <1> USE DEF IInv
  <1>1. r \in Worker
    BY DEF Worker
  <1>2. CASE BeginMutation(i, r)
    <2> DEFINE rec == [Resting EXCEPT !.task = "mutate", !.todo = IX \ {i}]
    <2>1. rec \in WorkerRec /\ rec.pc = "idle" /\ RecOK(rec)
      BY RestingOK, Zenon DEF Resting, WorkerRec, RecOK
    <2>2. Step(i, r, rec) /\ report' = NoReport /\ UNCHANGED <<late, committed>>
      BY <1>2 DEF BeginMutation, logVars
    <2>3. LogInv' /\ OwnInv' /\ spent' = spent /\ spent.rejoins \in Nat
      BY <1>2, SameLogs DEF BeginMutation
    <2>4. WorkInv'
      <3> HIDE DEF rec
      <3> QED
        BY <1>1, <2>1, <2>2, <2>3, QuietStep, Zenon
    <2> QED
      BY <2>2, <2>3, <2>4, NoReportOK DEF MiscInv
  <1>3. CASE MutationFails(i, r)
    <2>1. LogInv' /\ OwnInv' /\ spent' = spent /\ spent.rejoins \in Nat
      BY <1>3, SameLogs DEF MutationFails
    <2>2. Step(i, r, Resting) /\ Resting.pc # "replace"
      BY <1>3, RestingOK DEF MutationFails
    <2>3. WorkInv'
      BY <1>1, <2>1, <2>2, RestingOK, QuietStep, Zenon
    <2> QED
      BY <1>3, <2>1, <2>3, NoReportOK DEF MiscInv, MutationFails, logVars
  <1>4. ASSUME NEW events \in Batches, CommitMutation(i, r, events) PROVE IInv'
    <2>1. events \in Seq(Event)
      BY SyncAssumption, SMTT(30)
    <2>2. CanAppend(log[i], events) /\ \A k \in 1 .. Len(events) : events[k].by = i
      BY <1>4 DEF CommitMutation, Planned
    <2>3. LogInv' /\ OwnInv' /\ spent'.rejoins = spent.rejoins /\ spent.rejoins \in Nat
      BY <1>4, <2>1, <2>2, AppendInv DEF CommitMutation
    <2>4. WorkInv'
      <3>1. Step(i, r, Resting)
        BY <1>4, Zenon DEF CommitMutation
      <3>2. Resting.pc # "replace"
        BY RestingOK
      <3> QED
        BY <1>1, <2>3, <3>1, <3>2, QuietStep, RestingOK, Zenon
    <2>5. committed' \subseteq Event
      <3>1. committed' = committed \union {events[k] : k \in 1 .. Len(events)}
        BY <1>4, Zenon DEF CommitMutation
      <3>2. \A k \in 1 .. Len(events) : events[k] \in Event
        BY <2>1
      <3>3. committed \subseteq Event
        BY Zenon DEF MiscInv
      <3> QED
        BY <3>1, <3>2, <3>3, Zenon
    <2> QED
      BY <1>4, <2>3, <2>4, <2>5, NoReportOK DEF MiscInv, CommitMutation
  <1> QED
    BY <1>2, <1>3, <1>4

\* A poller learns a head that is planned and not yet committed.
LEMMA PlannedInv ==
    ASSUME IInv, NEW i \in IX, NEW j \in IX, NEW r \in Requests, NEW events \in Batches,
           LearnPlannedHead(j, i, r, events)
    PROVE  IInv'
  <1> USE DEF IInv
  <1> DEFINE s == log[i] \o events
             rec == [Resting EXCEPT !.pc = "compare", !.peer = i, !.seen = s, !.remote = LogHead(s)]
  <1>1. events \in Seq(Event) /\ CanAppend(log[i], events) /\ GoodLog(log[i])
    BY SyncAssumption DEF LearnPlannedHead, Planned, LogInv
  <1>2. GoodLog(s) /\ s \in Seq(Event)
    BY <1>1, AppendGood DEF GoodLog
  <1>3. LogHead(s) \in [seq : Nat, hash : {NoHash} \union {Hash(e) : e \in Event}]
    <2> HIDE DEF s
    <2> QED
      BY <1>2, HeadOfGood
  <1>4. rec \in WorkerRec /\ RecOK(rec) /\ rec.pc = "compare"
    <2> HIDE DEF s
    <2> QED
      BY <1>2, <1>3, RestingOK, Zenon DEF Resting, WorkerRec, RecOK
  <1>5. Step(j, Poller, rec) /\ Poller \in Worker /\ report' = NoReport /\ UNCHANGED <<late, committed>>
    BY DEF LearnPlannedHead, Worker, logVars
  <1>6. LogInv' /\ OwnInv' /\ spent' = spent /\ spent.rejoins \in Nat
    BY SameLogs DEF LearnPlannedHead
  <1>7. WorkInv'
    <2> HIDE DEF rec
    <2> QED
      BY <1>4, <1>5, <1>6, QuietStep, Zenon
  <1> QED
    BY <1>5, <1>6, <1>7, NoReportOK DEF MiscInv

\* The steps of a rejoin.
LEMMA SnapshotInv ==
    ASSUME IInv, NEW i \in IX, NEW r \in Requests, NEW j \in IX, FetchSnapshot(i, r, j)
    PROVE  IInv'
  <1> USE DEF IInv
  <1> DEFINE s == log[j]
             rec == [Resting EXCEPT !.pc = "replace", !.task = "rejoin", !.peer = j,
                                    !.remote = LogHead(s), !.events = s, !.seen = s]
  <1>1. GoodLog(s) /\ s \in Seq(Event)
    BY DEF LogInv
  <1>2. rec \in WorkerRec /\ RecOK(rec) /\ rec.pc = "replace"
    <2> HIDE DEF s
    <2> QED
      BY <1>1, HeadOfGood, RestingOK, Zenon DEF Resting, WorkerRec, RecOK
  <1>3. Step(i, r, rec) /\ r \in Worker /\ report' = NoReport /\ UNCHANGED <<late, committed>>
    BY DEF FetchSnapshot, Worker, logVars
  <1>4. /\ spent' \in [rejoins : Nat, crashes : Nat, lost : Nat, unsure : Nat]
        /\ spent'.rejoins = spent.rejoins + 1 /\ spent.rejoins \in Nat /\ spent'.unsure = spent.unsure
    <2>1. /\ spent \in [rejoins : Nat, crashes : Nat, lost : Nat, unsure : Nat]
          /\ spent' = [spent EXCEPT !.rejoins = @ + 1]
      BY Zenon DEF FetchSnapshot, LogInv
    <2> HIDE DEF IInv
    <2> QED BY <2>1
  <1>5. LogInv' /\ OwnInv'
    <2>1. UNCHANGED logVars
      BY Zenon DEF FetchSnapshot
    <2>2. OwnInv'
      BY <1>4 DEF OwnInv
    <2> QED BY <1>4, <2>1, <2>2 DEF LogInv, GoodLog, logVars
  <1>6. WorkInv'
    <2> HIDE DEF rec
    <2>1. spent'.rejoins >= spent.rejoins /\ spent'.rejoins \in Nat /\ spent'.rejoins > 0
      BY <1>4
    <2> QED
      BY <1>2, <1>3, <1>4, <2>1, StepInv, Zenon
  <1> QED
    BY <1>3, <1>5, <1>6, NoReportOK DEF MiscInv

\* The log replaced by a snapshot and, when asked for, a baseline.
LEMMA ReplaceInv ==
    ASSUME IInv, NEW i \in IX, NEW r \in Requests, NEW preserve \in BOOLEAN, NEW rollback \in BOOLEAN,
           ReplaceLog(i, r, preserve, rollback)
    PROVE  IInv'
  <1> USE DEF IInv
  <1> DEFINE me == work[i][r]
  <1>1. r \in Worker
    BY DEF Worker
  <1>2. /\ me.pc = "replace" /\ RecOK(me) /\ GoodLog(me.events) /\ spent.rejoins > 0
        /\ me.events \in Seq(Event)
    <2>1. me.pc = "replace"
      BY Zenon DEF ReplaceLog
    <2>2. RecOK(me) /\ (me.pc = "replace" => spent.rejoins > 0)
      BY <1>1, Zenon DEF WorkInv
    <2> HIDE DEF me
    <2>3. GoodLog(me.seen) /\ me.events = me.seen
      BY <2>1, <2>2 DEF RecOK
    <2>4. GoodLog(me.events)
      BY <2>3
    <2> QED
      BY <2>1, <2>2, <2>4 DEF GoodLog
  <1>3. PICK base \in Baselines(i, me.events, preserve), durable \in BOOLEAN :
          LET new == IF rollback THEN log[i] ELSE me.events \o base
          IN  /\ log' = [log EXCEPT ![i] = new]
              /\ stable' = [stable EXCEPT ![i] =
                               IF durable THEN {new}
                               ELSE @ \union {me.events, me.events \o base, new}]
              /\ Unsure(durable)
              /\ committed' = committed \union {base[k] : k \in 1 .. Len(base)}
              /\ \E st \in Reported("rejoined", durable /\ ~rollback) : Finish(i, r, st)
    BY Zenon DEF ReplaceLog
  <1> DEFINE new == IF rollback THEN log[i] ELSE me.events \o base
  <1>4. base \in Seq(Event) /\ GoodLog(me.events \o base)
    <2>1. CASE base = <<>>
      <3>1. me.events \o base = me.events
        BY <1>2, <2>1
      <3>2. base \in Seq(Event)
        BY <2>1
      <3> HIDE DEF me
      <3> QED
        BY <1>2, <3>1, <3>2, Zenon
    <2>2. CASE \E f \in Event : base = <<f>> /\ CanAppend(me.events, <<f>>)
      <3>1. PICK f \in Event : base = <<f>> /\ CanAppend(me.events, <<f>>)
        BY <2>2
      <3>2. base \in Seq(Event) /\ CanAppend(me.events, base)
        BY <3>1
      <3> HIDE DEF me
      <3> QED
        BY <1>2, <3>2, AppendGood
    <2> QED
      BY <2>1, <2>2, Zenon DEF Baselines
  <1>5. GoodLog(new) /\ new \in Seq(Event) /\ me.events \o base \in Seq(Event)
    BY <1>4, ZenonT(60) DEF LogInv, GoodLog
  <1>6. /\ spent' \in [rejoins : Nat, crashes : Nat, lost : Nat, unsure : Nat]
        /\ spent'.rejoins = spent.rejoins /\ spent.unsure \in Nat /\ spent.rejoins \in Nat
        /\ spent'.unsure = IF durable THEN spent.unsure ELSE spent.unsure + 1
    <2>1. spent \in [rejoins : Nat, crashes : Nat, lost : Nat, unsure : Nat] /\ Unsure(durable)
      BY <1>3, Zenon DEF LogInv
    <2>2. CASE durable
      BY <2>1, <2>2 DEF Unsure
    <2>3. CASE ~durable
      BY <2>1, <2>3 DEF Unsure
    <2> QED
      BY <2>2, <2>3
  <1>7. LogInv'
    <2> HIDE DEF me, new
    <2>1. /\ log' = [log EXCEPT ![i] = new]
          /\ stable' = [stable EXCEPT ![i] = IF durable THEN {new}
                                             ELSE @ \union {me.events, me.events \o base, new}]
      BY <1>3 DEF new, me
    <2>2. log' \in [IX -> Seq(Event)] /\ stable' \in [IX -> SUBSET Seq(Event)]
      BY <1>2, <1>5, <2>1, ZenonT(60) DEF LogInv
    <2>3. ASSUME NEW j \in IX
          PROVE  /\ GoodLog(log'[j]) /\ \A s \in stable'[j] : GoodLog(s)
                 /\ log'[j] \in stable'[j]
                 /\ spent'.unsure = 0 => stable'[j] = {log'[j]}
      <3>1. CASE j # i
        BY <1>6, <2>1, <3>1, SMTT(30) DEF LogInv
      <3>2. CASE j = i
        <4>1. log'[i] = new
          BY <2>1 DEF LogInv
        <4>2. CASE durable
          <5>1. stable'[i] = {new}
            BY <2>1, <4>2 DEF LogInv
          <5> QED
            BY <1>5, <3>2, <4>1, <5>1
        <4>3. CASE ~durable
          <5>1. stable'[i] = stable[i] \union {me.events, me.events \o base, new}
            BY <2>1, <4>3 DEF LogInv
          <5>2. spent'.unsure # 0
            BY <1>6, <4>3
          <5> QED
            BY <1>2, <1>4, <1>5, <3>2, <4>1, <5>1, <5>2, Zenon DEF LogInv
        <4> QED
          BY <4>2, <4>3
      <3> QED
        BY <3>1, <3>2
    <2> QED
      BY <1>6, <2>2, <2>3, SMTT(30) DEF LogInv, GoodLog
  <1>8. OwnInv'
    <2>1. spent'.rejoins # 0
      <3>1. spent.rejoins > 0 /\ spent.rejoins \in Nat /\ spent'.rejoins = spent.rejoins
        BY <1>2, <1>6, Zenon
      <3> QED
        BY <3>1
    <2> QED
      BY <2>1, Zenon DEF OwnInv
  <1>9. WorkInv' /\ report' \in ReportRec
    <2>1. PICK st \in Statuses : Finish(i, r, st)
      BY <1>3 DEF Reported, Statuses
    <2>2. work[i][r].pc # "idle"
      BY <1>2
    <2> QED
      BY <1>1, <1>6, <2>1, <2>2, FinishInv, ZenonT(60)
  <1>10. late' = late /\ committed' \subseteq Event
    <2>1. late' = late
      BY DEF ReplaceLog
    <2>2. \A k \in 1 .. Len(base) : base[k] \in Event
      BY <1>4, SMTT(30)
    <2>3. committed' = committed \union {base[k] : k \in 1 .. Len(base)}
      BY <1>3, Zenon
    <2> QED
      BY <2>1, <2>2, <2>3, ZenonT(60) DEF MiscInv
  <1> QED
    BY <1>7, <1>8, <1>9, <1>10 DEF MiscInv

\* A rejoin that is refused before the log is touched.
LEMMA RejoinFailsInv ==
    ASSUME IInv, NEW i \in IX, NEW r \in Requests, RejoinFails(i, r)
    PROVE  IInv'
  <1> USE DEF IInv
  <1>1. r \in Worker /\ work[i][r].pc # "idle"
    BY DEF Worker, RejoinFails
  <1>2. LogInv' /\ OwnInv' /\ spent' = spent /\ spent.rejoins \in Nat /\ UNCHANGED <<late, committed>>
    BY SameLogs DEF RejoinFails, logVars
  <1>3. PICK st \in Statuses : Finish(i, r, st)
    BY DEF RejoinFails, Statuses
  <1>4. WorkInv' /\ report' \in ReportRec
    BY <1>1, <1>2, <1>3, FinishInv, Zenon
  <1>5. MiscInv'
    BY <1>2, <1>4, Zenon DEF MiscInv
  <1> QED
    BY <1>2, <1>4, <1>5

\* A crash and the restart from what the disk kept.
LEMMA RestartInv ==
    ASSUME IInv, NEW i \in IX, Restart(i)
    PROVE  IInv'
  <1> USE DEF IInv
  <1>1. PICK kept \in stable[i] :
          /\ log' = [log EXCEPT ![i] = kept] /\ stable' = [stable EXCEPT ![i] = {kept}]
          /\ spent' = [spent EXCEPT !.crashes = @ + 1, !.lost = IF kept = log[i] THEN @ ELSE @ + 1]
    BY Zenon DEF Restart
  <1>2. GoodLog(kept) /\ kept \in Seq(Event) /\ spent \in [rejoins : Nat, crashes : Nat, lost : Nat, unsure : Nat]
    BY DEF LogInv, GoodLog
  <1>3. /\ spent' \in [rejoins : Nat, crashes : Nat, lost : Nat, unsure : Nat]
        /\ spent'.rejoins = spent.rejoins /\ spent'.unsure = spent.unsure
        /\ spent.lost \in Nat
        /\ spent'.lost = IF kept = log[i] THEN spent.lost ELSE spent.lost + 1
    <2> DEFINE n == IF kept = log[i] THEN spent.lost ELSE spent.lost + 1
    <2>1. spent' = [spent EXCEPT !.crashes = @ + 1, !.lost = n]
      BY <1>1
    <2>2. n \in Nat /\ spent.lost \in Nat
      BY <1>2
    <2> HIDE DEF n
    <2>3. /\ spent' \in [rejoins : Nat, crashes : Nat, lost : Nat, unsure : Nat]
          /\ spent'.rejoins = spent.rejoins /\ spent'.unsure = spent.unsure /\ spent'.lost = n
      <3>1. ASSUME NEW x \in [rejoins : Nat, crashes : Nat, lost : Nat, unsure : Nat],
                   NEW c \in Nat, NEW m \in Nat
            PROVE  LET y == [x EXCEPT !.crashes = c, !.lost = m]
                   IN  /\ y \in [rejoins : Nat, crashes : Nat, lost : Nat, unsure : Nat]
                       /\ y.rejoins = x.rejoins /\ y.unsure = x.unsure /\ y.lost = m
        BY Zenon
      <3>2. spent.crashes + 1 \in Nat /\ spent' = [spent EXCEPT !.crashes = spent.crashes + 1, !.lost = n]
        BY <1>2, <2>1
      <3> QED
        BY <1>2, <2>2, <3>1, <3>2, Zenon
    <2> QED
      BY <2>2, <2>3 DEF n
  <1>4. LogInv'
    BY <1>1, <1>2, <1>3 DEF LogInv
  <1>5. OwnInv'
    <2> SUFFICES ASSUME spent'.rejoins = 0, spent'.lost = 0
                 PROVE  spent.rejoins = 0 /\ spent.lost = 0 /\ log' = log /\ committed' = committed
      BY DEF OwnInv
    <2>1. kept = log[i] /\ spent.rejoins = 0 /\ spent.lost = 0
      BY <1>3
    <2> QED
      BY <1>1, <2>1 DEF LogInv, Restart
  <1>6. WorkInv'
    BY <1>3, RestingOK DEF Restart, WorkInv
  <1> QED
    BY <1>4, <1>5, <1>6, NoReportOK DEF Restart, MiscInv

\* Every step keeps the invariant.
LEMMA NextInv == IInv /\ [Next]_vars => IInv'
  <1> SUFFICES ASSUME IInv, [Next]_vars PROVE IInv'
    OBVIOUS
  <1>1. CASE UNCHANGED vars
    <2>1. UNCHANGED <<log, stable, work, report, late, committed, spent>>
      BY <1>1 DEF vars
    <2>2. LogInv' /\ OwnInv' /\ MiscInv'
      BY <2>1 DEF IInv, LogInv, OwnInv, MiscInv, GoodLog
    <2>3. WorkInv'
      BY <2>1 DEF IInv, WorkInv
    <2> QED
      BY <2>2, <2>3 DEF IInv
  <1>2. ASSUME NEW i \in IX, NEW w \in Worker, SyncStep(i, w) PROVE IInv'
    BY <1>2, LearnInv, CompareInv, FetchInv, AfterInv, TransferInv, FailInv DEF SyncStep
  <1>3. ASSUME NEW i \in IX, NEW r \in Requests, RequestStep(i, r) PROVE IInv'
    BY <1>3, MutationInv, PlannedInv, SnapshotInv, ReplaceInv, RejoinFailsInv DEF RequestStep
  <1>4. ASSUME NEW i \in IX, Restart(i) PROVE IInv'
    BY <1>4, RestartInv
  <1>5. ASSUME NEW m \in late, DeliverLate(m) PROVE IInv'
    BY <1>5, DeliverInv
  <1> QED
    BY <1>1, <1>2, <1>3, <1>4, <1>5 DEF Next

-----------------------------------------------------------------------------
\* The inductive invariant holds of every behaviour of the domain.
THEOREM Invariance == Spec => []IInv
  BY InitInv, NextInv, PTL DEF Spec

\* The state of the domain is well typed and every log starts with the genesis.
THEOREM TypeCorrect == Spec => []TypeOK
  <1>1. IInv => TypeOK
    <2> SUFFICES ASSUME IInv PROVE TypeOK
      OBVIOUS
    <2>1. /\ log \in [IX -> Seq(Event)] /\ stable \in [IX -> SUBSET Seq(Event)]
          /\ spent \in [rejoins : Nat, crashes : Nat, lost : Nat, unsure : Nat]
      BY Zenon DEF IInv, LogInv
    <2>2. \A i \in IX : log[i] # <<>> /\ log[i][1] = Genesis
      BY Zenon DEF IInv, LogInv, GoodLog
    <2>3. /\ work \in [IX -> [Worker -> WorkerRec]] /\ report \in ReportRec
          /\ late \subseteq [to : IX, events : Seq(Event)] /\ committed \subseteq Event
      BY Zenon DEF IInv, WorkInv, MiscInv
    <2> QED
      BY <2>1, <2>2, <2>3, Zenon DEF TypeOK
  <1> QED
    BY <1>1, Invariance, PTL

\* Log matching: two logs with the same event at a position are the same up to
\* there, whatever the IXs, requests, failures and crashes.
THEOREM LogMatchingTheorem == Spec => []LogMatching
  <1>1. IInv => LogMatching
    <2> SUFFICES ASSUME IInv, NEW i \in IX, NEW j \in IX, NEW k \in 1 .. Len(log[i]),
                        k <= Len(log[j]), log[i][k] = log[j][k]
                 PROVE  \A n \in 1 .. k : log[i][n] = log[j][n]
      BY DEF LogMatching
    <2>1. /\ log[i] \in Seq(Event) /\ IsChain(log[i])
          /\ log[j] \in Seq(Event) /\ IsChain(log[j])
      BY DEF IInv, LogInv, GoodLog
    <2> QED
      BY <2>1, ChainsAgree
  <1> QED
    BY <1>1, Invariance, PTL

\* Nobody commits two events of its own for one position, unless a rejoin
\* replaced the log or a power loss took back a commit.
THEOREM CommitsOnceTheorem == Spec => []CommitsOnce
  <1>1. IInv => CommitsOnce
    <2> SUFFICES ASSUME IInv, spent.rejoins = 0, spent.lost = 0,
                        NEW e \in committed, NEW f \in committed, e.by = f.by, e.seq = f.seq
                 PROVE  e = f
      BY DEF CommitsOnce
    <2>1. \A i \in IX : /\ \A k \in 1 .. Len(log[i]) : log[i][k].seq = k
                        /\ Len(log[i]) \in Nat /\ 1 \in 1 .. Len(log[i]) /\ log[i][1] = Genesis
      <3>1. \A i \in IX : GoodLog(log[i])
        BY Zenon DEF IInv, LogInv
      <3>2. ASSUME NEW s, GoodLog(s)
            PROVE  /\ \A k \in 1 .. Len(s) : s[k].seq = k
                   /\ Len(s) \in Nat /\ 1 \in 1 .. Len(s) /\ s[1] = Genesis
        BY <3>2 DEF GoodLog, IsChain, Links
      <3> QED
        BY <3>1, <3>2, Zenon
    <2>2. \A x \in committed : x = Genesis \/ (x.by \in IX /\ \E k \in 1 .. Len(log[x.by]) : log[x.by][k] = x)
      BY DEF IInv, OwnInv
    <2>3. CASE e.by \in IX
      <3>1. \A x \in {e, f} : \E k \in 1 .. Len(log[e.by]) : log[e.by][k] = x
        BY <2>1, <2>2, <2>3
      <3> QED
        BY <2>1, <2>3, <3>1
    <2>4. CASE e.by \notin IX
      BY <2>2, <2>4
    <2> QED
      BY <2>3, <2>4
  <1> QED
    BY <1>1, Invariance, PTL

-----------------------------------------------------------------------------
(* What a step may do to a log, and the truth of what a sync reports.        *)

\* The log of j grows by a batch that links to it.
Grown(j) ==
    \E events \in Seq(Event) :
        CanAppend(log[j], events) /\ log' = [log EXCEPT ![j] = log[j] \o events]

\* A log changes in four ways only: a batch that links is appended, a rejoin
\* ends, or a restart loads what the disk kept.
LEMMA LogSteps ==
    ASSUME IInv, Next, NEW i \in IX
    PROVE  GrowsOrReplaced(i)
  <1> USE DEF IInv
  <1>0. log \in [IX -> Seq(Event)] /\ \A j \in IX : GoodLog(log[j])
    BY DEF LogInv
  <1>s. log'[i] = log[i] => GrowsOrReplaced(i)
    BY <1>0, PrefixReflexive DEF GrowsOrReplaced
  <1>1. ASSUME NEW j \in IX, Grown(j) PROVE GrowsOrReplaced(i)
    <2>1. CASE i = j
      <3>1. PICK events \in Seq(Event) :
              CanAppend(log[j], events) /\ log' = [log EXCEPT ![j] = log[j] \o events]
        BY <1>1, Zenon DEF Grown
      <3>2. IsPrefixOf(log[j], log[j] \o events) /\ log'[j] = log[j] \o events
        BY <1>0, <3>1, AppendGood
      <3> QED
        BY <2>1, <3>2 DEF GrowsOrReplaced
    <2>2. CASE i # j
      BY <1>0, <1>1, <1>s, <2>2 DEF Grown
    <2> QED
      BY <2>1, <2>2
  <1>2. ASSUME NEW j \in IX, NEW w \in Worker, SyncStep(j, w) PROVE GrowsOrReplaced(i)
    <2>1. CASE log' = log
      BY <1>s, <2>1
    <2>2. work[j][w] \in WorkerRec /\ RecOK(work[j][w]) /\ work[j][w].events \in Seq(Event)
      BY WorkerFacts, RecFacts
    <2>3. CASE AppendPulled(j, w)
      BY <1>1, <2>1, <2>2, <2>3, Zenon DEF AppendPulled, Commit, Grown
    <2>4. CASE Push(j, w)
      <3>1. work[j][w].peer \in IX
        BY <2>2, <2>4, Zenon DEF RecOK, Push
      <3> QED
        BY <1>1, <2>1, <2>2, <2>4, <3>1, Zenon DEF Push, Commit, Grown
    <2> QED
      BY <1>2, <2>1, <2>3, <2>4, Zenon
      DEF SyncStep, Compare, Fetch, After, PushTimesOut, SyncFails, LearnHead, LearnFails, logVars
  <1>3. ASSUME NEW j \in IX, NEW r \in Requests, RequestStep(j, r) PROVE GrowsOrReplaced(i)
    <2>1. CASE log' = log
      BY <1>s, <2>1
    <2>2. ASSUME NEW events \in Batches, CommitMutation(j, r, events) PROVE GrowsOrReplaced(i)
      <3>1. events \in Seq(Event)
        BY SyncAssumption
      <3>2. Grown(j)
        BY <2>2, <3>1, ZenonT(60) DEF CommitMutation, Planned, Commit, Grown
      <3> QED
        BY <1>1, <3>2
    <2>3. ASSUME NEW preserve \in BOOLEAN, NEW rollback \in BOOLEAN, ReplaceLog(j, r, preserve, rollback)
          PROVE  GrowsOrReplaced(i)
      <3>1. CASE i # j
        BY <1>0, <1>s, <2>3, <3>1, Zenon DEF ReplaceLog
      <3>2. CASE i = j
        <4>1. r \in Worker /\ work[j][r].pc = "replace" /\ work[j][r].pc # "idle"
          <5>1. r \in Worker
            BY Zenon DEF Worker
          <5>2. work[j][r].pc = "replace"
            BY <2>3, Zenon DEF ReplaceLog
          <5> QED
            BY <5>1, <5>2
        <4>2. PICK st \in Statuses : Finish(j, r, st)
          <5>1. \E b \in BOOLEAN : \E st \in Reported("rejoined", b /\ ~rollback) : Finish(j, r, st)
            BY <2>3, Zenon DEF ReplaceLog
          <5>2. ASSUME NEW b PROVE Reported("rejoined", b) \subseteq Statuses
            BY DEF Reported, Statuses
          <5> QED
            BY <5>1, <5>2, Zenon
        <4>3. work'[j][r].pc = "idle"
          BY <4>1, <4>2, AfterSyncOK DEF Finish, Step, WorkInv
        <4> QED
          BY <3>2, <4>1, <4>3, SMTT(30) DEF GrowsOrReplaced
      <3> QED
        BY <3>1, <3>2
    <2> QED
      BY <1>3, <2>1, <2>2, <2>3, Zenon
      DEF RequestStep, BeginMutation, MutationFails, LearnPlannedHead, FetchSnapshot, RejoinFails, logVars
  <1>4. ASSUME NEW j \in IX, Restart(j) PROVE GrowsOrReplaced(i)
    <2>1. PICK kept \in stable[j] :
            /\ log' = [log EXCEPT ![j] = kept]
            /\ spent' = [spent EXCEPT !.crashes = @ + 1, !.lost = IF kept = log[j] THEN @ ELSE @ + 1]
      BY <1>4, Zenon DEF Restart
    <2>2. CASE kept = log[j] \/ i # j
      BY <1>0, <1>s, <2>1, <2>2, SMTT(30)
    <2>3. CASE kept # log[j] /\ i = j
      <3>1. spent.unsure \in Nat /\ spent.unsure # 0 /\ spent.lost \in Nat
        BY <2>1, <2>3 DEF LogInv
      <3>2. spent'.lost = spent.lost + 1
        BY <2>1, <2>3 DEF LogInv
      <3> QED
        BY <2>3, <3>1, <3>2 DEF GrowsOrReplaced
    <2> QED
      BY <2>2, <2>3
  <1>5. ASSUME NEW m \in late, DeliverLate(m) PROVE GrowsOrReplaced(i)
    <2>1. m.to \in IX /\ m.events \in Seq(Event)
      BY DEF MiscInv
    <2>2. CASE CanAppend(log[m.to], m.events)
      BY <1>1, <1>5, <2>1, <2>2, ZenonT(60) DEF DeliverLate, Commit, Grown
    <2>3. CASE ~CanAppend(log[m.to], m.events)
      BY <1>5, <1>s, <2>3 DEF DeliverLate
    <2> QED
      BY <2>2, <2>3
  <1> QED
    BY <1>2, <1>3, <1>4, <1>5 DEF Next

\* A log only grows, except by an operator's rejoin or a power loss after a
\* commit that was reported as not durable.
THEOREM AppendOnlyTheorem == Spec => AppendOnly
  <1>1. IInv /\ [Next]_vars => [\A i \in IX : GrowsOrReplaced(i)]_vars
    BY LogSteps
  <1> QED
    BY <1>1, Invariance, PTL DEF Spec, AppendOnly

-----------------------------------------------------------------------------
\* Equal heads are equal logs.
LEMMA SameHead ==
    ASSUME NEW s, NEW t, GoodLog(s), GoodLog(t), Len(s) = Len(t),
           Hash(s[Len(s)]) = Hash(t[Len(t)])
    PROVE  s = t
  <1>1. s \in Seq(Event) /\ t \in Seq(Event) /\ Len(s) \in 1 .. Len(s) /\ Len(s) <= Len(t)
    BY DEF GoodLog
  <1>2. s[Len(s)] = t[Len(s)]
    BY <1>1, HashAssumption
  <1>3. \A n \in 1 .. Len(s) : s[n] = t[n]
    BY <1>1, <1>2, ChainsAgree DEF GoodLog
  <1> QED
    BY <1>1, <1>3

\* A log that accepts a part of another one becomes that one's prefix: the
\* check of one sequence number and one hash places the whole batch.
LEMMA AcceptedRange ==
    ASSUME NEW s, NEW t, GoodLog(s), GoodLog(t), NEW from \in Nat, NEW n \in Nat,
           InRange(t, from, n), CanAppend(s, LogRange(t, from, n))
    PROVE  IsPrefixOf(s \o LogRange(t, from, n), t) /\ Len(s \o LogRange(t, from, n)) = n
  <1> DEFINE ev == LogRange(t, from, n)
             new == s \o ev
  <1>1. s \in Seq(Event) /\ t \in Seq(Event) /\ from \in 1 .. n /\ n <= Len(t)
    BY DEF GoodLog, InRange
  <1>2. /\ ev \in Seq(Event) /\ Len(ev) = n - from + 1
        /\ \A k \in 1 .. Len(ev) : ev[k] = t[from + k - 1]
    BY <1>1, SMTT(60) DEF LogRange
  <1>3. GoodLog(new)
    <2> HIDE DEF ev
    <2> QED
      BY <1>2, AppendGood DEF ev
  <1> HIDE DEF ev
  <1>4. Len(new) = Len(s) + Len(ev) /\ new[Len(s) + 1] = ev[1] /\ new[Len(s) + Len(ev)] = ev[Len(ev)]
    <2>1. Len(ev) \in Nat /\ Len(ev) >= 1 /\ Len(s) \in Nat
      BY <1>1, <1>2, SMTT(30)
    <2> QED
      BY <1>1, <1>2, <2>1, ConcatEnds, Zenon
  <1> HIDE DEF new
  <1>5. new[Len(s) + 1].seq = Len(s) + 1 /\ t[from].seq = from
    <2>1. Len(s) + 1 \in 1 .. Len(new) /\ from \in 1 .. Len(t)
      <3>1. Len(s) \in Nat /\ Len(t) \in Nat /\ Len(ev) \in Nat /\ Len(ev) >= 1
        BY <1>1, <1>2, SMTT(30)
      <3> QED
        BY <1>1, <1>4, <3>1, SMTT(30)
    <2> QED
      BY <1>3, <2>1 DEF GoodLog, IsChain, Links
  <1>6. from = Len(s) + 1
    BY <1>1, <1>2, <1>4, <1>5, SMTT(60)
  <1>7. Len(new) = n /\ new[n] = t[n] /\ n \in 1 .. Len(new) /\ new \in Seq(Event)
    BY <1>1, <1>2, <1>3, <1>4, <1>6, SMTT(30) DEF GoodLog
  <1>8. \A m \in 1 .. n : new[m] = t[m]
    BY <1>1, <1>3, <1>7, ChainsAgree, Zenon DEF GoodLog
  <1> QED
    BY <1>1, <1>7, <1>8 DEF IsPrefixOf, new, ev

\* A log that accepts the rest of another one becomes that one.
LEMMA AcceptedRest ==
    ASSUME NEW s, NEW t, GoodLog(s), GoodLog(t), NEW m \in Nat, m < Len(t),
           CanAppend(s, LogRange(t, m + 1, Len(t)))
    PROVE  s \o LogRange(t, m + 1, Len(t)) = t
  <1> DEFINE from == m + 1
             n == Len(t)
             new == s \o LogRange(t, from, n)
  <1>1. t \in Seq(Event) /\ s \in Seq(Event) /\ n \in Nat /\ from \in Nat /\ InRange(t, from, n)
    BY DEF GoodLog, InRange
  <1>2. LogRange(t, from, n) \in Seq(Event)
    BY <1>1 DEF LogRange, InRange
  <1>3. new \in Seq(Event)
    BY <1>1, <1>2
  <1>4. IsPrefixOf(new, t) /\ Len(new) = n
    BY <1>1, AcceptedRange, SMTT(60)
  <1> HIDE DEF new
  <1>5. new = t
    BY <1>1, <1>3, <1>4 DEF IsPrefixOf
  <1> QED
    BY <1>5 DEF new

\* What a step records.
LEMMA Recorded ==
    ASSUME NEW j, NEW v, NEW st, Finish(j, v, st) \/ report' = NoReport
    PROVE  /\ Finish(j, v, st) => report'.status = st
           /\ report' = NoReport => report'.status = "none"
  <1>1. ASSUME Finish(j, v, st) PROVE report'.status = st
    <2>1. report' = [at |-> j, of |-> work[j][v].peer, status |-> st]
      BY <1>1, Zenon DEF Finish
    <2> QED
      BY <2>1, Zenon
  <1>2. NoReport.status = "none"
    BY Zenon DEF NoReport
  <1> QED
    BY <1>1, <1>2, Zenon

\* The worker that finishes is the one whose step it is.
LEMMA FinishIsMine ==
    ASSUME WorkInv, NEW i \in IX, NEW w \in Worker, work[i][w].pc # "idle", work'[i][w].pc = "idle",
           NEW j \in IX, NEW v \in Worker, NEW st, Finish(j, v, st)
    PROVE  j = i /\ v = w /\ report'.status = st
  BY DEF Finish, Step, WorkInv

\* What is known of a worker in the middle of a sync.
LEMMA Busy ==
    ASSUME IInv, NEW i \in IX, NEW w \in Worker, work[i][w].pc # "idle"
    PROVE  LET me == work[i][w]
           IN  /\ RecOK(me) /\ me.peer \in IX /\ GoodLog(me.seen) /\ GoodLog(log[i])
               /\ GoodLog(log[me.peer]) /\ log \in [IX -> Seq(Event)]
               /\ me.from \in Nat /\ me.remote.seq \in Nat
  <1> DEFINE me == work[i][w]
  <1>1. me \in WorkerRec /\ RecOK(me)
    BY WorkerFacts DEF IInv
  <1>2. me.from \in Nat /\ me.remote.seq \in Nat
    <2> HIDE DEF me
    <2> QED
      BY <1>1, RecFacts
  <1>3. me.peer \in IX /\ GoodLog(me.seen)
    BY <1>1, Zenon DEF RecOK
  <1>4. log \in [IX -> Seq(Event)] /\ \A j \in IX : GoodLog(log[j])
    BY Zenon DEF IInv, LogInv
  <1> QED
    BY <1>1, <1>2, <1>3, <1>4, Zenon

\* "synced" from the comparison of the heads.
LEMMA CompareTrue ==
    ASSUME IInv, NEW i \in IX, NEW w \in Worker, Compare(i, w), work'[i][w].pc = "idle"
    PROVE  ReportTrue(i, work[i][w])
  <1> DEFINE me == work[i][w]
  <1>1. me.pc = "compare" /\ log' = log
    BY DEF Compare, logVars
  <1>2. /\ GoodLog(me.seen) /\ GoodLog(log[i]) /\ me.remote = LogHead(me.seen)
    BY <1>1, Busy, ZenonT(60) DEF RecOK
  <1>3. CASE /\ Finish(i, w, "synced") /\ LogHead(log[i]).seq = me.remote.seq
             /\ LogHead(log[i]).hash = me.remote.hash
    <2>1. report'.status = "synced"
      BY <1>3 DEF Finish
    <2>2. log[i] = me.seen
      <3> HIDE DEF me
      <3>1. LogHead(me.seen).seq = Len(me.seen) /\ LogHead(me.seen).hash = Hash(me.seen[Len(me.seen)])
        BY <1>2, HeadOfGood, Zenon
      <3>2. LogHead(log[i]).seq = Len(log[i]) /\ LogHead(log[i]).hash = Hash(log[i][Len(log[i])])
        BY <1>2, HeadOfGood, Zenon
      <3>3. Len(log[i]) = Len(me.seen) /\ Hash(log[i][Len(log[i])]) = Hash(me.seen[Len(me.seen)])
        BY <1>2, <1>3, <3>1, <3>2, Zenon
      <3> QED
        BY <1>2, <3>3, SameHead, Zenon
    <2> QED
      BY <1>1, <2>1, <2>2, ZenonT(60) DEF ReportTrue
  <1>4. CASE Finish(i, w, "conflict") \/ report' = NoReport
    <2>1. report'.status = "none" \/ report'.status = "conflict"
      BY <1>4, Recorded, Zenon
    <2> QED
      BY <2>1, Zenon DEF ReportTrue
  <1> QED
    BY <1>3, <1>4 DEF Compare

\* "pulled".
LEMMA PulledTrue ==
    ASSUME IInv, NEW i \in IX, NEW w \in Worker, AppendPulled(i, w)
    PROVE  ReportTrue(i, work[i][w])
  <1> DEFINE me == work[i][w]
  <1>1. me.pc = "append"
    BY DEF AppendPulled
  <1>2. /\ GoodLog(me.seen) /\ GoodLog(log[i]) /\ log \in [IX -> Seq(Event)]
        /\ me.from \in Nat /\ me.remote.seq \in Nat
        /\ InRange(me.seen, me.from, me.remote.seq)
        /\ me.events = LogRange(me.seen, me.from, me.remote.seq)
    BY <1>1, Busy, Zenon DEF RecOK
  <1>3. CASE Finish(i, w, "conflict") \/ Finish(i, w, "error")
    <2>1. report'.status = "conflict" \/ report'.status = "error"
      BY <1>3, Recorded, Zenon
    <2> QED
      BY <2>1, Zenon DEF ReportTrue
  <1>4. ASSUME CanAppend(log[i], me.events), Finish(i, w, "pulled"),
               log' = [log EXCEPT ![i] = log[i] \o me.events]
        PROVE  ReportTrue(i, me)
    <2>1. IsPrefixOf(log[i] \o me.events, me.seen)
      <3>1. CanAppend(log[i], LogRange(me.seen, me.from, me.remote.seq))
        BY <1>2, <1>4, Zenon
      <3>2. IsPrefixOf(log[i] \o LogRange(me.seen, me.from, me.remote.seq), me.seen)
        <4> HIDE DEF me
        <4> QED
          BY <1>2, <3>1, AcceptedRange, Zenon
      <3> QED
        BY <1>2, <3>2, Zenon
    <2>2. report'.status = "pulled" /\ log'[i] = log[i] \o me.events
      BY <1>2, <1>4, Zenon DEF Finish
    <2> QED
      BY <2>1, <2>2, Zenon DEF ReportTrue
  <1> QED
    BY <1>3, <1>4, Zenon DEF AppendPulled, Commit, Reported

\* "synced" from the search of the remote head in the local log.
LEMMA AfterTrue ==
    ASSUME IInv, NEW i \in IX, NEW w \in Worker, After(i, w), work'[i][w].pc = "idle"
    PROVE  ReportTrue(i, work[i][w])
  <1> DEFINE me == work[i][w]
  <1>1. me.pc = "after" /\ log' = log
    BY DEF After, logVars
  <1>2. GoodLog(me.seen) /\ GoodLog(log[i]) /\ me.remote = LogHead(me.seen)
    BY <1>1, Busy, ZenonT(60) DEF RecOK
  <1>3. CASE Finish(i, w, "synced") /\ IsLocalPrefix(me.remote, log[i]) /\ me.remote.seq = Len(log[i])
    <2>1. report'.status = "synced"
      BY <1>3, ZenonT(60) DEF Finish
    <2>2. /\ me.remote.seq = Len(me.seen) /\ me.remote.hash = Hash(me.seen[Len(me.seen)])
          /\ Len(me.seen) \in Nat /\ Len(me.seen) > 0
      BY <1>2, HeadOfGood
    <2>3. Len(log[i]) = Len(me.seen) /\ Hash(log[i][Len(log[i])]) = Hash(me.seen[Len(me.seen)])
      <3>1. me.remote.seq # 0
        <4> HIDE DEF me
        <4> QED
          BY <2>2
      <3>2. Hash(log[i][me.remote.seq]) = me.remote.hash
        BY <1>3, <3>1, Zenon DEF IsLocalPrefix
      <3> QED
        BY <1>3, <2>2, <3>2, Zenon
    <2>4. log[i] = me.seen
      BY <1>2, <2>3, SameHead, ZenonT(60)
    <2> QED
      BY <1>1, <2>1, <2>4, ZenonT(60) DEF ReportTrue
  <1>4. CASE Finish(i, w, "conflict") \/ report' = NoReport
    <2>1. report'.status = "none" \/ report'.status = "conflict"
      BY <1>4, Recorded, Zenon
    <2> QED
      BY <2>1, Zenon DEF ReportTrue
  <1> QED
    BY <1>3, <1>4 DEF After

\* "pushed".
LEMMA PushedTrue ==
    ASSUME IInv, NEW i \in IX, NEW w \in Worker, Push(i, w)
    PROVE  ReportTrue(i, work[i][w])
  <1> DEFINE me == work[i][w]
  <1>1. me.pc = "push"
    BY DEF Push
  <1>2. /\ GoodLog(me.seen) /\ GoodLog(log[me.peer]) /\ log \in [IX -> Seq(Event)] /\ me.peer \in IX
        /\ me.remote.seq \in Nat /\ me.remote.seq < Len(me.seen)
        /\ me.events = LogRange(me.seen, me.remote.seq + 1, Len(me.seen))
    BY <1>1, Busy, ZenonT(60) DEF RecOK
  <1>3. CASE Finish(i, w, "conflict") \/ Finish(i, w, "error")
    <2>1. report'.status = "conflict" \/ report'.status = "error"
      BY <1>3, Recorded, Zenon
    <2> QED
      BY <2>1, Zenon DEF ReportTrue
  <1>4. ASSUME CanAppend(log[me.peer], me.events), Finish(i, w, "pushed"),
               log' = [log EXCEPT ![me.peer] = log[me.peer] \o me.events]
        PROVE  ReportTrue(i, me)
    <2>1. log[me.peer] \o LogRange(me.seen, me.remote.seq + 1, Len(me.seen)) = me.seen
      <3>1. CanAppend(log[me.peer], LogRange(me.seen, me.remote.seq + 1, Len(me.seen)))
        BY <1>2, <1>4, Zenon
      <3> QED
        BY <1>2, <3>1, AcceptedRest, Zenon
    <2>2. report'.status = "pushed" /\ log'[me.peer] = log[me.peer] \o me.events
      BY <1>2, <1>4, Zenon DEF Finish
    <2> QED
      BY <1>2, <2>1, <2>2, Zenon DEF ReportTrue
  <1> QED
    BY <1>3, <1>4, Zenon DEF Push, Commit, Reported

\* "rejoined".
LEMMA RejoinedTrue ==
    ASSUME IInv, NEW i \in IX, NEW r \in Requests, NEW preserve \in BOOLEAN, NEW rollback \in BOOLEAN,
           ReplaceLog(i, r, preserve, rollback)
    PROVE  ReportTrue(i, work[i][r])
  <1> DEFINE me == work[i][r]
  <1>1. me.pc = "replace" /\ r \in Worker
    BY DEF ReplaceLog, Worker
  <1>2. me.events = me.seen /\ me.seen \in Seq(Event) /\ log \in [IX -> Seq(Event)]
    BY <1>1, Busy, Zenon DEF RecOK, GoodLog
  <1>3. PICK base \in Baselines(i, me.events, preserve), durable \in BOOLEAN :
          /\ log' = [log EXCEPT ![i] = IF rollback THEN log[i] ELSE me.events \o base]
          /\ \E st \in Reported("rejoined", durable /\ ~rollback) : Finish(i, r, st)
    BY Zenon DEF ReplaceLog
  <1>4. CASE Finish(i, r, "error")
    <2>1. report'.status = "conflict" \/ report'.status = "error"
      BY <1>4, Recorded, ZenonT(60)
    <2> QED
      BY <2>1, Zenon DEF ReportTrue
  <1>5. CASE Finish(i, r, "rejoined") /\ ~rollback
    <2>1. base = <<>> \/ \E e \in Event : base = <<e>>
      BY Zenon DEF Baselines
    <2>2. base \in Seq(Event)
      <3>1. <<>> \in Seq(Event) /\ \A e \in Event : <<e>> \in Seq(Event)
        OBVIOUS
      <3> QED
        BY <2>1, <3>1, ZenonT(60)
    <2>3. IsPrefixOf(me.seen, me.seen \o base)
      BY <1>2, <2>2, ConcatExtends, Zenon
    <2>4. report'.status = "rejoined" /\ log'[i] = me.seen \o base
      BY <1>2, <1>3, <1>5, Zenon DEF Finish
    <2> QED
      BY <2>3, <2>4 DEF ReportTrue
  <1> QED
    <2>1. PICK st \in Reported("rejoined", durable /\ ~rollback) : Finish(i, r, st)
      BY <1>3, Zenon
    <2>2. st = "error" \/ (st = "rejoined" /\ ~rollback)
      BY <2>1, Zenon DEF Reported
    <2> QED
      BY <1>4, <1>5, <2>1, <2>2, Zenon

\* A finished sync told the truth about the whole logs.
LEMMA StepTrue ==
    ASSUME IInv, Next, NEW i \in IX, NEW w \in Worker, work[i][w].pc # "idle", work'[i][w].pc = "idle"
    PROVE  ReportTrue(i, work[i][w])
  <1>0. WorkInv
    BY DEF IInv
  <1>1. CASE report' = NoReport
    <2>1. report'.status = "none"
      BY <1>1, Recorded, Zenon
    <2> QED
      BY <2>1, Zenon DEF ReportTrue
  <1>2. CASE report'.status = "error"
    BY <1>2, Zenon DEF ReportTrue
  <1>3. ASSUME NEW j \in IX, NEW v \in Worker, SyncStep(j, v) PROVE ReportTrue(i, work[i][w])
    <2>1. CASE Compare(j, v)
      <3>1. CASE \E st : Finish(j, v, st)
        <4>1. j = i /\ v = w
          BY <1>0, <3>1, FinishIsMine, ZenonT(60)
        <4> QED
          BY <2>1, <4>1, CompareTrue, Zenon
      <3> QED
        BY <1>1, <2>1, <3>1 DEF Compare
    <2>2. CASE AppendPulled(j, v)
      <3>1. \E st : Finish(j, v, st)
        BY <2>2, Zenon DEF AppendPulled
      <3> QED
        <4>1. j = i /\ v = w
          BY <1>0, <3>1, FinishIsMine, ZenonT(60)
        <4> QED
          BY <2>2, <4>1, PulledTrue, Zenon
    <2>3. CASE After(j, v)
      <3>1. CASE \E st : Finish(j, v, st)
        <4>1. j = i /\ v = w
          BY <1>0, <3>1, FinishIsMine, ZenonT(60)
        <4> QED
          BY <2>3, <4>1, AfterTrue, Zenon
      <3> QED
        BY <1>1, <2>3, <3>1, SMTT(30) DEF After
    <2>4. CASE Push(j, v)
      <3>1. \E st : Finish(j, v, st)
        BY <2>4, Zenon DEF Push
      <3> QED
        <4>1. j = i /\ v = w
          BY <1>0, <3>1, FinishIsMine, ZenonT(60)
        <4> QED
          BY <2>4, <4>1, PushedTrue, Zenon
    <2>5. CASE PushTimesOut(j, v) \/ SyncFails(j, v)
      <3>1. Finish(j, v, "error")
        BY <2>5, Zenon DEF PushTimesOut, SyncFails
      <3> QED
        BY <1>2, <3>1, Recorded, Zenon
    <2>6. ASSUME NEW p \in IX, LearnFails(j, v, p) PROVE ReportTrue(i, work[i][w])
      BY <1>2, <2>6 DEF LearnFails
    <2> QED
      BY <1>1, <1>3, <2>1, <2>2, <2>3, <2>4, <2>5, <2>6, Zenon DEF SyncStep, Fetch, LearnHead
  <1>4. ASSUME NEW j \in IX, NEW r \in Requests, RequestStep(j, r) PROVE ReportTrue(i, work[i][w])
    <2>1. r \in Worker
      BY DEF Worker
    <2>2. CASE RejoinFails(j, r)
      <3>1. Finish(j, r, "error") \/ Finish(j, r, "conflict")
        BY <2>2, Zenon DEF RejoinFails
      <3>2. report'.status = "error" \/ report'.status = "conflict"
        BY <3>1, Recorded, Zenon
      <3> QED
        BY <3>2, Zenon DEF ReportTrue
    <2>3. ASSUME NEW preserve \in BOOLEAN, NEW rollback \in BOOLEAN, ReplaceLog(j, r, preserve, rollback)
          PROVE  ReportTrue(i, work[i][w])
      <3>1. \E st : Finish(j, r, st)
        BY <2>3, Zenon DEF ReplaceLog
      <3> QED
        <4>1. j = i /\ r = w
          BY <1>0, <2>1, <3>1, FinishIsMine, ZenonT(60)
        <4> QED
          BY <2>3, <4>1, RejoinedTrue, Zenon
    <2> QED
      BY <1>1, <1>4, <2>2, <2>3, Zenon
      DEF RequestStep, BeginMutation, MutationFails, CommitMutation, LearnPlannedHead, FetchSnapshot
  <1> QED
    BY <1>1, <1>3, <1>4, Zenon DEF Next, Restart, DeliverLate

\* What a finished sync reports is true of the whole logs, for any number of
\* IXs and workers and every interleaving with failures and crashes.
THEOREM SyncReportTheorem == Spec => SyncReportIsTrue
  <1> DEFINE AllTrue == \A i \in IX, w \in Worker :
                work[i][w].pc # "idle" /\ work'[i][w].pc = "idle" => ReportTrue(i, work[i][w])
  <1>1. IInv /\ [Next]_vars => [AllTrue]_vars
    BY StepTrue
  <1> QED
    BY <1>1, Invariance, PTL DEF Spec, SyncReportIsTrue
=============================================================================
