------------------------ MODULE AFXDPTransmitProofs ------------------------
(***************************************************************************)
(* No frame of the sending pool is lost or in two places, and no published *)
(* frame is forgotten, for any pool, ring size, kick batch and setting of  *)
(* the socket, and however sends, completion loop and kernel interleave.   *)
(*                                                                         *)
(* Both invariants are inductive together with what a send knows at each   *)
(* of its steps (JobInv): it has a frame when it publishes, which is what  *)
(* makes the pending count positive, none once it has published, so that   *)
(* it may end without giving any back, and an item left when it looks for  *)
(* a frame.                                                                *)
(***************************************************************************)
EXTENDS AFXDPTransmit, FiniteSetTheorems, TLAPS

\* FramesAccounted, written out.
Partition ==
    /\ free \cup job.got \cup tx \cup inflight \cup comp = Frames
    /\ free \cap job.got = {} /\ free \cap tx = {} /\ free \cap inflight = {} /\ free \cap comp = {}
    /\ job.got \cap tx = {} /\ job.got \cap inflight = {} /\ job.got \cap comp = {}
    /\ tx \cap inflight = {} /\ tx \cap comp = {} /\ inflight \cap comp = {}

JobInv ==
    /\ job.pc \in {"acquire", "starved"} => job.left > 0
    /\ job.pc \in {"push", "full", "retry"} => job.got # {}
    /\ job.pc \in {"idle", "kick", "flush", "finish"} => job.got = {}

IInv == TypeOK /\ JobInv /\ Partition /\ KicksRemembered

Pending == 0..(IF KickBatch <= 1 THEN 1 ELSE KickBatch)

\* What a kick, and a flush, which is a kick or nothing, may do.
Kicked ==
    /\ tx' \subseteq tx /\ inflight' = inflight \cup (tx \ tx')
    /\ pendingKick' \in Pending
    /\ softKick' \in BOOLEAN /\ recentKick' \in BOOLEAN /\ awake' \in BOOLEAN
    /\ failures' \in 0..MaxFailures
    /\ KicksRemembered'

LEMMA Places == FramesAccounted <=> Partition
  <1> DEFINE places == <<free, job.got, tx, inflight, comp>>
  <1>1. /\ places[1] = free /\ places[2] = job.got /\ places[3] = tx
        /\ places[4] = inflight /\ places[5] = comp
    OBVIOUS
  <1>2. 1..5 = {1, 2, 3, 4, 5}
    OBVIOUS
  <1> HIDE DEF places
  <1>3. UNION {places[i] : i \in 1..5} = free \cup job.got \cup tx \cup inflight \cup comp
    BY <1>1, <1>2
  <1>4. (\A i, j \in 1..5 : i # j => places[i] \cap places[j] = {}) <=>
          /\ free \cap job.got = {} /\ free \cap tx = {} /\ free \cap inflight = {} /\ free \cap comp = {}
          /\ job.got \cap tx = {} /\ job.got \cap inflight = {} /\ job.got \cap comp = {}
          /\ tx \cap inflight = {} /\ tx \cap comp = {} /\ inflight \cap comp = {}
    BY <1>1, <1>2
  <1> QED BY <1>3, <1>4 DEF FramesAccounted, Partition, places

LEMMA NoJobFacts ==
  /\ NoJob \in JobRec /\ NoJob.pc = "idle" /\ NoJob.got = {}
  BY TransmitAssumption DEF NoJob, JobRec

\* A socket that was just opened.
LEMMA InitInv == Init => IInv
  <1> SUFFICES ASSUME Init PROVE IInv
    OBVIOUS
  <1> USE DEF Init
  <1>1. TypeOK
    <2>1. pendingKick \in Pending /\ sends \in 0..MaxSends /\ failures \in 0..MaxFailures
      BY TransmitAssumption DEF Pending
    <2> QED BY <2>1, NoJobFacts DEF TypeOK, Pending
  <1>2. JobInv /\ Partition /\ KicksRemembered
    BY NoJobFacts DEF JobInv, Partition, KicksRemembered
  <1> QED BY <1>1, <1>2 DEF IInv

LEMMA NothingKicked ==
  ASSUME TypeOK, KicksRemembered, NoKick
  PROVE  Kicked
  BY DEF TypeOK, NoKick, kicks, Kicked, KicksRemembered, Pending

\* A kick that is refused changes nothing the count depends on; one that is
\* not leaves the kernel at work as long as the ring is not empty.
LEMMA KickLocked ==
  ASSUME TypeOK, KicksRemembered, NEW o, kickTXLocked(o)
  PROVE  Kicked
  <1> USE DEF Kicked
  <1>1. CASE o = "backoff"
    <2>1. NoKick
      BY <1>1 DEF kickTXLocked, NoKick
    <2> QED BY <2>1, NothingKicked
  <1>2. CASE o \in {"ok", "soft", "hard"}
    <2>1. kickTX(o)
      BY <1>2 DEF kickTXLocked
    <2>2. /\ tx' \subseteq tx /\ inflight' = inflight \cup (tx \ tx')
          /\ failures' \in 0..MaxFailures /\ awake' \in BOOLEAN
      <3>1. CASE UNCHANGED <<tx, inflight, awake, failures>>
        BY <3>1 DEF TypeOK
      <3>2. CASE awake' = (tx # {}) /\ UNCHANGED <<tx, inflight, failures>>
        BY <3>2 DEF TypeOK
      <3>3. CASE failures < MaxFailures /\ failures' = failures + 1 /\ UNCHANGED awake
        <4>1. failures' \in 0..MaxFailures /\ awake' \in BOOLEAN
          BY <3>3, TransmitAssumption DEF TypeOK
        <4>2. tx' \subseteq tx /\ inflight' = inflight \cup (tx \ tx')
          BY <2>1, <3>3 DEF kickTX, TypeOK
        <4> QED BY <4>1, <4>2
      <3> QED BY <2>1, <3>1, <3>2, <3>3 DEF kickTX
    <2>3. pendingKick' = IF o = "ok" THEN 0 ELSE pendingKick
      BY <1>2 DEF kickTXLocked
    <2>4. pendingKick' \in Pending
      <3>1. 0 \in Pending
        BY TransmitAssumption DEF Pending
      <3>2. pendingKick \in Pending
        BY DEF TypeOK, Pending
      <3> QED BY <2>3, <3>1, <3>2
    <2>5. softKick' \in BOOLEAN /\ recentKick' \in BOOLEAN
      BY <1>2, TransmitAssumption DEF kickTXLocked, TypeOK
    <2>6. KicksRemembered'
      <3>1. CASE o = "ok"
        BY <2>1, <3>1 DEF kickTX, KicksRemembered, TypeOK
      <3>2. CASE o # "ok"
        BY <2>1, <2>2, <2>3, <3>2 DEF kickTX, KicksRemembered
      <3> QED BY <3>1, <3>2
    <2> QED BY <2>2, <2>4, <2>5, <2>6
  <1> QED BY <1>1, <1>2 DEF kickTXLocked

LEMMA Flushed ==
  ASSUME TypeOK, KicksRemembered, flushTXPendingLocked
  PROVE  Kicked
  BY NothingKicked, KickLocked DEF flushTXPendingLocked

\* The pool, the send and the completion ring may exchange frames while a kick
\* moves frames from the TX ring to the kernel.
LEMMA Regrouped ==
  ASSUME Partition, tx' \subseteq tx, inflight' = inflight \cup (tx \ tx'),
         free' \cup job'.got \cup comp' = free \cup job.got \cup comp,
         free' \cap job'.got = {}, free' \cap comp' = {}, job'.got \cap comp' = {}
  PROVE  Partition'
  BY DEF Partition

\* Steps of a send and of the loop, which kick or do not.
LEMMA StepInv ==
  ASSUME IInv, Kicked, job' \in JobRec, JobInv',
         free' \cup job'.got \cup comp' = free \cup job.got \cup comp,
         free' \cap job'.got = {}, free' \cap comp' = {}, job'.got \cap comp' = {},
         notified' \in BOOLEAN, loop' \in {"wait", "flush", "reclaim"}, sends' \in 0..MaxSends
  PROVE  IInv'
  <1>1. Partition'
    BY Regrouped DEF IInv, Kicked
  <1>2. free' \subseteq Frames /\ comp' \subseteq Frames
    BY DEF IInv, TypeOK, JobRec
  <1>3. tx' \subseteq Frames /\ inflight' \subseteq Frames
    BY DEF IInv, TypeOK, Kicked
  <1>4. TypeOK'
    BY <1>2, <1>3 DEF TypeOK, Kicked, Pending
  <1> QED BY <1>1, <1>4 DEF IInv, Kicked

-----------------------------------------------------------------------------
\* A send that looks for a frame gets one and builds it, or gives up.
LEMMA Used ==
  ASSUME TypeOK, JobInv, job.pc \in {"acquire", "starved"},
         NEW pool \in SUBSET Frames, pool \cap job.got = {},
         NEW Items \in SUBSET (1..job.left), UseFrame(pool, Items)
  PROVE  /\ job' \in JobRec /\ JobInv'
         /\ free' \cup job'.got = pool \cup job.got /\ free' \cap job'.got = {}
  <1>1. CASE Fail(pool)
    BY <1>1, NoJobFacts DEF Fail, JobInv
  <1>2. ASSUME NEW a \in pool, NEW items \in Items, Built(pool, a, items)
        PROVE  /\ job' \in JobRec /\ JobInv'
               /\ free' \cup job'.got = pool \cup job.got /\ free' \cap job'.got = {}
    <2> DEFINE left == job.left - items
               pc == IF job.batch /\ left > 0 THEN "acquire" ELSE "push"
               got == job.got \cup {a}
    <2>1. left \in 0..MaxItems /\ (pc = "acquire" => left > 0) /\ pc \in {"acquire", "push"}
      BY TransmitAssumption DEF TypeOK, JobRec
    <2>2. /\ job' = [job EXCEPT !.got = got, !.left = left, !.wait = "no", !.pc = pc]
          /\ free' = pool \ {a}
      BY <1>2 DEF Built
    <2>3. got # {}
      OBVIOUS
    <2>4. job \in JobRec
      BY DEF TypeOK
    <2>5. got \subseteq Frames
      BY DEF TypeOK, JobRec
    <2> HIDE DEF left, pc, got
    <2>6. job'.got = got /\ job'.left = left /\ job'.pc = pc /\ job' \in JobRec
      BY <2>1, <2>2, <2>4, <2>5 DEF JobRec
    <2>7. JobInv'
      BY <2>1, <2>3, <2>6 DEF JobInv
    <2>8. free' \cup job'.got = pool \cup job.got /\ free' \cap job'.got = {}
      BY <2>2, <2>6 DEF got
    <2> QED BY <2>6, <2>7, <2>8
  <1> QED BY <1>1, <1>2 DEF UseFrame

\* The first look for a frame, which kicks nothing.
LEMMA AcquireInv ==
  ASSUME IInv, NEW Items \in SUBSET (1..job.left), AcquireTXFrame(Items)
  PROVE  IInv'
  <1> DEFINE pool == IF ~job.active THEN free \cup comp ELSE free
  <1>1. Kicked
    BY NothingKicked DEF IInv, AcquireTXFrame
  <1>2. job \in JobRec /\ job.pc = "acquire" /\ job.left > 0
    BY DEF IInv, TypeOK, JobInv, AcquireTXFrame
  <1>3. pool \cap job.got = {} /\ pool \subseteq Frames
    BY DEF IInv, TypeOK, Partition
  <1>4. pool \cap comp' = {} /\ pool \cup comp' = free \cup comp /\ job.got \cap comp' = {}
    BY DEF IInv, Partition, AcquireTXFrame
  <1>5. UNCHANGED <<notified, loop, sends>>
    BY DEF AcquireTXFrame
  <1>6. \/ UseFrame(pool, Items)
        \/ pool = {} /\ job' = [job EXCEPT !.pc = "starved", !.wait = "yes"] /\ UNCHANGED free
        \/ Fail(pool)
    BY DEF AcquireTXFrame
  <1> HIDE DEF pool
  <1>7. /\ job' \in JobRec /\ JobInv'
        /\ free' \cup job'.got = pool \cup job.got /\ free' \cap job'.got = {}
    <2>1. CASE UseFrame(pool, Items)
      BY <1>2, <1>3, <2>1, Used DEF IInv
    <2>2. CASE pool = {} /\ job' = [job EXCEPT !.pc = "starved", !.wait = "yes"] /\ UNCHANGED free
      <3>1. job'.got = job.got /\ job'.left = job.left /\ job'.pc = "starved" /\ job' \in JobRec
        BY <1>2, <2>2 DEF JobRec
      <3>2. free = {} 
        BY <2>2 DEF pool
      <3> QED BY <1>2, <2>2, <3>1, <3>2 DEF JobInv
    <2>3. CASE Fail(pool)
      BY <2>3, NoJobFacts DEF Fail, JobInv
    <2> QED BY <1>6, <2>1, <2>2, <2>3
  <1>8. free' \cap comp' = {} /\ job'.got \cap comp' = {}
    BY <1>4, <1>7
  <1>9. free' \cup job'.got \cup comp' = free \cup job.got \cup comp
    BY <1>4, <1>7
  <1> QED BY <1>1, <1>5, <1>7, <1>8, <1>9, StepInv DEF IInv, TypeOK

\* A round of the wait for a frame, which kicks.
LEMMA AwaitInv ==
  ASSUME IInv, NEW Items \in SUBSET (1..job.left), AwaitTXFrame(Items)
  PROVE  IInv'
  <1> DEFINE pool == free \cup comp
  <1>1. Kicked
    BY NothingKicked, KickLocked DEF IInv, AwaitTXFrame
  <1>2. job \in JobRec /\ job.pc = "starved" /\ job.left > 0
    BY DEF IInv, TypeOK, JobInv, AwaitTXFrame
  <1>3. pool \cap job.got = {} /\ pool \subseteq Frames
    BY DEF IInv, TypeOK, Partition
  <1>4. comp' = {} /\ UNCHANGED <<notified, loop, sends>>
    BY DEF AwaitTXFrame
  <1>5. \/ UseFrame(pool, Items)
        \/ Fail(pool)
        \/ pool = {} /\ UNCHANGED <<job, free>>
    BY DEF AwaitTXFrame
  <1>6. /\ job' \in JobRec /\ JobInv'
        /\ free' \cup job'.got = pool \cup job.got /\ free' \cap job'.got = {}
    <2> HIDE DEF pool
    <2>1. CASE UseFrame(pool, Items)
      BY <1>2, <1>3, <2>1, Used DEF IInv
    <2>2. CASE Fail(pool)
      BY <2>2, NoJobFacts DEF Fail, JobInv
    <2>3. CASE pool = {} /\ UNCHANGED <<job, free>>
      BY <1>2, <2>3 DEF JobInv, pool
    <2> QED BY <1>5, <2>1, <2>2, <2>3
  <1> QED BY <1>1, <1>4, <1>6, StepInv DEF IInv, TypeOK

LEMMA BuildInv ==
  ASSUME IInv, NEW Items \in SUBSET (1..job.left), BuildStep(Items)
  PROVE  IInv'
  <1>1. CASE Oversize
    <2>1. Kicked
      BY <1>1, NothingKicked DEF IInv, Oversize
    <2>2. /\ free' = free \cup job.got /\ job' = NoJob
          /\ UNCHANGED <<comp, notified, loop, sends>>
      BY <1>1 DEF Oversize, Fail
    <2>3. job' \in JobRec /\ JobInv' /\ job'.got = {}
      BY <2>2, NoJobFacts DEF JobInv
    <2>4. free' \cap comp' = {}
      BY <2>2 DEF IInv, Partition
    <2> QED BY <2>1, <2>2, <2>3, <2>4, StepInv DEF IInv, TypeOK
  <1> QED BY <1>1, AcquireInv, AwaitInv DEF BuildStep

\* One item fits: a send that builds has one left.
LEMMA BuildOneInv ==
  ASSUME IInv, BuildStep({1})
  PROVE  IInv'
  <1>1. job.pc \in {"acquire", "starved"}
    BY DEF BuildStep, AcquireTXFrame, AwaitTXFrame, Oversize
  <1>2. {1} \in SUBSET (1..job.left)
    BY <1>1, TransmitAssumption DEF IInv, TypeOK, JobRec, JobInv
  <1> QED BY <1>2, BuildInv

\* Publishing: the frames of the send become pending with the first push.
LEMMA PushedInv ==
  ASSUME IInv, job.pc \in {"push", "retry"}, Pushed
  PROVE  IInv'
  <1> DEFINE count == Cardinality(job.got)
  <1>1. job \in JobRec /\ job.got # {} /\ job.got \subseteq Frames
    BY DEF IInv, TypeOK, JobInv, JobRec
  <1>2. count \in Nat \ {0}
    BY <1>1, TransmitAssumption, FS_Subset, FS_EmptySet, FS_CardinalityType
  <1> HIDE DEF count
  <1>3. job' = [job EXCEPT !.pc = "kick", !.count = count, !.got = {}, !.wait = "no"]
    BY DEF Pushed, count
  <1>4. job' \in JobRec /\ job'.pc = "kick" /\ job'.got = {}
    BY <1>1, <1>2, <1>3 DEF JobRec
  <1>5. pendingKick' = Marked(count)
    BY DEF Pushed, markTXPendingBatchLocked, count
  <1>6. Marked(count) \in Pending /\ Marked(count) > 0
    BY <1>2, TransmitAssumption DEF IInv, TypeOK, Marked, Pending
  <1>7. notified' \in BOOLEAN
    BY DEF Pushed, markTXPendingBatchLocked, IInv, TypeOK
  <1>8. /\ tx' = tx \cup job.got
        /\ UNCHANGED <<free, inflight, comp, softKick, recentKick, awake, loop, sends, failures>>
    BY DEF Pushed
  <1>9. TypeOK'
    BY <1>1, <1>4, <1>5, <1>6, <1>7, <1>8 DEF IInv, TypeOK, Pending
  <1>10. Partition'
    BY <1>4, <1>8 DEF IInv, Partition
  <1>11. JobInv' /\ KicksRemembered'
    BY <1>4, <1>5, <1>6 DEF JobInv, KicksRemembered
  <1> QED BY <1>9, <1>10, <1>11 DEF IInv

\* A step that changes where the send is, and nothing of what it has.
LEMMA MovesOn ==
  ASSUME IInv, NEW pc \in {"full", "retry", "acquire", "flush", "finish"}, NEW wait \in {"no", "yes", "over"},
         pc \in {"full", "retry"} => job.got # {}, pc = "acquire" => job.left > 0,
         pc \in {"flush", "finish"} => job.got = {},
         job' = [job EXCEPT !.pc = pc, !.wait = wait]
  PROVE  job' \in JobRec /\ JobInv' /\ job'.got = job.got
  <1>1. job \in JobRec
    BY DEF IInv, TypeOK
  <1>2. job' \in JobRec /\ job'.got = job.got /\ job'.pc = pc /\ job'.left = job.left
    BY <1>1 DEF JobRec
  <1> QED BY <1>2 DEF JobInv

LEMMA SameWait ==
  ASSUME IInv, NEW pc
  PROVE  [job EXCEPT !.pc = pc] = [job EXCEPT !.pc = pc, !.wait = job.wait]
  BY DEF IInv, TypeOK, JobRec

LEMMA PublishInv ==
  ASSUME IInv, PublishFirst \/ PublishKick \/ PublishRetry
  PROVE  IInv'
  <1> USE DEF IInv
  <1>1. job.got # {} /\ job.wait \in {"no", "yes", "over"}
    BY DEF TypeOK, JobInv, JobRec, PublishFirst, PublishKick, PublishRetry
  <1>2. CASE PublishFirst
    <2>1. CASE Pushed
      BY <1>2, <2>1, PushedInv DEF PublishFirst
    <2>2. CASE /\ job' = [job EXCEPT !.pc = "full"]
               /\ UNCHANGED <<frames, kicks, notified, awake, loop, sends, failures>>
      <3>1. NoKick /\ UNCHANGED <<free, comp, notified, loop, sends>>
        BY <2>2 DEF NoKick, frames, kicks
      <3>2. job' \in JobRec /\ JobInv' /\ job'.got = job.got
        BY <1>1, <2>2, MovesOn, SameWait
      <3>3. Kicked
        BY <3>1, NothingKicked
      <3> QED BY <3>1, <3>2, <3>3, StepInv DEF TypeOK, Partition
    <2> QED BY <1>2, <2>1, <2>2 DEF PublishFirst
  <1>3. CASE PublishKick
    <2>1. Kicked /\ UNCHANGED <<notified, loop, sends>>
      BY <1>3, KickLocked DEF PublishKick
    <2>2. CASE Fail(free) /\ UNCHANGED comp
      <3>1. job' \in JobRec /\ JobInv' /\ job'.got = {} /\ free' = free \cup job.got
        BY <2>2, NoJobFacts DEF Fail, JobInv
      <3>2. free' \cap comp' = {}
        BY <2>2, <3>1 DEF Partition
      <3> QED BY <2>1, <2>2, <3>1, <3>2, StepInv DEF TypeOK
    <2>3. CASE free' = free \cup comp /\ comp' = {} /\ job' = [job EXCEPT !.pc = "retry"]
      <3>1. job' \in JobRec /\ JobInv' /\ job'.got = job.got
        BY <1>1, <2>3, MovesOn, SameWait
      <3>2. free' \cap job'.got = {}
        BY <2>3, <3>1 DEF Partition
      <3> QED BY <2>1, <2>3, <3>1, <3>2, StepInv DEF TypeOK
    <2> QED BY <1>3, <2>2, <2>3 DEF PublishKick
  <1>4. CASE PublishRetry
    <2>1. CASE Pushed
      BY <1>4, <2>1, PushedInv DEF PublishRetry
    <2>2. CASE ~Pushed
      <3>1. NoKick /\ UNCHANGED <<comp, notified, loop, sends>>
        BY <1>4, <2>2 DEF PublishRetry, NoKick
      <3>2. Kicked
        BY <3>1, NothingKicked
      <3>3. CASE job' = [job EXCEPT !.pc = "full", !.wait = "yes"] /\ UNCHANGED free
        <4>1. job' \in JobRec /\ JobInv' /\ job'.got = job.got
          BY <1>1, <3>3, MovesOn
        <4> QED BY <3>1, <3>2, <3>3, <4>1, StepInv DEF TypeOK, Partition
      <3>4. CASE Fail(free)
        <4>1. job' \in JobRec /\ JobInv' /\ job'.got = {} /\ free' = free \cup job.got
          BY <3>4, NoJobFacts DEF Fail, JobInv
        <4>2. free' \cap comp' = {}
          BY <3>1, <4>1 DEF Partition
        <4> QED BY <3>1, <3>2, <4>1, <4>2, StepInv DEF TypeOK
      <3> QED BY <1>4, <2>2, <3>3, <3>4 DEF PublishRetry
    <2> QED BY <2>1, <2>2
  <1> QED BY <1>2, <1>3, <1>4

\* The end of a send that has published what it had.
LEMMA Ends ==
  ASSUME IInv, job.got = {}, job' = NoJob
  PROVE  job' \in JobRec /\ JobInv' /\ job'.got = job.got
  BY NoJobFacts DEF JobInv

LEMMA PublishedInv ==
  ASSUME IInv, kickTXIfNeededBatchLocked \/ FlushSend \/ finishTXBatchLocked
  PROVE  IInv'
  <1> USE DEF IInv
  <1>1. /\ job.got = {} /\ job.left \in Nat /\ job.wait \in {"no", "yes", "over"}
        /\ UNCHANGED <<free, comp, loop, sends>>
    BY DEF TypeOK, JobInv, JobRec, kickTXIfNeededBatchLocked, FlushSend, finishTXBatchLocked
  <1>2. Kicked /\ notified' \in BOOLEAN
    BY NothingKicked, KickLocked, Flushed
       DEF TypeOK, kickTXIfNeededBatchLocked, FlushSend, finishTXBatchLocked
  <1>3. job' \in JobRec /\ JobInv' /\ job'.got = job.got
    <2>1. CASE job' = NoJob
      BY <1>1, <2>1, Ends
    <2>2. CASE job' = [job EXCEPT !.pc = AfterPublish]
      <3>1. AfterPublish \in {"acquire", "flush", "finish"} /\ (AfterPublish = "acquire" => job.left > 0)
        BY DEF AfterPublish
      <3> QED BY <1>1, <2>2, <3>1, MovesOn, SameWait, ZenonT(60)
    <2> QED BY <2>1, <2>2 DEF kickTXIfNeededBatchLocked, FlushSend, finishTXBatchLocked
  <1> QED BY <1>1, <1>2, <1>3, StepInv DEF TypeOK, Partition

-----------------------------------------------------------------------------
LEMMA StartInv ==
  ASSUME IInv, NEW kind \in {"tcp", "multi", "udp", "crypto"}, NEW batch \in BOOLEAN,
         NEW active \in BOOLEAN, NEW n \in 1..MaxItems, Start(kind, batch, active, n)
  PROVE  IInv'
  <1> USE DEF IInv
  <1>1. Kicked
    BY NothingKicked DEF Start, NoKick
  <1>2. job' = [NoJob EXCEPT !.pc = "acquire", !.kind = kind, !.batch = batch,
                             !.active = active, !.left = n]
    BY DEF Start
  <1>3. job' \in JobRec /\ job'.pc = "acquire" /\ job'.left = n /\ job'.got = {}
    <2>1. n \in 0..MaxItems
      BY TransmitAssumption
    <2> QED BY <1>2, <2>1, NoJobFacts, ZenonT(60) DEF JobRec
  <1>4. JobInv' /\ job.got = {}
    BY <1>3 DEF JobInv, Start
  <1>5. UNCHANGED <<notified, loop>> /\ sends' \in 0..MaxSends
    BY TransmitAssumption DEF Start, TypeOK
  <1>6. free' \cup comp' = free \cup comp /\ free' \cap comp' = {}
    BY DEF Start, Partition
  <1> QED BY <1>1, <1>3, <1>4, <1>5, <1>6, StepInv DEF TypeOK

LEMMA SendInv ==
  ASSUME IInv, Send
  PROVE  IInv'
  <1>1. 1 \in 1..MaxItems /\ \A n \in 1..MaxItems : (n > 1) \in BOOLEAN
    BY TransmitAssumption
  <1>2. ASSUME NEW kind \in {"tcp", "multi", "udp", "crypto"}, NEW n \in 1..MaxItems, NEW active \in BOOLEAN,
               Start(kind, FALSE, active, n) \/ Start(kind, n > 1, active, n)
        PROVE  IInv'
    <2> DEFINE more == n > 1
    <2>1. more \in BOOLEAN
      BY <1>1
    <2> HIDE DEF more
    <2>2. Start(kind, FALSE, active, n) \/ Start(kind, more, active, n)
      BY <1>2 DEF more
    <2> QED BY <2>1, <2>2, StartInv
  <1>3. \E kind \in {"tcp", "multi", "udp", "crypto"}, n \in 1..MaxItems, active \in BOOLEAN :
           Start(kind, FALSE, active, n) \/ Start(kind, n > 1, active, n)
    <2>1. CASE SendFrame \/ SendFrames \/ SendPreparedFrames
      BY <1>1, <2>1, Zenon DEF SendFrame, SendFrames, SendPreparedFrames
    <2>2. CASE SendUDPFrame \/ SendPreparedUDPFrames
      BY <1>1, <2>2, Zenon DEF SendUDPFrame, SendPreparedUDPFrames
    <2>3. CASE SendKernelCryptoFrame \/ SendKernelCryptoFrames \/ SendPreparedKernelCryptoFrames
      BY <1>1, <2>3, Zenon
         DEF SendKernelCryptoFrame, SendKernelCryptoFrames, SendPreparedKernelCryptoFrames
    <2> QED BY <2>1, <2>2, <2>3 DEF Send
  <1> QED BY <1>2, <1>3

LEMMA SendStepInv ==
  ASSUME IInv, SendStep
  PROVE  IInv'
  <1>1. CASE publishPreparedFrameMultiFrameBatchLocked
    BY <1>1, BuildInv DEF publishPreparedFrameMultiFrameBatchLocked
  <1>2. CASE \/ publishPreparedFrameLocked \/ publishPreparedFrameBatchLocked
             \/ publishPreparedUDPFrameLocked \/ publishPreparedUDPFrameBatchLocked
             \/ publishPreparedKernelCryptoFrameLocked \/ publishPreparedKernelCryptoFrameBatchLocked
    BY <1>2, BuildOneInv
       DEF publishPreparedFrameLocked, publishPreparedFrameBatchLocked, publishPreparedUDPFrameLocked,
           publishPreparedUDPFrameBatchLocked, publishPreparedKernelCryptoFrameLocked,
           publishPreparedKernelCryptoFrameBatchLocked
  <1> QED BY <1>1, <1>2, PublishInv, PublishedInv DEF SendStep

\* The loop wakes, flushes and reclaims; only the last two touch the frames.
LEMMA LoopInv ==
  ASSUME IInv, LoopNotified \/ LoopTimer \/ flushTX \/ ReclaimCompletions
  PROVE  IInv'
  <1> USE DEF IInv
  <1>1. UNCHANGED <<job, sends>> /\ notified' \in BOOLEAN /\ loop' \in {"wait", "flush", "reclaim"}
    BY DEF LoopNotified, LoopTimer, flushTX, ReclaimCompletions, TypeOK
  <1>2. Kicked
    <2>1. NoKick \/ flushTXPendingLocked
      BY DEF LoopNotified, LoopTimer, flushTX, ReclaimCompletions, NoKick, frames, kicks
    <2> QED BY <2>1, NothingKicked, Flushed
  <1>3. free' \cup comp' = free \cup comp /\ free' \cap comp' = {} /\ free' \cap job.got = {}
        /\ job.got \cap comp' = {}
    BY DEF LoopNotified, LoopTimer, flushTX, ReclaimCompletions, frames, Partition
  <1>4. job' \in JobRec /\ JobInv'
    BY <1>1 DEF TypeOK, JobInv
  <1> QED BY <1>1, <1>2, <1>3, <1>4, StepInv DEF TypeOK

\* The kernel takes frames only from a ring it works on, and stops working on
\* one that is empty.
LEMMA KernelInv ==
  ASSUME IInv, KernelTake \/ KernelComplete \/ KernelSleep
  PROVE  IInv'
  <1> USE DEF IInv
  <1>1. UNCHANGED <<free, kicks, notified, job, loop, sends, failures>>
    BY DEF KernelTake, KernelComplete, KernelSleep, frames
  <1>2. /\ tx' \subseteq Frames /\ inflight' \subseteq Frames /\ comp' \subseteq Frames
        /\ awake' \in BOOLEAN
    BY DEF KernelTake, KernelComplete, KernelSleep, frames, TypeOK
  <1>3. TypeOK' /\ JobInv'
    BY <1>1, <1>2 DEF TypeOK, JobInv, kicks
  <1>4. Partition'
    <2>1. CASE KernelTake
      <3>1. PICK a \in tx : tx' = tx \ {a} /\ inflight' = inflight \cup {a}
        BY <2>1 DEF KernelTake
      <3>2. comp' = comp
        BY <2>1 DEF KernelTake
      <3> HIDE DEF IInv
      <3>3. tx' \cup inflight' = tx \cup inflight
        BY <3>1
      <3>4. tx' \cap inflight' = {}
        BY <3>1 DEF IInv, Partition
      <3> QED BY <1>1, <3>2, <3>3, <3>4, ZenonT(60) DEF IInv, Partition
    <2>2. CASE KernelComplete
      <3>1. PICK a \in inflight : inflight' = inflight \ {a} /\ comp' = comp \cup {a}
        BY <2>2 DEF KernelComplete
      <3>2. tx' = tx
        BY <2>2 DEF KernelComplete
      <3> HIDE DEF IInv
      <3>3. inflight' \cup comp' = inflight \cup comp
        BY <3>1
      <3>4. inflight' \cap comp' = {}
        BY <3>1 DEF IInv, Partition
      <3> QED BY <1>1, <3>2, <3>3, <3>4, ZenonT(60) DEF IInv, Partition
    <2>3. CASE KernelSleep
      BY <1>1, <2>3 DEF KernelSleep, frames, Partition
    <2> QED BY <2>1, <2>2, <2>3
  <1>5. KicksRemembered'
    BY <1>1 DEF KernelTake, KernelComplete, KernelSleep, frames, kicks, KicksRemembered
  <1> QED BY <1>3, <1>4, <1>5

LEMMA TimeInv ==
  ASSUME IInv, SoftKickLapses \/ FlushIntervalLapses \/ DeadlinePasses
  PROVE  IInv'
  <1> USE DEF IInv
  <1>1. /\ UNCHANGED <<frames, pendingKick, notified, awake, loop, sends, failures>>
        /\ softKick' \in BOOLEAN /\ recentKick' \in BOOLEAN
    BY DEF SoftKickLapses, FlushIntervalLapses, DeadlinePasses, kicks, TypeOK
  <1>2. job' \in JobRec /\ job'.got = job.got /\ JobInv'
    <2>1. CASE UNCHANGED job
      BY <2>1 DEF TypeOK, JobInv
    <2>2. CASE job' = [job EXCEPT !.wait = "over"]
      BY <2>2 DEF TypeOK, JobInv, JobRec
    <2> QED BY <2>1, <2>2 DEF SoftKickLapses, FlushIntervalLapses, DeadlinePasses
  <1>3. TypeOK' /\ Partition' /\ KicksRemembered'
    BY <1>1, <1>2 DEF TypeOK, Partition, KicksRemembered, frames
  <1> QED BY <1>2, <1>3

LEMMA NextInv == IInv /\ [Next]_vars => IInv'
  <1> SUFFICES ASSUME IInv, [Next]_vars PROVE IInv'
    OBVIOUS
  <1>1. CASE UNCHANGED vars
    <2>1. /\ UNCHANGED <<free, tx, inflight, comp, pendingKick, softKick, recentKick>>
          /\ UNCHANGED <<notified, awake, job, loop, sends, failures>>
      BY <1>1 DEF vars, frames, kicks
    <2>2. TypeOK'
      BY <2>1, ZenonT(60) DEF IInv, TypeOK
    <2>3. JobInv'
      BY <2>1, ZenonT(60) DEF IInv, JobInv
    <2>4. Partition' /\ KicksRemembered'
      BY <2>1, ZenonT(60) DEF IInv, Partition, KicksRemembered
    <2> QED BY <2>2, <2>3, <2>4 DEF IInv
  <1> QED BY <1>1, SendInv, SendStepInv, LoopInv, KernelInv, TimeInv DEF Next

LEMMA Invariance == Spec => []IInv
  BY InitInv, NextInv, PTL DEF Spec

-----------------------------------------------------------------------------
\* The rings, the counters and the record of the send are well typed; the
\* pending count never passes txKickBatch (markTXPendingBatchLocked).
THEOREM TypeCorrect == Spec => []TypeOK
  <1>1. IInv => TypeOK
    BY DEF IInv
  <1> QED BY <1>1, Invariance, PTL

\* Every frame of the sending pool is in exactly one place, through every
\* error path of the sends (releaseTXFrame) and every kick and reclaim.
THEOREM FramesAccountedTheorem == Spec => []FramesAccounted
  <1>1. IInv => FramesAccounted
    BY Places DEF IInv
  <1> QED BY <1>1, Invariance, PTL

\* Frames on the TX ring that the kernel does not know of are pending, whatever
\* kicks were skipped, refused or postponed (kickTXLocked and its callers).
THEOREM KicksRememberedTheorem == Spec => []KicksRemembered
  <1>1. IInv => KicksRemembered
    BY DEF IInv
  <1> QED BY <1>1, Invariance, PTL
============================================================================
