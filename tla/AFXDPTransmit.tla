----------------------------- MODULE AFXDPTransmit -----------------------------
(***************************************************************************)
(* The sending half of one AF_XDP socket: frames of the UMEM are taken     *)
(* from a pool, filled, published on the TX ring, handed to the kernel by  *)
(* a kick, and come back through the completion ring.                      *)
(*                                                                         *)
(* A send holds txMu from its first step to its last; the kernel, time and *)
(* the completion loop run beside it.  A kick may be skipped, refused or   *)
(* postponed, so what the socket remembers about it (txPendingKick,        *)
(* txLastKick, txLastSoftKick, the notification channel) has to make up    *)
(* for it later.                                                           *)
(*                                                                         *)
(* Addresses are model values; the rings are sets, as no property depends  *)
(* on the order in them.  Clocks are abstracted to whether an interval has *)
(* passed.                                                                 *)
(***************************************************************************)
EXTENDS Integers, FiniteSets

CONSTANTS
    Frames,           \* the UMEM frames kept for sending
    RingSize,         \* ringEntries: size of the TX and the completion ring
    Kinds,            \* the callers: subset of {"tcp", "multi", "udp", "crypto"}
    MaxItems,         \* bound: items of one send
    KickBatch,        \* txKickBatch
    DeferFlush,       \* txDeferFlush
    DeferDelay,       \* txDeferFlushDelay > 0
    FlushInterval,    \* txFlushInterval > 0
    SoftBackoff,      \* txSoftKickBackoff > 0
    Backpressure,     \* txBackpressureWait > 0
    NeedWakeup,       \* the socket was bound with XDP_USE_NEED_WAKEUP
    MaxSends,         \* bound: sends
    MaxFailures       \* bound: kicks the kernel refuses

ASSUME TransmitAssumption ==
    /\ IsFiniteSet(Frames)
    /\ RingSize \in Nat /\ MaxItems \in Nat \ {0} /\ KickBatch \in Nat
    /\ MaxSends \in Nat /\ MaxFailures \in Nat
    /\ {DeferFlush, DeferDelay, FlushInterval, SoftBackoff, Backpressure, NeedWakeup} \subseteq BOOLEAN

VARIABLES
    free,         \* txFree
    tx,           \* descriptors on the TX ring the kernel has not taken
    inflight,     \* frames the kernel is sending
    comp,         \* frames on the completion ring
    pendingKick,  \* txPendingKick
    notified,     \* a value is in the channel txNotify
    softKick,     \* the last refused kick is younger than txSoftKickBackoff
    recentKick,   \* the last kick is younger than txFlushInterval
    awake,        \* the kernel is working on the TX ring
    job,          \* the send that holds txMu
    loop,         \* reclaimCompletionLoop
    sends,        \* number of sends so far
    failures      \* number of refused kicks so far

frames == <<free, tx, inflight, comp>>
kicks == <<pendingKick, softKick, recentKick>>
vars == <<frames, kicks, notified, awake, job, loop, sends, failures>>

NoJob == [pc |-> "idle", kind |-> "none", batch |-> FALSE, active |-> FALSE,
          left |-> 0, got |-> {}, count |-> 0, wait |-> "no"]

Init ==
    /\ free = Frames /\ tx = {} /\ inflight = {} /\ comp = {}
    /\ pendingKick = 0 /\ notified = FALSE
    /\ softKick = FALSE /\ recentKick = FALSE
    /\ awake = FALSE
    /\ job = NoJob
    /\ loop = "wait"
    /\ sends = 0 /\ failures = 0

(***************************************************************************)
(* Kicking.                                                                *)
(***************************************************************************)

\* kickTX asks the kernel with an empty sendto, unless the ring says that the
\* kernel is at it.  A soft error may come after part of the ring was taken.
kickTX(o) ==
    \/ /\ o = "ok" /\ NeedWakeup /\ awake
       /\ UNCHANGED <<tx, inflight, awake, failures>>
    \/ /\ o = "ok" /\ ~(NeedWakeup /\ awake)
       /\ awake' = (tx # {})
       /\ UNCHANGED <<tx, inflight, failures>>
    \/ /\ o \in {"soft", "hard"} /\ ~(NeedWakeup /\ awake)
       /\ failures < MaxFailures /\ failures' = failures + 1
       /\ \E taken \in SUBSET tx :
            /\ o = "hard" => taken = {}
            /\ Cardinality(taken \cup inflight \cup comp) <= RingSize
            /\ tx' = tx \ taken
            /\ inflight' = inflight \cup taken
       /\ UNCHANGED awake

\* Mutant: a refused kick counts as done.
KickForgetsSoft(o) ==
    \/ /\ o = "backoff" /\ SoftBackoff /\ softKick
       /\ UNCHANGED <<kicks, tx, inflight, awake, failures>>
    \/ /\ o \in {"ok", "soft", "hard"} /\ ~(SoftBackoff /\ softKick)
       /\ kickTX(o)
       /\ softKick' = (o = "soft" /\ SoftBackoff)
       /\ pendingKick' = (IF o = "hard" THEN pendingKick ELSE 0)
       /\ recentKick' = IF o = "ok" THEN FlushInterval ELSE recentKick

\* The outcome o is what kickTXLocked returns: an error only for "hard".
kickTXLocked(o) ==
    \/ /\ o = "backoff" /\ SoftBackoff /\ softKick
       /\ UNCHANGED <<kicks, tx, inflight, awake, failures>>
    \/ /\ o \in {"ok", "soft", "hard"} /\ ~(SoftBackoff /\ softKick)
       /\ kickTX(o)
       /\ softKick' = CASE o = "ok" -> FALSE
                        [] o = "soft" -> SoftBackoff \/ softKick
                        [] OTHER -> softKick
       /\ pendingKick' = IF o = "ok" THEN 0 ELSE pendingKick
       /\ recentKick' = IF o = "ok" /\ FlushInterval THEN TRUE ELSE recentKick

Outcomes == {"backoff", "ok", "soft", "hard"}
Accepted == Outcomes \ {"hard"}

NoKick == UNCHANGED <<kicks, tx, inflight, awake, failures>>

\* Mutant: the count does not saturate.
MarkedPlain(count) ==
    pendingKick + count

\* The kick count saturates at txKickBatch.
Marked(count) ==
    IF KickBatch <= 1 THEN 1
    ELSE IF pendingKick + count > KickBatch THEN KickBatch
    ELSE pendingKick + count

\* The loop is woken when the first frame becomes pending.
markTXPendingBatchLocked(count) ==
    /\ pendingKick' = Marked(count)
    /\ notified' = (notified \/ (KickBatch > 1 /\ pendingKick = 0))

KickNeeded == KickBatch <= 1 \/ pendingKick >= KickBatch

FlushPostponed ==
    \/ pendingKick = 0
    \/ FlushInterval /\ pendingKick < KickBatch /\ recentKick

\* An error of the kick is the caller's; here both end the flush.
flushTXPendingLocked ==
    IF FlushPostponed THEN NoKick ELSE \E o \in Outcomes : kickTXLocked(o)

(***************************************************************************)
(* The sends.                                                              *)
(***************************************************************************)

\* Sends take txMu; those with a batch reclaim completions once, at the start.
Start(kind, batch, active, n) ==
    /\ job.pc = "idle" /\ sends < MaxSends /\ kind \in Kinds
    /\ job' = [NoJob EXCEPT !.pc = "acquire", !.kind = kind, !.batch = batch,
                            !.active = active, !.left = n]
    /\ IF active THEN free' = free \cup comp /\ comp' = {} ELSE UNCHANGED <<free, comp>>
    /\ sends' = sends + 1
    /\ UNCHANGED <<tx, inflight, kicks, notified, awake, loop, failures>>

SendFrame == Start("tcp", FALSE, FALSE, 1)
SendFrames == \E n \in 1..MaxItems : Start("tcp", FALSE, FALSE, n)

SendPreparedFrames ==
    \E n \in 1..MaxItems, kind \in {"tcp", "multi"} :
        /\ kind = "multi" => n > 1
        /\ Start(kind, n > 1, TRUE, n)

SendUDPFrame == Start("udp", FALSE, FALSE, 1)
SendPreparedUDPFrames == \E n \in 1..MaxItems : Start("udp", n > 1, TRUE, n)

SendKernelCryptoFrame == Start("crypto", FALSE, FALSE, 1)
SendKernelCryptoFrames == \E n \in 1..MaxItems : Start("crypto", n > 1, TRUE, n)
SendPreparedKernelCryptoFrames == SendKernelCryptoFrames

\* A failed send gives the frames it has not published back, and txMu.
Fail(pool) ==
    /\ free' = pool \cup job.got
    /\ job' = NoJob

\* The frame a has been built: a batch collects, a single frame goes out.
Built(pool, a, items) ==
    LET left == job.left - items
    IN /\ free' = pool \ {a}
       /\ job' = [job EXCEPT !.got = @ \cup {a}, !.left = left, !.wait = "no",
                     !.pc = IF job.batch /\ left > 0 THEN "acquire" ELSE "push"]

\* A frame was found: it is built, or building it fails.
UseFrame(pool, Items) ==
    \/ \E a \in pool, items \in Items : Built(pool, a, items)
    \/ Fail(pool)

\* acquireTXFrameLocked, first try: completions are reclaimed unless the batch
\* did so at its start; without a free frame the send waits, if it may.
AcquireTXFrame(Items) ==
    LET reclaim == ~job.active
        pool == IF reclaim THEN free \cup comp ELSE free
    IN /\ job.pc = "acquire"
       /\ comp' = IF reclaim THEN {} ELSE comp
       /\ \/ pool # {} /\ UseFrame(pool, Items)
          \/ pool = {} /\ Backpressure
             /\ job' = [job EXCEPT !.pc = "starved", !.wait = "yes"]
             /\ UNCHANGED free
          \/ pool = {} /\ ~Backpressure /\ Fail(pool)
       /\ NoKick /\ UNCHANGED <<notified, loop, sends>>

\* acquireTXFrameLocked, one round of the wait: kick, reclaim, look, give up
\* when the deadline has passed.  An error of this kick is only recorded.
AwaitTXFrame(Items) ==
    LET pool == free \cup comp
    IN /\ job.pc = "starved"
       /\ IF pendingKick > 0 \/ tx # {} THEN \E o \in Outcomes : kickTXLocked(o) ELSE NoKick
       /\ comp' = {}
       /\ \/ pool # {} /\ UseFrame(pool, Items)
          \/ pool = {} /\ job.wait = "over" /\ Fail(pool)
          \/ pool = {} /\ job.wait = "yes" /\ UNCHANGED <<job, free>>
       /\ UNCHANGED <<notified, loop, sends>>

\* A frame that does not fit the UMEM ends the send before it is acquired.
Oversize ==
    /\ job.pc = "acquire" /\ Fail(free)
    /\ NoKick /\ UNCHANGED <<comp, notified, loop, sends>>

BuildStep(Items) == AcquireTXFrame(Items) \/ AwaitTXFrame(Items) \/ Oversize

\* One frame per item ...
publishPreparedFrameLocked ==
    job.kind = "tcp" /\ ~job.batch /\ BuildStep({1})
publishPreparedUDPFrameLocked ==
    job.kind = "udp" /\ ~job.batch /\ BuildStep({1})
publishPreparedKernelCryptoFrameLocked ==
    job.kind = "crypto" /\ ~job.batch /\ BuildStep({1})
publishPreparedFrameBatchLocked ==
    job.kind = "tcp" /\ job.batch /\ BuildStep({1})
publishPreparedUDPFrameBatchLocked ==
    job.kind = "udp" /\ job.batch /\ BuildStep({1})
publishPreparedKernelCryptoFrameBatchLocked ==
    job.kind = "crypto" /\ job.batch /\ BuildStep({1})
\* ... or a group of items that fits one frame.
publishPreparedFrameMultiFrameBatchLocked ==
    job.kind = "multi" /\ job.batch /\ BuildStep(1..job.left)

Room == Cardinality(tx) + Cardinality(job.got) <= RingSize

\* PushBatch: all descriptors or none.
Pushed ==
    /\ tx' = tx \cup job.got
    /\ markTXPendingBatchLocked(Cardinality(job.got))
    /\ job' = [job EXCEPT !.pc = "kick", !.count = Cardinality(job.got), !.got = {}, !.wait = "no"]
    /\ UNCHANGED <<free, inflight, comp, softKick, recentKick, awake, loop, sends, failures>>

\* publishTXFramesLocked (and publishTXFrameLocked, its case of one frame).
PublishFirst ==
    /\ job.pc = "push"
    /\ \/ Room /\ Pushed
       \/ /\ ~Room /\ job' = [job EXCEPT !.pc = "full"]
          /\ UNCHANGED <<frames, kicks, notified, awake, loop, sends, failures>>

\* The ring is full: kick and reclaim ...
PublishKick ==
    /\ job.pc = "full"
    /\ \E o \in Outcomes :
         /\ kickTXLocked(o)
         /\ \/ o = "hard" /\ Fail(free) /\ UNCHANGED comp
            \/ /\ o \in Accepted
               /\ free' = free \cup comp /\ comp' = {}
               /\ job' = [job EXCEPT !.pc = "retry"]
    /\ UNCHANGED <<notified, loop, sends>>

\* Mutant: the retry has no deadline.
RetryForEver ==
    /\ job.pc = "retry"
    /\ \/ Room /\ Pushed
       \/ /\ ~Room /\ job' = [job EXCEPT !.pc = "full"]
          /\ UNCHANGED <<frames, kicks, notified, awake, loop, sends, failures>>

\* ... and try again, until the deadline.
PublishRetry ==
    /\ job.pc = "retry"
    /\ \/ Room /\ Pushed
       \/ /\ ~Room
          /\ \/ Backpressure /\ job.wait \in {"no", "yes"}
                /\ job' = [job EXCEPT !.pc = "full", !.wait = "yes"]
                /\ UNCHANGED free
             \/ (~Backpressure \/ job.wait = "over") /\ Fail(free)
          /\ UNCHANGED <<tx, inflight, comp, kicks, notified, awake, loop, sends, failures>>

AfterPublish ==
    IF job.batch THEN "finish" ELSE IF job.left > 0 THEN "acquire" ELSE "flush"

\* Mutant: frames already on the ring go back to the pool when the kick fails.
ReleasesPublished ==
    /\ job.pc = "kick"
    /\ \/ /\ KickNeeded
          /\ \E o \in Outcomes :
               /\ kickTXLocked(o)
               /\ free' = IF o = "hard" THEN free \cup tx' ELSE free
               /\ job' = IF o = "hard" THEN NoJob ELSE [job EXCEPT !.pc = AfterPublish]
       \/ ~KickNeeded /\ NoKick /\ job' = [job EXCEPT !.pc = AfterPublish] /\ UNCHANGED free
    /\ UNCHANGED <<comp, notified, loop, sends>>

\* After the push: kick when enough is pending.  The frames are published, so
\* an error ends the send without giving them back.
kickTXIfNeededBatchLocked ==
    /\ job.pc = "kick"
    /\ \/ /\ KickNeeded
          /\ \E o \in Outcomes :
               /\ kickTXLocked(o)
               /\ job' = IF o = "hard" THEN NoJob ELSE [job EXCEPT !.pc = AfterPublish]
       \/ ~KickNeeded /\ NoKick /\ job' = [job EXCEPT !.pc = AfterPublish]
    /\ UNCHANGED <<free, comp, notified, loop, sends>>

FlushSend ==
    /\ job.pc = "flush" /\ flushTXPendingLocked
    /\ job' = NoJob
    /\ UNCHANGED <<free, comp, notified, loop, sends>>

LeftToLoop == DeferFlush /\ job.count > 1 /\ KickBatch > 1 /\ pendingKick > 0

\* A batch may leave its flush to the completion loop.
finishTXBatchLocked ==
    /\ job.pc = "finish"
    /\ IF LeftToLoop THEN NoKick /\ notified' = TRUE
                     ELSE flushTXPendingLocked /\ UNCHANGED notified
    /\ job' = NoJob
    /\ UNCHANGED <<free, comp, loop, sends>>

(***************************************************************************)
(* reclaimCompletionLoop: woken by a notification or by its timer, which   *)
(* is always armed; flushes, then reclaims, each under txMu.               *)
(***************************************************************************)
LoopNotified ==
    /\ loop = "wait" /\ notified
    /\ notified' = FALSE
    /\ loop' = IF DeferFlush /\ DeferDelay THEN "wait" ELSE "flush"
    /\ UNCHANGED <<frames, kicks, awake, job, sends, failures>>

\* Mutant: the timer is not armed again after a flush.
LoopTimerOnce ==
    /\ loop = "wait" /\ sends = 0
    /\ loop' = "flush"
    /\ UNCHANGED <<frames, kicks, notified, awake, job, sends, failures>>

LoopTimer ==
    /\ loop = "wait"
    /\ loop' = "flush"
    /\ UNCHANGED <<frames, kicks, notified, awake, job, sends, failures>>

flushTX ==
    /\ loop = "flush" /\ job.pc = "idle"
    /\ flushTXPendingLocked
    /\ loop' = "reclaim"
    /\ UNCHANGED <<free, comp, notified, job, sends>>

ReclaimCompletions ==
    /\ loop = "reclaim" /\ job.pc = "idle"
    /\ free' = free \cup comp /\ comp' = {}
    /\ loop' = "wait"
    /\ UNCHANGED <<tx, inflight, kicks, notified, awake, job, sends, failures>>

(***************************************************************************)
(* The kernel and time.                                                    *)
(***************************************************************************)
KernelTake ==
    /\ awake
    /\ Cardinality(inflight \cup comp) < RingSize
    /\ \E a \in tx : tx' = tx \ {a} /\ inflight' = inflight \cup {a}
    /\ UNCHANGED <<free, comp, kicks, notified, awake, job, loop, sends, failures>>

KernelComplete ==
    /\ \E a \in inflight : inflight' = inflight \ {a} /\ comp' = comp \cup {a}
    /\ UNCHANGED <<free, tx, kicks, notified, awake, job, loop, sends, failures>>

\* The kernel asks for a wakeup only when it has emptied the ring.
KernelSleep ==
    /\ awake /\ tx = {}
    /\ awake' = FALSE
    /\ UNCHANGED <<frames, kicks, notified, job, loop, sends, failures>>

SoftKickLapses ==
    /\ softKick /\ softKick' = FALSE
    /\ UNCHANGED <<frames, pendingKick, recentKick, notified, awake, job, loop, sends, failures>>

FlushIntervalLapses ==
    /\ recentKick /\ recentKick' = FALSE
    /\ UNCHANGED <<frames, pendingKick, softKick, notified, awake, job, loop, sends, failures>>

DeadlinePasses ==
    /\ job.wait = "yes" /\ job' = [job EXCEPT !.wait = "over"]
    /\ UNCHANGED <<frames, kicks, notified, awake, loop, sends, failures>>

Send ==
    \/ SendFrame \/ SendFrames \/ SendPreparedFrames
    \/ SendUDPFrame \/ SendPreparedUDPFrames
    \/ SendKernelCryptoFrame \/ SendKernelCryptoFrames \/ SendPreparedKernelCryptoFrames

SendStep ==
    \/ publishPreparedFrameLocked \/ publishPreparedFrameBatchLocked
    \/ publishPreparedFrameMultiFrameBatchLocked
    \/ publishPreparedUDPFrameLocked \/ publishPreparedUDPFrameBatchLocked
    \/ publishPreparedKernelCryptoFrameLocked
    \/ publishPreparedKernelCryptoFrameBatchLocked
    \/ PublishFirst \/ PublishKick \/ PublishRetry
    \/ kickTXIfNeededBatchLocked \/ finishTXBatchLocked \/ FlushSend

Next ==
    \/ Send \/ SendStep
    \/ LoopNotified \/ LoopTimer \/ flushTX \/ ReclaimCompletions
    \/ KernelTake \/ KernelComplete \/ KernelSleep
    \/ SoftKickLapses \/ FlushIntervalLapses \/ DeadlinePasses

Spec == Init /\ [][Next]_vars

\* The goroutines run, timers fire, the kernel works on what it was asked for.
\* Weak fairness is enough for the loop's two waits for txMu, as the number of
\* sends is bounded.
Fairness ==
    /\ WF_vars(SendStep) /\ WF_vars(LoopTimer)
    /\ WF_vars(flushTX) /\ WF_vars(ReclaimCompletions)
    /\ WF_vars(KernelTake) /\ WF_vars(KernelComplete) /\ WF_vars(KernelSleep)
    /\ WF_vars(SoftKickLapses) /\ WF_vars(FlushIntervalLapses) /\ WF_vars(DeadlinePasses)

FairSpec == Spec /\ Fairness

--------------------------------------------------------------------------------
JobRec ==
    [pc : {"idle", "acquire", "starved", "push", "full", "retry", "kick", "flush", "finish"},
     kind : {"none", "tcp", "multi", "udp", "crypto"}, batch : BOOLEAN, active : BOOLEAN,
     left : 0..MaxItems, got : SUBSET Frames, count : Nat, wait : {"no", "yes", "over"}]

TypeOK ==
    /\ free \subseteq Frames /\ tx \subseteq Frames
    /\ inflight \subseteq Frames /\ comp \subseteq Frames
    /\ pendingKick \in 0..(IF KickBatch <= 1 THEN 1 ELSE KickBatch)
    /\ notified \in BOOLEAN /\ softKick \in BOOLEAN
    /\ recentKick \in BOOLEAN /\ awake \in BOOLEAN
    /\ job \in JobRec
    /\ loop \in {"wait", "flush", "reclaim"}
    /\ sends \in 0..MaxSends /\ failures \in 0..MaxFailures

\* Every frame of the sending pool is in exactly one place: free, held by the
\* send under way, on the TX ring, with the kernel, or on the completion ring.
\* A frame in two places would be overwritten while it is being sent; one in
\* none is lost for good (releaseTXFrame on every error path, and only there).
FramesAccounted ==
    LET places == <<free, job.got, tx, inflight, comp>>
    IN /\ UNION {places[i] : i \in 1..5} = Frames
       /\ \A i, j \in 1..5 : i # j => places[i] \cap places[j] = {}

\* Frames on the ring of which the kernel is not aware are counted as pending,
\* at every moment, so that the loop's next flush kicks for them, whatever kicks
\* were skipped, refused or postponed before.
KicksRemembered ==
    tx # {} /\ ~awake => pendingKick > 0

\* A published frame is taken by the kernel in the end, even when nothing else
\* is sent: through the kick of its send, or through the loop's flush.
Transmitted ==
    \A a \in Frames : (a \in tx) ~> (a \notin tx)

\* No send keeps txMu for ever: the waits for a free frame and for room on the
\* ring end at their deadline.
SendEnds ==
    (job.pc # "idle") ~> (job.pc = "idle")

================================================================================
