------------------------------ MODULE AFXDPReceive ------------------------------
(***************************************************************************)
(* The receiving half of one AF_XDP socket: UMEM frames offered to the     *)
(* kernel on the fill ring come back with packets on the RX ring, are      *)
(* leased to the read loop, and must go back to the fill ring exactly once *)
(* after their payload is no longer used.                                  *)
(*                                                                         *)
(* A packet's frame is recycled in one of three ways (afXDPRXRecycleMode): *)
(* "now", once decoded; "deliver", together with the batch it was          *)
(* delivered in; "release", when whoever holds the payload releases it.    *)
(* The read loop keeps the leases of a burst in an array that the next     *)
(* burst overwrites; a release closure keeps a pointer into that array.    *)
(*                                                                         *)
(* Nothing locks the fill ring and the backlog.  A push writes the slots    *)
(* at the producer index and then stores the index; a drain reads the      *)
(* backlog, pushes and truncates it.  The kernel publishes its consumer    *)
(* index later than it hands out packets.                                  *)
(*                                                                         *)
(* Two packets are not the usual ones: a descriptor that is out of bounds  *)
(* ("invalid"), which ends the read loop, and a packet on which decoding   *)
(* panics ("panic"), which is recovered.                                   *)
(***************************************************************************)
EXTENDS Integers, Sequences, FiniteSets

CONSTANTS
    Frames,       \* sequence of the UMEM frames primed into the fill ring
    UmemFrames,   \* umemFrames: these and the frames for sending
    Burst,        \* rxBurst: leases of one burst
    Kinds,        \* recycle modes of the packets that arrive
    Consumers,    \* goroutines that read deliveries and release payloads
    Wrap,         \* ring indices count modulo Wrap (2^32 in the code)
    MaxPackets    \* bound: packets

VARIABLES
    ring,       \* descs of the fill ring
    prod, cons, \* its producer and consumer index
    taken,      \* fill entries the kernel has taken but not yet given up
    rx,         \* the RX ring: frame and recycle mode of each packet
    rxFrames,   \* the array of leases; entries past the burst keep old leases
    n, i,       \* length of the current burst, next lease to decode
    state,      \* rxRecycleState: token of the latest lease, whether recycled
    batch,      \* expBatch and udpBatch: deliveries not yet made
    held,       \* heldRXFrames
    out,        \* deliveries each consumer has not released yet
    pending,    \* rxRecyclePending
    push,       \* the recycling each goroutine is in the middle of
    cleanup,    \* what RecvFrames still recycles before it returns an error
    lost,       \* frames whose push failed with an error
    loop,       \* where the read loop is
    done,       \* the fast path is being closed
    packets     \* packets so far

vars == <<ring, prod, cons, taken, rx, rxFrames, n, i, state, batch, held, out,
          pending, push, cleanup, lost, loop, done, packets>>
kernel == <<cons, taken, rx, packets>>
fill == <<ring, prod, pending, push, lost>>
reading == <<rxFrames, n, i, cleanup>>

Size == Len(Frames)
All == {Frames[k] : k \in 1..Size}
Threads == {"loop"} \cup Consumers
NoPush == [at |-> "none", addrs |-> <<>>, leases |-> <<>>, flushed |-> 0, list |-> <<>>, from |-> 0]
NoLease == [addr |-> Frames[1], token |-> 0, kind |-> "now"]

Init ==
    /\ ring = [k \in 0..(Size - 1) |-> Frames[k + 1]]
    /\ prod = Size /\ cons = 0 /\ taken = 0
    /\ rx = <<>>
    /\ rxFrames = [k \in 1..Burst |-> NoLease]
    /\ n = 0 /\ i = 1
    /\ state = [f \in All |-> [token |-> 0, recycled |-> FALSE]]
    /\ batch = <<>> /\ held = <<>>
    /\ out = [c \in Consumers |-> {}]
    /\ pending = <<>>
    /\ push = [t \in Threads |-> NoPush]
    /\ cleanup = <<>> /\ lost = {}
    /\ loop = "recv"
    /\ done = FALSE
    /\ packets = 0

(***************************************************************************)
(* Recycling.                                                              *)
(***************************************************************************)
Used == (prod - cons) % Wrap
Room == (Size - Used) % Wrap  \* in the index's width: too many entries look like room
AtMost(k, m) == IF k < m THEN k ELSE m

\* Mutant: whoever holds a lease may recycle it, again and again.
RecyclesAgain(lease) ==
    lease.token > 0

\* The compare-and-swap on the frame's state: only the holder of the latest
\* lease recycles the frame, and only once.
markRecycled(lease) ==
    state[lease.addr] = [token |-> lease.token, recycled |-> FALSE]

\* A goroutine begins to recycle addrs, and leases it has not marked yet.
Start(t, addrs, leases) ==
    push' = [push EXCEPT ![t] = [NoPush EXCEPT !.at = "drain", !.addrs = addrs, !.leases = leases]]

\* Recycle of one lease by t: nothing when the frame was recycled before.
Recycle(t, lease) ==
    IF markRecycled(lease)
    THEN /\ state' = [state EXCEPT ![lease.addr].recycled = TRUE]
         /\ Start(t, <<lease.addr>>, <<>>)
    ELSE UNCHANGED <<state, push>>

\* Push or PushBatch up to the store of the index: the slots from it on.
WriteSlots(list) ==
    ring' = [s \in DOMAIN ring |->
               IF \E k \in 1..Len(list) : (prod + k - 1) % Size = s
               THEN list[CHOOSE k \in 1..Len(list) : (prod + k - 1) % Size = s]
               ELSE ring[s]]

\* t pushes list, and then has nothing else to recycle.
LastPush(t, list) ==
    /\ WriteSlots(list)
    /\ push' = [push EXCEPT ![t] = [NoPush EXCEPT !.at = "pushed", !.list = list, !.from = prod]]

\* drainRXRecyclePending: as much of the backlog as there is room for.
DrainPush(t) ==
    LET flushed == push[t].flushed
        list == SubSeq(pending, flushed + 1, flushed + AtMost(Len(pending) - flushed, Room))
    IN /\ push[t].at = "drain"
       /\ IF flushed < Len(pending) /\ Room > 0
          THEN /\ WriteSlots(list)
               /\ push' = [push EXCEPT ![t].at = "drained", ![t].list = list, ![t].from = prod]
          ELSE /\ push' = [push EXCEPT ![t].at = IF flushed = 0 THEN "push" ELSE "truncate"]
               /\ UNCHANGED ring
       /\ UNCHANGED <<prod, pending, lost, kernel, reading, state, batch, held, out, loop, done>>

\* The producer index is stored; a drain tries again.
StoreProducer(t) ==
    /\ push[t].at \in {"drained", "pushed"}
    /\ prod' = (push[t].from + Len(push[t].list)) % Wrap
    /\ push' = [push EXCEPT ![t] =
         IF @.at = "pushed" THEN NoPush
         ELSE [@ EXCEPT !.at = "drain", !.flushed = @ + Len(push[t].list), !.list = <<>>]]
    /\ UNCHANGED <<ring, pending, lost, kernel, reading, state, batch, held, out, loop, done>>

\* The backlog is cut by what was flushed; when another drain cut it in the
\* meantime the slice bounds may be wrong, and the process panics.
Truncate(t) ==
    /\ push[t].at = "truncate"
    /\ IF push[t].flushed <= Len(pending)
       THEN /\ pending' = SubSeq(pending, push[t].flushed + 1, Len(pending))
            /\ push' = [push EXCEPT ![t].at = "push", ![t].flushed = 0]
            /\ UNCHANGED loop
       ELSE loop' = "crashed" /\ UNCHANGED <<pending, push>>
    /\ UNCHANGED <<ring, prod, lost, kernel, reading, state, batch, held, out, done>>

\* recycleRXAddr and recycleRXFrames after the drain: what does not fit joins
\* the backlog, together or not at all; with the backlog full it is an error,
\* on which the read loop ends if it was decoding.
Push(t) ==
    LET live == SelectSeq(push[t].leases, markRecycled)
        addrs == push[t].addrs \o [k \in 1..Len(live) |-> live[k].addr]
        marked == {live[k].addr : k \in 1..Len(live)}
        fits == IF push[t].leases = <<>> THEN Used < Size ELSE Len(addrs) <= Room
        queued == Len(pending) + Len(addrs) <= UmemFrames
    IN /\ push[t].at = "push"
       /\ state' = [f \in All |-> IF f \in marked THEN [state[f] EXCEPT !.recycled = TRUE] ELSE state[f]]
       /\ IF addrs # <<>> /\ fits
          THEN LastPush(t, addrs) /\ UNCHANGED <<pending, lost, loop>>
          ELSE /\ push' = [push EXCEPT ![t] = NoPush]
               /\ pending' = IF queued THEN pending \o addrs ELSE pending
               /\ lost' = IF queued THEN lost ELSE lost \cup {addrs[k] : k \in 1..Len(addrs)}
               /\ loop' = IF t = "loop" /\ loop = "decode" /\ ~queued THEN "error" ELSE loop
               /\ UNCHANGED ring
       /\ UNCHANGED <<prod, kernel, reading, batch, held, out, done>>

RecycleStep(t) == DrainPush(t) \/ StoreProducer(t) \/ Truncate(t) \/ Push(t)

(***************************************************************************)
(* The read loop.                                                          *)
(***************************************************************************)
Running(at) == loop = at /\ push["loop"].at = "none"

RecycleAll(leases) ==
    IF leases = <<>> THEN UNCHANGED push ELSE Start("loop", <<>>, leases)

\* RecvFrames, or pollRX before it: the backlog is drained first.
Drain ==
    /\ Running("recv") /\ ~done
    /\ IF pending = <<>> THEN UNCHANGED push ELSE Start("loop", <<>>, <<>>)
    /\ loop' = "pop"
    /\ UNCHANGED <<ring, prod, pending, lost, kernel, reading, state, batch, held, out, done>>

\* The packets PopBatch returns, and how many of them are in bounds.
Popped == SubSeq(rx, 1, AtMost(Len(rx), Burst))
InBounds ==
    CHOOSE k \in 0..Len(Popped) :
        /\ \A s \in 1..k : Popped[s].kind # "invalid"
        /\ k < Len(Popped) => Popped[k + 1].kind = "invalid"

\* The first k packets popped are leased, each frame under a new token.
Leases(k) ==
    [s \in 1..k |->
        [addr |-> rx[s].addr, kind |-> rx[s].kind,
         token |-> state[rx[s].addr].token + Cardinality({q \in 1..s : rx[q].addr = rx[s].addr})]]

LeaseFrames(k) ==
    /\ rx' = SubSeq(rx, Len(Popped) + 1, Len(rx))
    /\ rxFrames' = [s \in 1..Burst |-> IF s <= k THEN Leases(k)[s] ELSE rxFrames[s]]
    /\ state' = [f \in All |->
                   LET own == {s \in 1..k : rx[s].addr = f}
                   IN IF own = {} THEN state[f]
                      ELSE [token |-> state[f].token + Cardinality(own), recycled |-> FALSE]]
    /\ i' = 1

RecvFrames ==
    /\ Running("pop") /\ rx # <<>> /\ InBounds = Len(Popped)
    /\ LeaseFrames(InBounds)
    /\ n' = InBounds
    /\ loop' = "decode"
    /\ UNCHANGED <<fill, cons, taken, packets, cleanup, batch, held, out, done>>

\* A descriptor out of bounds: it is pushed straight back, without the backlog;
\* the leases before it and the addresses after it are recycled one by one.
RecvInvalid ==
    LET k == InBounds
        after == SubSeq(Popped, k + 2, Len(Popped))
    IN /\ Running("pop") /\ k < Len(Popped)
       /\ LeaseFrames(k)
       /\ n' = 0
       /\ cleanup' = Leases(k) \o [s \in 1..Len(after) |->
                        [addr |-> after[s].addr, kind |-> after[s].kind, token |-> 0]]
       /\ IF Used < Size
          THEN LastPush("loop", <<rx[k + 1].addr>>) /\ UNCHANGED lost
          ELSE lost' = lost \cup {rx[k + 1].addr} /\ UNCHANGED <<ring, push>>
       /\ loop' = "cleanup"
       /\ UNCHANGED <<prod, pending, cons, taken, packets, batch, held, out, done>>

\* The clean-up of RecvFrames; then the loop ends, without a delivery.
Cleanup ==
    /\ Running("cleanup")
    /\ IF cleanup = <<>>
       THEN loop' = "failed" /\ UNCHANGED <<state, push, cleanup>>
       ELSE /\ IF Head(cleanup).token = 0
               THEN Start("loop", <<Head(cleanup).addr>>, <<>>) /\ UNCHANGED state
               ELSE Recycle("loop", Head(cleanup))
            /\ cleanup' = Tail(cleanup)
            /\ UNCHANGED loop
    /\ UNCHANGED <<ring, prod, pending, lost, kernel, rxFrames, n, i, batch, held, out, done>>

\* Nothing on the RX ring: what was collected is delivered before polling.
Idle ==
    /\ Running("pop") /\ rx = <<>>
    /\ loop' = "deliver"
    /\ UNCHANGED <<fill, kernel, reading, state, batch, held, out, done>>

\* decodeRXFrame, by the recycle mode it ends with.  The delivery of a borrowed
\* payload carries the place of its lease in the array.  The recovery from a
\* panic empties the batches, borrowed payloads included.
decodeRXFrame ==
    LET lease == rxFrames[i]
    IN /\ Running("decode") /\ i <= n /\ ~done
       /\ i' = i + 1
       /\ CASE lease.kind = "now" -> Recycle("loop", lease) /\ UNCHANGED <<batch, held>>
            [] lease.kind = "panic" -> Recycle("loop", lease) /\ batch' = <<>> /\ UNCHANGED held
            [] lease.kind = "deliver" ->
                 /\ held' = Append(held, lease)
                 /\ batch' = Append(batch, [addr |-> lease.addr, slot |-> 0])
                 /\ UNCHANGED <<state, push>>
            [] lease.kind = "release" ->
                 /\ batch' = Append(batch, [addr |-> lease.addr, slot |-> i])
                 /\ UNCHANGED <<held, state, push>>
       /\ UNCHANGED <<ring, prod, pending, lost, kernel, rxFrames, n, cleanup, out, loop, done>>

\* The end of a burst: deliver when enough was collected.
BurstEnd ==
    /\ Running("decode") /\ i > n
    /\ loop' = IF Len(batch) >= Burst \/ Len(held) >= Burst THEN "deliver" ELSE "recv"
    /\ UNCHANGED <<fill, kernel, reading, state, batch, held, out, done>>

\* The fast path closes: the loop delivers and leaves, from the middle of a
\* burst or before the next one.
Close ==
    /\ ~done /\ loop # "crashed" /\ done' = TRUE
    /\ UNCHANGED <<fill, kernel, reading, state, batch, held, out, loop>>

SeeDone ==
    /\ done /\ (Running("recv") \/ (Running("decode") /\ i <= n))
    /\ loop' = "deliver"
    /\ UNCHANGED <<fill, kernel, reading, state, batch, held, out, done>>

\* A delivery: a consumer's queue takes it, or, with no consumer or a full
\* queue, the loop releases the payload at once.
DeliverOne ==
    LET entry == Head(batch)
    IN /\ Running("deliver") /\ batch # <<>>
       /\ batch' = Tail(batch)
       /\ \/ /\ entry.slot = 0
             /\ UNCHANGED <<out, state, push>>
          \/ /\ entry.slot > 0
             /\ \E c \in Consumers : out' = [out EXCEPT ![c] = @ \cup {entry}]
             /\ UNCHANGED <<state, push>>
          \/ /\ entry.slot > 0
             /\ Recycle("loop", rxFrames[entry.slot])
             /\ UNCHANGED out
       /\ UNCHANGED <<ring, prod, pending, lost, kernel, reading, held, loop, done>>

\* After the deliveries the leases kept for them are recycled.
DeliverEnd ==
    /\ Running("deliver") /\ batch = <<>>
    /\ RecycleAll(held)
    /\ held' = <<>>
    /\ loop' = IF done THEN "leave" ELSE "recv"
    /\ UNCHANGED <<ring, prod, pending, lost, kernel, reading, state, batch, out, done>>

\* The loop ends, after a close or, without a delivery, after an error: leases
\* of the burst it has not decoded are recycled.
Leave ==
    /\ loop \in {"leave", "error"} /\ push["loop"].at = "none"
    /\ RecycleAll(SubSeq(rxFrames, i, n))
    /\ i' = n + 1
    /\ loop' = IF loop = "leave" THEN "stopped" ELSE "failed"
    /\ UNCHANGED <<ring, prod, pending, lost, kernel, rxFrames, n, cleanup, state, batch, held, out, done>>

(***************************************************************************)
(* Consumers and the kernel.                                               *)
(***************************************************************************)
\* The closure that came with a borrowed payload.
Release(c) ==
    /\ push[c].at = "none"
    /\ \E entry \in out[c] :
         /\ out' = [out EXCEPT ![c] = @ \ {entry}]
         /\ Recycle(c, rxFrames[entry.slot])
    /\ UNCHANGED <<ring, prod, pending, lost, kernel, reading, batch, held, loop, done>>

KernelReceive ==
    /\ packets < MaxPackets /\ Used > taken
    /\ \E kind \in Kinds :
         rx' = Append(rx, [addr |-> ring[(cons + taken) % Size], kind |-> kind])
    /\ taken' = taken + 1
    /\ packets' = packets + 1
    /\ UNCHANGED <<fill, cons, reading, state, batch, held, out, loop, done>>

KernelConsume ==
    /\ taken > 0
    /\ cons' = (cons + taken) % Wrap /\ taken' = 0
    /\ UNCHANGED <<fill, rx, packets, reading, state, batch, held, out, loop, done>>

LoopStep ==
    \/ Drain \/ RecvFrames \/ RecvInvalid \/ Cleanup \/ Idle \/ decodeRXFrame \/ BurstEnd \/ SeeDone
    \/ DeliverOne \/ DeliverEnd \/ Leave \/ (loop # "crashed" /\ RecycleStep("loop"))

Next ==
    \/ LoopStep \/ Close
    \/ \E c \in Consumers : loop # "crashed" /\ (Release(c) \/ RecycleStep(c))
    \/ KernelReceive \/ KernelConsume

Spec == Init /\ [][Next]_vars

\* The read loop runs, and the kernel publishes its consumer index.
FairSpec == Spec /\ WF_vars(LoopStep) /\ WF_vars(KernelConsume)

--------------------------------------------------------------------------------
TypeOK ==
    /\ prod \in 0..(Wrap - 1) /\ cons \in 0..(Wrap - 1)
    /\ taken \in 0..Size /\ i \in 1..(Burst + 1)
    /\ \A t \in Threads : push[t].from \in 0..(Wrap - 1)

Elements(s) == {s[k] : k \in 1..Len(s)}
Addrs(leases) == {leases[k].addr : k \in 1..Len(leases)}

\* Places a frame can be: on its way back to the fill ring, offered to the
\* kernel (that included), received, leased, borrowed.
Backlog == SubSeq(pending, push["loop"].flushed + 1, Len(pending))
Returning == Elements(Backlog) \cup UNION {Elements(push[t].addrs) \cup Elements(push[t].list) : t \in Threads}
Offered == {ring[(cons + taken + k) % Size] : k \in 0..(Used - taken - 1)} \cup Returning
Received == Addrs(rx)
Leased == Addrs(SubSeq(rxFrames, i, n)) \cup Addrs(held) \cup Addrs(cleanup) \cup Addrs(push["loop"].leases)
Borrowed == {batch[k].addr : k \in {k \in 1..Len(batch) : batch[k].slot > 0}}
            \cup UNION {{e.addr : e \in out[c]} : c \in Consumers}

\* Every frame given to this socket is offered, received, leased or borrowed, or
\* its push failed with an error, and only one of these: none is lost silently
\* and none is with the kernel while its payload is still to be read.
\* (readLoop with its clean-up after an invalid descriptor and after a panic,
\* deliver, recycleRXFrames, for packets that are copied or opened.)
FramesConserved ==
    /\ Offered \cup Received \cup Leased \cup Borrowed \cup lost = All
    /\ Offered \cap (Received \cup Leased \cup Borrowed) = {}
    /\ Received \cap (Leased \cup Borrowed) = {}
    /\ Leased \cap Borrowed = {}
    /\ lost \cap (Offered \cup Received \cup Leased \cup Borrowed) = {}

\* The fill ring, the backlog and the pushes under way never name a frame twice,
\* however often and in whatever order the read loop releases leases: the kernel
\* would write two packets into one frame (rxRecycleState's tokens).
OfferedOnce ==
    LET p == push["loop"]
    IN /\ Cardinality(Offered) =
            (Used - taken) + Len(Backlog) + Len(p.addrs) + (IF p.at = "pushed" THEN Len(p.list) ELSE 0)
       /\ Used >= taken

\* The frames some goroutine is recycling, or left in the backlog.
Recycling == Elements(pending) \cup UNION {Elements(push[t].addrs) \cup Elements(push[t].list) : t \in Threads}

\* The frames a step begins to recycle have a lease that it uses up.
UsesUpLease ==
    \A f \in All : (f \in Recycling' /\ f \notin Recycling) =>
        ~state[f].recycled /\ state'[f].recycled /\ state[f].token > 0

\* A goroutine begins to recycle a frame only by using up the frame's latest
\* lease, even when its place in the array belongs to another lease by now and
\* while others recycle and drain beside it (markRecycled's compare-and-swap).
RecycledOncePerLease == [][UsesUpLease]_vars

\* A payload that was delivered by reference and not yet released is not in a
\* frame the kernel may write to.
BorrowedNotOffered ==
    Borrowed \cap Offered = {}

\* With no push under way, every frame that was recycled is on the fill ring
\* or in the backlog: releases of different goroutines do not undo each other.
RecycledIsOffered ==
    (\A t \in Threads : push[t].at = "none") =>
        \A f \in All : state[f].recycled => f \in Offered \cup Received

\* A frame that carried a packet returns to the fill ring, also when no other
\* packet arrives, after a panic, and when the fast path closes in the middle of
\* a burst; unless the read loop ends with an error.
FramesReturn ==
    \A f \in All : (f \in Leased) ~> (f \in Offered \/ loop = "failed")

================================================================================
