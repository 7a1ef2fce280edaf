--------------------------- MODULE FastPathLifecycle ---------------------------
(***************************************************************************)
(* Attaching and closing the AF_XDP fast path of the Linux dataplane while *)
(* packets are received and sent.                                          *)
(*                                                                         *)
(* Three locks and waits meet here.  manager.mu guards the manager; it is  *)
(* held by ApplySnapshot and Detach for their whole run, closing the fast  *)
(* path included, and taken by the read loop to deliver a batch or to      *)
(* count a drop.  fastPath.mu is read-locked by a send and write-locked by *)
(* Close.  Close also waits for the path's two goroutines.                 *)
(*                                                                         *)
(* Every attach makes a new fast path; a send works on the one it saw      *)
(* under manager.mu, which may have been closed since.                     *)
(***************************************************************************)
EXTENDS Integers, FiniteSets

CONSTANTS
    Operators,    \* goroutines that call ApplySnapshot or Detach
    Senders,      \* goroutines that send frames
    MaxCalls,     \* bound: calls of ApplySnapshot and Detach
    MaxPackets,   \* bound: packets received
    MaxSends      \* bound: frames sent

NoOne == "nobody"
Paths == 1..MaxCalls

VARIABLES
    mu,        \* who holds manager.mu
    current,   \* manager.tixTCPFastPath: 0, or a path
    snapshot,  \* whether manager.snapshot calls for AF_XDP
    status,    \* of each path: "new", "up", "closing", "closed"
    readers,   \* per path: senders that hold fastPath.mu for reading
    loop,      \* per path: where its read loop is
    flusher,   \* per path: its completion loop runs
    batch,     \* per path: a received packet is waiting for delivery
    op,        \* per operator: the call under way
    send,      \* per sender: the send under way
    calls, packets, sends

vars == <<mu, current, snapshot, status, readers, loop, flusher, batch, op, send, calls, packets, sends>>
path == <<status, readers, loop, flusher, batch>>
bounds == <<calls, packets, sends>>

\* previous: the snapshot to go back to, if there is one.
NoOp == [pc |-> "idle", previous |-> {}]
NoSend == [pc |-> "idle", path |-> 0]

Init ==
    /\ mu = NoOne /\ current = 0 /\ snapshot = FALSE
    /\ status = [p \in Paths |-> "new"]
    /\ readers = [p \in Paths |-> {}]
    /\ loop = [p \in Paths |-> "exited"]
    /\ flusher = [p \in Paths |-> FALSE]
    /\ batch = [p \in Paths |-> FALSE]
    /\ op = [o \in Operators |-> NoOp]
    /\ send = [s \in Senders |-> NoSend]
    /\ calls = 0 /\ packets = 0 /\ sends = 0

Ready(p) == status[p] = "up"

(***************************************************************************)
(* ApplySnapshot and Detach.                                               *)
(***************************************************************************)

\* A call starts by taking manager.mu.  want: the snapshot calls for AF_XDP.
ApplySnapshot(o, want) ==
    /\ op[o].pc = "idle" /\ mu = NoOne /\ calls < MaxCalls
    /\ mu' = o /\ calls' = calls + 1 /\ snapshot' = want
    /\ op' = [op EXCEPT ![o] = [pc |-> "ensure", previous |-> {snapshot}]]
    /\ UNCHANGED <<current, path, send, packets, sends>>

Detach(o) ==
    /\ op[o].pc = "idle" /\ mu = NoOne /\ calls < MaxCalls
    /\ mu' = o /\ calls' = calls + 1
    /\ op' = [op EXCEPT ![o] = [pc |-> "detach", previous |-> {}]]
    /\ UNCHANGED <<current, snapshot, path, send, packets, sends>>

\* Mutant: attaching does not look for a path that is already there.
AttachAgain(o) ==
    /\ current' = calls
    /\ status' = [status EXCEPT ![calls] = "up"]
    /\ loop' = [loop EXCEPT ![calls] = "receive"]
    /\ flusher' = [flusher EXCEPT ![calls] = TRUE]
    /\ UNCHANGED <<readers, batch>>

\* attachTIXTCPFastPathLocked: nothing if there is one; the new path is
\* published and its goroutines started, or attaching fails.
Attach(o) ==
    LET p == calls
    IN \/ /\ current = 0
          /\ current' = p
          /\ status' = [status EXCEPT ![p] = "up"]
          /\ loop' = [loop EXCEPT ![p] = "receive"]
          /\ flusher' = [flusher EXCEPT ![p] = TRUE]
          /\ UNCHANGED <<readers, batch>>
       \/ UNCHANGED <<current, path>>

\* ensureKernelTransportFastPathLocked.
Ensure(o) ==
    /\ op[o].pc = "ensure"
    /\ IF snapshot
       THEN Attach(o) /\ op' = [op EXCEPT ![o].pc = "return"]
       ELSE op' = [op EXCEPT ![o].pc = "detach"] /\ UNCHANGED <<current, path>>
    /\ UNCHANGED <<mu, snapshot, send, bounds>>

\* detachTIXTCPFastPathLocked: nothing to do, or Close, which waits for the
\* sends on the path, marks it closed and tells its goroutines to stop.
CloseBegin(o) ==
    /\ op[o].pc = "detach"
    /\ \/ /\ current = 0
          /\ op' = [op EXCEPT ![o].pc = "return"] /\ UNCHANGED status
       \/ /\ current # 0 /\ readers[current] = {}
          /\ status' = [status EXCEPT ![current] = "closing"]
          /\ op' = [op EXCEPT ![o].pc = "wait"]
    /\ UNCHANGED <<mu, current, snapshot, readers, loop, flusher, batch, send, bounds>>

\* Mutant: the rings are unmapped without waiting for the goroutines.
CloseAtOnce(o) ==
    /\ op[o].pc = "wait"
    /\ status' = [status EXCEPT ![current] = "closed"]
    /\ current' = 0
    /\ op' = [op EXCEPT ![o].pc = "return"]
    /\ UNCHANGED <<mu, snapshot, readers, loop, flusher, batch, send, bounds>>

\* Close: when both goroutines have ended, the program is detached and the
\* rings and the UMEM are unmapped.
CloseEnd(o) ==
    /\ op[o].pc = "wait"
    /\ loop[current] = "exited" /\ ~flusher[current]
    /\ status' = [status EXCEPT ![current] = "closed"]
    /\ current' = 0
    /\ op' = [op EXCEPT ![o].pc = "return"]
    /\ UNCHANGED <<mu, snapshot, readers, loop, flusher, batch, send, bounds>>

\* rollbackSnapshotLocked: a step of ApplySnapshot before the fast path is
\* ensured, that one, or one after it has failed.  The previous snapshot is put
\* back and the fast path ensured for it, whatever becomes of that.
RollbackSnapshot(o) ==
    /\ op[o].pc \in {"ensure", "return"} /\ op[o].previous # {}
    /\ snapshot' \in op[o].previous
    /\ op' = [op EXCEPT ![o] = [pc |-> "ensure", previous |-> {}]]
    /\ UNCHANGED <<mu, current, path, send, bounds>>

Return(o) ==
    /\ op[o].pc = "return"
    /\ mu' = NoOne
    /\ op' = [op EXCEPT ![o] = NoOp]
    /\ UNCHANGED <<current, snapshot, path, send, bounds>>

(***************************************************************************)
(* The goroutines of a path.                                               *)
(***************************************************************************)

\* A packet is decoded into the batch, or dropped; a drop is counted under
\* manager.mu.
Receive(p) ==
    /\ loop[p] = "receive" /\ status[p] = "up" /\ packets < MaxPackets
    /\ packets' = packets + 1
    /\ \/ batch' = [batch EXCEPT ![p] = TRUE] /\ UNCHANGED loop
       \/ loop' = [loop EXCEPT ![p] = "drop"] /\ UNCHANGED batch
    /\ UNCHANGED <<mu, current, snapshot, status, readers, flusher, op, send, calls, sends>>

\* A receive or decode error ends the loop, its batch undelivered, and is
\* reported under manager.mu if the path is up.
ReceiveFails(p) ==
    /\ loop[p] = "receive" /\ status[p] = "up" /\ packets < MaxPackets
    /\ packets' = packets + 1
    /\ loop' = [loop EXCEPT ![p] = "warn"]
    /\ UNCHANGED <<mu, current, snapshot, status, readers, flusher, batch, op, send, calls, sends>>

ReceiveStopped(p) ==
    /\ loop[p] = "warn" /\ mu = NoOne
    /\ loop' = [loop EXCEPT ![p] = "exited"]
    /\ batch' = [batch EXCEPT ![p] = FALSE]
    /\ UNCHANGED <<mu, current, snapshot, status, readers, flusher, op, send, bounds>>

recordDrop(p) ==
    /\ loop[p] = "drop" /\ mu = NoOne
    /\ loop' = [loop EXCEPT ![p] = "receive"]
    /\ UNCHANGED <<mu, current, snapshot, status, readers, flusher, batch, op, send, bounds>>

\* An idle ring or a full batch: deliver.
Deliver(p) ==
    /\ loop[p] = "receive" /\ batch[p]
    /\ loop' = [loop EXCEPT ![p] = "deliver"]
    /\ UNCHANGED <<mu, current, snapshot, status, readers, flusher, batch, op, send, bounds>>

\* deliverTIXTCPFrames and deliverKernelUDPFrames work under manager.mu.
DeliverFrames(p) ==
    /\ loop[p] = "deliver" /\ mu = NoOne
    /\ mu' = "loop"
    /\ loop' = [loop EXCEPT ![p] = "delivering"]
    /\ UNCHANGED <<current, snapshot, status, readers, flusher, batch, op, send, bounds>>

DeliverEnd(p) ==
    /\ loop[p] = "delivering"
    /\ mu' = NoOne
    /\ batch' = [batch EXCEPT ![p] = FALSE]
    /\ loop' = [loop EXCEPT ![p] = "receive"]
    /\ UNCHANGED <<current, snapshot, status, readers, flusher, op, send, bounds>>

\* The loop sees that the path is closing: it delivers what it has and leaves.
LoopDone(p) ==
    /\ loop[p] = "receive" /\ status[p] = "closing"
    /\ loop' = [loop EXCEPT ![p] = IF batch[p] THEN "deliver" ELSE "exited"]
    /\ UNCHANGED <<mu, current, snapshot, status, readers, flusher, batch, op, send, bounds>>

\* The completion loop takes txMu only; its last flush does not wait.
FlusherDone(p) ==
    /\ flusher[p] /\ status[p] = "closing"
    /\ flusher' = [flusher EXCEPT ![p] = FALSE]
    /\ UNCHANGED <<mu, current, snapshot, status, readers, loop, batch, op, send, bounds>>

(***************************************************************************)
(* A send: the path is read under manager.mu, used without it.             *)
(***************************************************************************)
SendPrepare(s) ==
    /\ send[s].pc = "idle" /\ mu = NoOne /\ current # 0 /\ sends < MaxSends
    /\ send' = [send EXCEPT ![s] = [pc |-> "prepared", path |-> current]]
    /\ sends' = sends + 1
    /\ UNCHANGED <<mu, current, snapshot, path, op, calls, packets>>

\* A writer that waits for fastPath.mu keeps new readers out, as does Close
\* while it holds the lock.
Closing(p) ==
    \/ status[p] = "closing"
    \/ current = p /\ \E o \in Operators : op[o].pc = "detach"

\* fastPath.SendFrame and its siblings: read-lock, check that the path is up.
SendFrame(s) ==
    LET p == send[s].path
    IN /\ send[s].pc = "prepared" /\ ~Closing(p)
       /\ \/ /\ Ready(p)
             /\ send' = [send EXCEPT ![s].pc = "sending"]
             /\ readers' = [readers EXCEPT ![p] = @ \cup {s}]
          \/ /\ ~Ready(p)
             /\ send' = [send EXCEPT ![s].pc = "record"]
             /\ UNCHANGED readers
       /\ UNCHANGED <<mu, current, snapshot, status, loop, flusher, batch, op, bounds>>

\* Mutant: the drop is recorded while fastPath.mu is still held.
RecordsInside(s) ==
    /\ send[s].pc = "sending" /\ mu = NoOne
    /\ send' = [send EXCEPT ![s].pc = "record"]
    /\ readers' = [readers EXCEPT ![send[s].path] = @ \ {s}]
    /\ UNCHANGED <<mu, current, snapshot, status, loop, flusher, batch, op, bounds>>

\* The neighbour is resolved and the frame published; fastPath.mu is released.
SendDone(s) ==
    /\ send[s].pc = "sending"
    /\ send' = [send EXCEPT ![s].pc = "record"]
    /\ readers' = [readers EXCEPT ![send[s].path] = @ \ {s}]
    /\ UNCHANGED <<mu, current, snapshot, status, loop, flusher, batch, op, bounds>>

\* Telemetry, or the drop, is recorded under manager.mu.
SendRecord(s) ==
    /\ send[s].pc = "record" /\ mu = NoOne
    /\ send' = [send EXCEPT ![s] = NoSend]
    /\ UNCHANGED <<mu, current, snapshot, path, op, bounds>>

OpStep(o) == Ensure(o) \/ CloseBegin(o) \/ CloseEnd(o) \/ Return(o)
LoopStep(p) ==
    \/ recordDrop(p) \/ ReceiveStopped(p) \/ Deliver(p)
    \/ DeliverFrames(p) \/ DeliverEnd(p) \/ LoopDone(p)
SendStep(s) == SendFrame(s) \/ SendDone(s) \/ SendRecord(s)

Next ==
    \/ \E o \in Operators :
         OpStep(o) \/ RollbackSnapshot(o) \/ Detach(o) \/ \E want \in BOOLEAN : ApplySnapshot(o, want)
    \/ \E p \in Paths : LoopStep(p) \/ Receive(p) \/ ReceiveFails(p) \/ FlusherDone(p)
    \/ \E s \in Senders : SendStep(s) \/ SendPrepare(s)

Spec == Init /\ [][Next]_vars

\* Every goroutine that can go on goes on.
Fairness ==
    /\ \A o \in Operators : WF_vars(OpStep(o))
    /\ \A p \in Paths : WF_vars(LoopStep(p)) /\ WF_vars(FlusherDone(p))
    /\ \A s \in Senders : WF_vars(SendStep(s))

FairSpec == Spec /\ Fairness

--------------------------------------------------------------------------------
\* Once the rings and the UMEM of a path are unmapped, neither its goroutines
\* nor a send that looked the path up earlier touches them (Close's wait for
\* the goroutines, and the check of Ready under fastPath.mu).
UnmappedUnused ==
    \A p \in Paths : status[p] \in {"new", "closed"} =>
        loop[p] = "exited" /\ ~flusher[p] /\ readers[p] = {}

\* A path that is running is the manager's current one: a later attach never
\* leaves an earlier path behind with its program attached.
OnePathUp ==
    \A p \in Paths : status[p] \in {"up", "closing"} => current = p

\* ApplySnapshot and Detach return.
OperationsEnd ==
    \A o \in Operators : (op[o].pc # "idle") ~> (op[o].pc = "idle")

\* A send that has begun comes to its end.
SendsEnd ==
    \A s \in Senders : (send[s].pc # "idle") ~> (send[s].pc = "idle")

================================================================================
