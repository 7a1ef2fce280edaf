-------------------------- MODULE KernelUDPSession --------------------------
(***************************************************************************)
(* A kernelSession of the UDP transport and the buffers it borrows: the    *)
(* listener's reader takes frames from the provider, puts fragments        *)
(* together and queues packets, the receive loop returns them in batches   *)
(* and gives the buffers back when the caller is done, and Close may run   *)
(* at any time.  A buffer must be given back once and only once.           *)
(***************************************************************************)
EXTENDS Naturals, Sequences, FiniteSets, SequencesExt, FiniteSetsExt

CONSTANTS
    Frames,         \* frames that arrive: [seq, idx, count, hello], a copy field tells repeats apart
    QueueSize,      \* packet batches the channel in holds
    MaxAssemblies,  \* reassemblyMaxAssemblies
    MaxFragments,   \* kernelUDPMaxFragments
    MaxRecv,        \* packets a receive asks for
    MaxBatch        \* bound: frames of one event of the subscription

VARIABLES
    arrived,     \* frames the provider has handed over
    released,    \* per frame: calls of its Release
    entry,       \* the listener knows the session: "none", "new" (never created) or "open"
    closed,      \* the channel closed
    in, recvPending, reassembly,
    reader,      \* the listener's reader: where it is, frames to handle, packets ready
    receiver,    \* the receive loop: where it is, packets it is about to return
    closer,      \* where Close is
    full         \* bound: the accept queue has been full once

vars == <<arrived, released, entry, closed, in, recvPending, reassembly, reader, receiver, closer, full>>

ReaderIdle == [at |-> "idle", todo |-> <<>>, ready |-> <<>>]

Init ==
    /\ arrived = {} /\ released = [f \in Frames |-> 0]
    /\ entry = "new" /\ closed = FALSE
    /\ in = <<>> /\ recvPending = <<>> /\ reassembly = <<>>
    /\ reader = ReaderIdle
    /\ receiver = [at |-> "idle", hand |-> <<>>]
    /\ closer = "open" /\ full = FALSE

Release(fs) == [f \in Frames |-> IF f \in fs THEN released[f] + 1 ELSE released[f]]

\* A packet: the frames it was made of, in order, and the buffers it borrows.
Borrowed(f) == [parts |-> <<f>>, holds |-> {f}]
Copied(fs) == [parts |-> fs, holds |-> {}]
Holds(packets) == UNION {p.holds : p \in ToSet(packets)}
InBatches(batches) == UNION {Holds(b) : b \in ToSet(batches)}

-----------------------------------------------------------------------------
\* dispatchBatch when the listener has no session for the flow: a
\* frame that is no client hello is given back; a hello makes a session, unless
\* the accept queue is full.  After Close a hello begins another session, which
\* answers for the frame from then on: here it counts as given back.  The event
\* that finds no session has one frame.
DispatchNone(fs) ==
    /\ reader.at = "idle" /\ entry # "open"
    /\ LET f == fs[1] IN
       /\ Len(fs) = 1 /\ f \notin arrived /\ arrived' = arrived \union {f}
       /\ \/ /\ ~f.hello \/ entry = "none"
             /\ released' = Release({f}) /\ UNCHANGED <<entry, reader, full>>
          \/ /\ f.hello /\ entry = "new" /\ entry' = "open"
             /\ reader' = [reader EXCEPT !.at = "handle", !.todo = fs]
             /\ UNCHANGED <<released, full>>
          \/ /\ f.hello /\ entry = "new" /\ ~full /\ full' = TRUE
             /\ released' = Release({f}) /\ UNCHANGED <<entry, reader>>
    /\ UNCHANGED <<closed, in, recvPending, reassembly, receiver, closer>>

\* ... when it has one: the frames are the session's to handle.
Dispatch(fs) ==
    /\ reader.at = "idle" /\ entry = "open"
    /\ ToSet(fs) \intersect arrived = {} /\ arrived' = arrived \union ToSet(fs)
    /\ reader' = [reader EXCEPT !.at = "handle", !.todo = fs]
    /\ UNCHANGED <<released, entry, closed, in, recvPending, reassembly, receiver, closer, full>>

\* The key of an assembly.
Base(f) == f.seq - f.idx

Got(a) == {a[i] : i \in {i \in DOMAIN a : a[i] # <<>>}}
Buffers(a) == {p[1] : p \in Got(a)}

Without(bases) == [b \in DOMAIN reassembly \ bases |-> reassembly[b]]

\* pruneReassemblyLocked and pruneOldestReassemblyIfFullLocked: assemblies whose
\* time is over, and one more if a new one would not fit.  Which is the oldest
\* is left open.
Pruned(f, gone) ==
    /\ gone \subseteq DOMAIN reassembly
    /\ Base(f) \notin DOMAIN reassembly \ gone =>
        Cardinality(DOMAIN reassembly \ gone) < MaxAssemblies

\* Mutant: fragments are put together in the order in which they arrive.
AssemblyByArrival(f, rest) ==
    LET a == IF Base(f) \in DOMAIN rest THEN rest[Base(f)] ELSE [i \in 0 .. f.count - 1 |-> <<>>] IN
    [a EXCEPT ![CHOOSE i \in DOMAIN a : a[i] = <<>> /\ \A k \in DOMAIN a : a[k] = <<>> => i <= k] = <<f>>]

\* handleFrameOne for a fragment, after the checks: the assembly with the
\* fragment in it.
Assembly(f, rest) ==
    LET a == IF Base(f) \in DOMAIN rest THEN rest[Base(f)] ELSE [i \in 0 .. f.count - 1 |-> <<>>] IN
    [a EXCEPT ![f.idx] = <<f>>]

HandleFragment(f, gone) ==
    LET rest == Without(gone)
        old == UNION {Buffers(reassembly[b]) : b \in gone}
        known == Base(f) \in DOMAIN rest
        mismatch == known /\ DOMAIN rest[Base(f)] # 0 .. f.count - 1
        duplicate == known /\ ~mismatch /\ rest[Base(f)][f.idx] # <<>>
        a == Assembly(f, rest)
        complete == \A i \in DOMAIN a : a[i] # <<>> IN
    /\ Pruned(f, gone)
    /\ IF mismatch
       THEN /\ reassembly' = [b \in DOMAIN rest \ {Base(f)} |-> rest[b]]
            /\ released' = Release(old \union Buffers(rest[Base(f)]) \union {f})
            /\ reader' = [reader EXCEPT !.todo = Tail(@)]
       ELSE IF duplicate
       THEN /\ reassembly' = rest /\ released' = Release(old \union {f})
            /\ reader' = [reader EXCEPT !.todo = Tail(@)]
       ELSE IF complete
       THEN /\ reassembly' = [b \in DOMAIN rest \ {Base(f)} |-> rest[b]]
            /\ released' = Release(old \union Buffers(a))
            /\ reader' = [reader EXCEPT !.todo = Tail(@),
                            !.ready = Append(@, Copied([i \in 1 .. f.count |-> a[i - 1][1]]))]
       ELSE /\ reassembly' = [b \in DOMAIN rest \union {Base(f)} |-> IF b = Base(f) THEN a ELSE rest[b]]
            /\ released' = Release(old)
            /\ reader' = [reader EXCEPT !.todo = Tail(@)]

\* handleFrameOne.
HandleFrame ==
    /\ reader.at = "handle" /\ reader.todo # <<>>
    /\ LET f == Head(reader.todo) IN
       IF f.count <= 1
       THEN /\ IF f.idx = 0
               THEN reader' = [reader EXCEPT !.todo = Tail(@), !.ready = Append(@, Borrowed(f))] /\ UNCHANGED released
               ELSE reader' = [reader EXCEPT !.todo = Tail(@)] /\ released' = Release({f})
            /\ UNCHANGED reassembly
       ELSE IF f.count > MaxFragments \/ f.idx >= f.count \/ f.seq <= f.idx
       THEN /\ reader' = [reader EXCEPT !.todo = Tail(@)] /\ released' = Release({f})
            /\ UNCHANGED reassembly
       ELSE \E gone \in SUBSET DOMAIN reassembly : HandleFragment(f, gone)
    /\ UNCHANGED <<arrived, entry, closed, in, recvPending, receiver, closer, full>>

\* enqueueBatch: nothing to queue, or the session is closed.
EnqueueCheck ==
    /\ reader.at = "handle" /\ reader.todo = <<>>
    /\ IF reader.ready = <<>> \/ closed
       THEN reader' = ReaderIdle /\ released' = Release(Holds(reader.ready))
       ELSE reader' = [reader EXCEPT !.at = "checked"] /\ UNCHANGED released
    /\ UNCHANGED <<arrived, entry, closed, in, recvPending, reassembly, receiver, closer, full>>

\* ... then inputMu is taken, which closeInput may have had in between ...
EnqueueLock ==
    /\ reader.at = "checked" /\ closer # "drain"
    /\ reader' = [reader EXCEPT !.at = "enqueue"]
    /\ UNCHANGED <<arrived, released, entry, closed, in, recvPending, reassembly, receiver, closer, full>>

\* ... and either the queue or the end is chosen, at random if both are ready.
Enqueue ==
    /\ reader.at = "enqueue" /\ Len(in) < QueueSize
    /\ in' = Append(in, reader.ready) /\ reader' = ReaderIdle
    /\ UNCHANGED <<arrived, released, entry, closed, recvPending, reassembly, receiver, closer, full>>

EnqueueClosed ==
    /\ reader.at = "enqueue" /\ closed
    /\ released' = Release(Holds(reader.ready)) /\ reader' = ReaderIdle
    /\ UNCHANGED <<arrived, entry, closed, in, recvPending, reassembly, receiver, closer, full>>

-----------------------------------------------------------------------------
\* RecvPacketsWithRelease, which holds recvReadMu.
RecvBegin ==
    /\ receiver.at = "idle" /\ closer # "pending"
    /\ receiver' = [receiver EXCEPT !.at = IF recvPending # <<>> THEN "pending" ELSE "wait"]
    /\ UNCHANGED <<arrived, released, entry, closed, in, recvPending, reassembly, reader, closer, full>>

\* Mutant: what is left of a batch is kept with the buffers already returned.
SplitKeepsAll(batch, n) == [taken |-> SubSeq(batch, 1, n), left |-> IF n < Len(batch) THEN batch ELSE <<>>]

\* appendBatch: the first packets of a batch, and what is left of it.
Split(batch, n) == [taken |-> SubSeq(batch, 1, n), left |-> SubSeq(batch, n + 1, Len(batch))]

Least(a, b) == IF a <= b THEN a ELSE b

RecvPending ==
    LET cut == Split(recvPending, Least(MaxRecv, Len(recvPending))) IN
    /\ receiver.at = "pending"
    /\ recvPending' = cut.left
    /\ receiver' = [at |-> "return", hand |-> cut.taken]
    /\ UNCHANGED <<arrived, released, entry, closed, in, reassembly, reader, closer, full>>

RecvBatch ==
    /\ receiver.at = "wait" /\ in # <<>>
    /\ LET cut == Split(Head(in), Least(MaxRecv - Len(receiver.hand), Len(Head(in))))
           hand == receiver.hand \o cut.taken IN
       /\ recvPending' = cut.left
       /\ receiver' = [at |-> IF cut.left # <<>> \/ Len(hand) >= MaxRecv THEN "return" ELSE "wait", hand |-> hand]
    /\ in' = Tail(in)
    /\ UNCHANGED <<arrived, released, entry, closed, reassembly, reader, closer, full>>

\* Mutant: a receive that has nothing does not look at the end of the session.
RecvReturnsDeaf ==
    /\ receiver.at = "wait" /\ receiver.hand # <<>> /\ in = <<>>
    /\ receiver' = [receiver EXCEPT !.at = "return"]
    /\ UNCHANGED <<arrived, released, entry, closed, in, recvPending, reassembly, reader, closer, full>>

\* Nothing more is queued, or the session is closed: a receive that has packets
\* returns them, one that has none ends with an error.
RecvReturns ==
    /\ receiver.at = "wait"
    /\ \/ in = <<>> /\ receiver.hand # <<>> /\ receiver' = [receiver EXCEPT !.at = "return"]
       \/ closed /\ receiver' = [receiver EXCEPT !.at = IF receiver.hand # <<>> THEN "return" ELSE "end"]
    /\ UNCHANGED <<arrived, released, entry, closed, in, recvPending, reassembly, reader, closer, full>>

\* The caller has injected the packets and calls the release function.
Consumed ==
    /\ receiver.at = "return"
    /\ released' = Release(Holds(receiver.hand)) /\ receiver' = [at |-> "idle", hand |-> <<>>]
    /\ UNCHANGED <<arrived, entry, closed, in, recvPending, reassembly, reader, closer, full>>

-----------------------------------------------------------------------------
\* Close: the listener forgets the session, and closeInput begins.
Close ==
    /\ closer = "open" /\ entry = "open"
    /\ entry' = "none" /\ closed' = TRUE /\ closer' = "lock"
    /\ UNCHANGED <<arrived, released, in, recvPending, reassembly, reader, receiver, full>>

\* closeInput waits for inputMu, which the reader may hold.
CloseLock ==
    /\ closer = "lock" /\ reader.at # "enqueue" /\ closer' = "drain"
    /\ UNCHANGED <<arrived, released, entry, closed, in, recvPending, reassembly, reader, receiver, full>>

CloseDrain ==
    /\ closer = "drain" /\ closer' = "read"
    /\ in' = <<>> /\ released' = Release(InBatches(in))
    /\ UNCHANGED <<arrived, entry, closed, recvPending, reassembly, reader, receiver, full>>

\* ... for recvReadMu, which a receive may hold ...
CloseRead ==
    /\ closer = "read" /\ receiver.at \in {"idle", "return", "end"} /\ closer' = "pending"
    /\ UNCHANGED <<arrived, released, entry, closed, in, recvPending, reassembly, reader, receiver, full>>

ClosePending ==
    /\ closer = "pending" /\ closer' = "assemblies"
    /\ recvPending' = <<>> /\ released' = Release(Holds(recvPending))
    /\ UNCHANGED <<arrived, entry, closed, in, reassembly, reader, receiver, full>>

\* ... and at last the fragments are given back.
CloseAssemblies ==
    /\ closer = "assemblies" /\ closer' = "done"
    /\ reassembly' = <<>>
    /\ released' = Release(UNION {Buffers(reassembly[b]) : b \in DOMAIN reassembly})
    /\ UNCHANGED <<arrived, entry, closed, in, recvPending, reader, receiver, full>>

Reader == HandleFrame \/ EnqueueCheck \/ EnqueueLock \/ Enqueue \/ EnqueueClosed
Receiver == RecvBegin \/ RecvPending \/ RecvBatch \/ RecvReturns \/ Consumed
Closer == CloseLock \/ CloseDrain \/ CloseRead \/ ClosePending \/ CloseAssemblies

Batches == UNION {{b \in [1..n -> Frames] : IsInjective(b)} : n \in 1..MaxBatch}

Next ==
    \/ \E fs \in Batches : DispatchNone(fs) \/ Dispatch(fs)
    \/ Reader \/ Receiver \/ Close \/ Closer

Spec == Init /\ [][Next]_vars

FairSpec == Spec /\ WF_vars(Reader) /\ WF_vars(Receiver) /\ WF_vars(Closer) /\ SF_vars(CloseRead)

-----------------------------------------------------------------------------
Assembled == UNION {Buffers(reassembly[b]) : b \in DOMAIN reassembly}

\* The number of places that hold the buffer of f.
Places(f) ==
    Cardinality({b \in DOMAIN reassembly : f \in Buffers(reassembly[b])}) +
    Cardinality({i \in DOMAIN in : f \in Holds(in[i])}) +
    Cardinality({n \in 1..4 : f \in <<Holds(recvPending), Holds(receiver.hand),
                                      Holds(reader.ready), ToSet(reader.todo)>>[n]})

\* The buffer of every frame that has arrived is held in one place or has been
\* given back, once: none is lost or given back twice on any path through the
\* reader, the receive loop and Close, however they meet.
BuffersAccounted == \A f \in arrived : released[f] + Places(f) = 1

\* A packet that is queued, kept or returned is made of all the fragments of
\* one packet in their order, whatever is repeated, overtaken or given up.
PacketsIntact ==
    \A p \in UNION {ToSet(q) : q \in ToSet(in) \union {recvPending, receiver.hand, reader.ready}} :
        \A i \in DOMAIN p.parts :
            /\ p.parts[i].idx = i - 1 /\ p.parts[i].seq = p.parts[1].seq + i - 1
            /\ Len(p.parts) = IF p.parts[i].count > 1 THEN p.parts[i].count ELSE 1

\* A session whose Close has returned, and which nobody uses any more, holds no
\* buffer, as TestKernelSessionCloseConcurrentRecvReleasesEveryBatch has it.
ClosedHoldsNothing ==
    closer = "done" /\ reader.at = "idle" /\ receiver.at = "end" => Assembled \union InBatches(in) = {}

\* Close returns although the reader may be blocked on a full queue with inputMu
\* held and the receive loop waits with recvReadMu held.
CloseReturns == closer = "lock" ~> closer = "done"
=============================================================================
