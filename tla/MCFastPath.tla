----------------------------- MODULE MCFastPath -----------------------------
(***************************************************************************)
(* The AF_XDP fast path: AFXDPTransmit with everything that postpones a    *)
(* kick ("transmit") and with none of it ("plain"); AFXDPReceive with      *)
(* packets recycled by the read loop ("receive"), with payloads that are   *)
(* borrowed ("tokens") and with a consumer that releases them beside the   *)
(* read loop ("consumer"); FastPathLifecycle ("lifecycle").                *)
(*                                                                         *)
(* A behaviour is one of part's component; the others stay in their        *)
(* initial states.                                                         *)
(***************************************************************************)
EXTENDS AFXDPTransmit, Sequences, TLC

CONSTANT c1

VARIABLES
    part,
    ring, prod, cons, taken, rx, rxFrames, n, i, state, rxBatch, held, out, pending, push, cleanup, lost, rxLoop, done, rxPackets,
    mu, current, snapshot, status, readers, pathLoop, flusher, batch, op, send, calls, packets, pathSends

rxVars == <<ring, prod, cons, taken, rx, rxFrames, n, i, state, rxBatch, held, out, pending, push, cleanup, lost, rxLoop,
            done, rxPackets>>
pathVars == <<mu, current, snapshot, status, readers, pathLoop, flusher, batch, op, send, calls, packets, pathSends>>

Plain == INSTANCE AFXDPTransmit WITH
    KickBatch <- 1, DeferFlush <- FALSE, DeferDelay <- FALSE, FlushInterval <- FALSE,
    SoftBackoff <- FALSE, Backpressure <- FALSE, NeedWakeup <- FALSE, MaxSends <- 3

FourFrames == <<"f1", "f2", "f3", "f4">>

Receive == INSTANCE AFXDPReceive WITH
    loop <- rxLoop, batch <- rxBatch, packets <- rxPackets, Frames <- FourFrames, UmemFrames <- 6, Burst <- 2,
    Kinds <- {"deliver", "panic", "invalid"}, Consumers <- {}, Wrap <- 8, MaxPackets <- 4

Tokens == INSTANCE AFXDPReceive WITH
    loop <- rxLoop, batch <- rxBatch, packets <- rxPackets, Frames <- FourFrames, UmemFrames <- 6, Burst <- 2,
    Kinds <- {"deliver", "release"}, Consumers <- {}, Wrap <- 8, MaxPackets <- 4

Consumer == INSTANCE AFXDPReceive WITH
    loop <- rxLoop, batch <- rxBatch, packets <- rxPackets, Frames <- FourFrames, UmemFrames <- 6, Burst <- 2,
    Kinds <- {"now", "release"}, Consumers <- {c1}, Wrap <- 8, MaxPackets <- 3

Lifecycle == INSTANCE FastPathLifecycle WITH
    loop <- pathLoop, sends <- pathSends,
    Operators <- {"o1", "o2"}, Senders <- {"s1", "s2"}, MaxCalls <- 3, MaxPackets <- 3, MaxSends <- 3

MCInit ==
    /\ part \in {"transmit", "plain", "receive", "tokens", "consumer", "lifecycle"}
    /\ Init /\ Lifecycle!Init
    /\ IF part = "consumer" THEN Consumer!Init ELSE Receive!Init

MCNext ==
    /\ UNCHANGED part
    /\ \/ /\ UNCHANGED <<rxVars, pathVars>>
          /\ \/ part = "transmit" /\ Next
             \/ part = "plain" /\ Plain!Next
       \/ /\ UNCHANGED <<vars, pathVars>>
          /\ \/ part = "receive" /\ Receive!Next
             \/ part = "tokens" /\ Tokens!Next
             \/ part = "consumer" /\ Consumer!Next
       \/ part = "lifecycle" /\ Lifecycle!Next /\ UNCHANGED <<vars, rxVars>>

MCSpec == MCInit /\ [][MCNext]_<<part, vars, rxVars, pathVars>>

Symmetry == Permutations(Frames)

-----------------------------------------------------------------------------
\* While only the read loop recycles frames and no payload is borrowed, every
\* frame given to the receiving socket is offered to the kernel, received or
\* leased, and only one of these, or its push was answered with an error.  While
\* only the read loop recycles, payloads borrowed or not, the fill ring, the
\* backlog and the pushes under way never name a frame twice.  With a consumer
\* that releases beside the read loop, a goroutine begins to recycle a frame only
\* by using up its latest lease (readLoop and its clean-up, recycleRXFrames,
\* markRecycled).
LeasesKept ==
    /\ [](part = "receive" => Receive!FramesConserved)
    /\ [](part \in {"receive", "tokens"} => Tokens!OfferedOnce)
    /\ [][part = "consumer" => Consumer!UsesUpLease]_<<part, rxVars>>

\* Once a path's rings are unmapped, neither its goroutines nor a send that
\* looked the path up earlier touches them (Close, and Ready under fastPath.mu),
\* and a path that is running is the manager's current one: a later attach never
\* leaves an earlier path behind with its program attached.
PathsSafe == Lifecycle!UnmappedUnused /\ Lifecycle!OnePathUp
=============================================================================
