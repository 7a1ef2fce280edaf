----------------------------- MODULE MCSessions -----------------------------
(***************************************************************************)
(* Sessions and the receiving side of the transports: ReplayWindow (part   *)
(* "window"), the words of its ring ("bits"), SecureRecords over the same  *)
(* window ("records"); KernelUDPSession with a hello, a packet of two      *)
(* fragments one of which is repeated, a fragment that does not fit them,  *)
(* one of a packet with too many, and a packet that is not fragmented      *)
(* ("kernel"); DataSessions with two flows that dial and either an         *)
(* operator that closes or a failure ("flows"), with one flow and both of  *)
(* these ("flow"), with a flow and a listener whose peer restarts and may  *)
(* lose its address ("peer"), with two listeners ("inbound").              *)
(*                                                                         *)
(* A behaviour is one of part's component; the others stay in their        *)
(* initial states.                                                         *)
(***************************************************************************)
EXTENDS SecureRecords

CONSTANTS closing, ticking, noThread, flow1, flow2, accept1, accept2

VARIABLES
    part,
    words, op,
    arrived, released, entry, closed, in, kept, reassembly, reader, receiver, closer, full,
    table, sess, epoch, generation, dial, cache, kernel, kmu, inited, me, peerGen, closedAt, closes, fails, kfails

bitsVars == <<words, op>>
recordsVars == <<sending, receiving, faults>>
kernelVars == <<arrived, released, entry, closed, in, kept, reassembly, reader, receiver, closer, full>>
sessionVars == <<table, sess, epoch, generation, dial, cache, kernel, kmu, inited, me, peerGen, closedAt,
                 closes, fails, kfails>>

Words == INSTANCE ReplayBits WITH seen <- words, Width <- 3, Size <- 8

Frame(seq, idx, count, copy) ==
    [seq |-> seq, idx |-> idx, count |-> count, hello |-> seq = 1, copy |-> copy]
KernelFrames ==
    {Frame(1, 0, 0, 1), Frame(2, 0, 2, 1), Frame(3, 1, 2, 1), Frame(3, 1, 2, 2),
     Frame(4, 2, 3, 1), Frame(5, 0, 0, 1), Frame(6, 0, 4, 1)}

Kernel == INSTANCE KernelUDPSession WITH
    recvPending <- kept, Frames <- KernelFrames,
    QueueSize <- 1, MaxAssemblies <- 1, MaxFragments <- 3, MaxRecv <- 2, MaxBatch <- 2

Flows == INSTANCE DataSessions WITH
    closed <- closedAt, Closer <- closing, Ticker <- ticking, Nobody <- noThread,
    Flow <- {flow1, flow2}, Acceptor <- {}, PreferReverse <- FALSE, KeepReverse <- FALSE,
    MayLoseAddress <- FALSE, MaxSessions <- 2, MaxCloses <- 1, MaxRestarts <- 0, MaxFails <- 1, MaxKernelFails <- 0

One == INSTANCE DataSessions WITH
    closed <- closedAt, Closer <- closing, Ticker <- ticking, Nobody <- noThread,
    Flow <- {flow1}, Acceptor <- {}, PreferReverse <- FALSE, KeepReverse <- FALSE,
    MayLoseAddress <- FALSE, MaxSessions <- 2, MaxCloses <- 1, MaxRestarts <- 0, MaxFails <- 1, MaxKernelFails <- 0

Peer == INSTANCE DataSessions WITH
    closed <- closedAt, Closer <- closing, Ticker <- ticking, Nobody <- noThread,
    Flow <- {flow1}, Acceptor <- {accept1}, PreferReverse <- TRUE, KeepReverse <- FALSE,
    MayLoseAddress <- TRUE, MaxSessions <- 2, MaxCloses <- 0, MaxRestarts <- 1, MaxFails <- 0, MaxKernelFails <- 0

Inbound == INSTANCE DataSessions WITH
    closed <- closedAt, Closer <- closing, Ticker <- ticking, Nobody <- noThread,
    Flow <- {}, Acceptor <- {accept1, accept2}, PreferReverse <- FALSE, KeepReverse <- TRUE,
    MayLoseAddress <- FALSE, MaxSessions <- 3, MaxCloses <- 0, MaxRestarts <- 1, MaxFails <- 0, MaxKernelFails <- 0

MCInit ==
    /\ SInit /\ Words!Init /\ Kernel!Init
    /\ \/ part \in {"window", "bits", "records", "kernel", "flows"} /\ Flows!Init
       \/ part = "flow" /\ One!Init
       \/ part = "peer" /\ Peer!Init
       \/ part = "inbound" /\ Inbound!Init

MCNext ==
    /\ UNCHANGED part
    /\ \/ part = "window" /\ Next /\ UNCHANGED <<bitsVars, recordsVars, kernelVars, sessionVars>>
       \/ part = "bits" /\ Words!Next /\ UNCHANGED <<allVars, kernelVars, sessionVars>>
       \/ part = "records" /\ SNext /\ UNCHANGED <<bitsVars, kernelVars, sessionVars>>
       \/ part = "kernel" /\ Kernel!Next /\ UNCHANGED <<allVars, bitsVars, sessionVars>>
       \/ /\ UNCHANGED <<allVars, bitsVars, kernelVars>>
          /\ \/ part = "flows" /\ Flows!Next /\ closes' + fails' <= 1
             \/ part = "flow" /\ One!Next
             \/ part = "peer" /\ Peer!Next
             \/ part = "inbound" /\ Inbound!Next

MCSpec == MCInit /\ [][MCNext]_<<part, allVars, bitsVars, kernelVars, sessionVars>>

-----------------------------------------------------------------------------
\* A call on the ring's words sets and clears exactly the bits it names, in
\* whichever words they fall (clearReplayWindowLinearBits).
ExactlyTheRun == Words!ExactlyTheRun

\* The buffer of every frame that has arrived is held in one place or has been
\* given back, once, however reader, receive loop and Close meet; and a packet
\* that is queued, kept or returned is made of all the fragments of one packet
\* in their order (kernelSession, handleFrameOne).
BuffersAccounted == part = "kernel" => Kernel!BuffersAccounted /\ Kernel!PacketsIntact

\* Once nothing is in progress, the sessions that are open are those of the
\* table, whichever of dial, accept, generation, drop and close met, and the
\* kernel's records, which are written and deleted after the table has been
\* unlocked, agree with it.
SessionsSettle ==
    /\ part = "peer" => Peer!NoLeakWhenQuiet /\ Peer!KernelAgreesWhenQuiet
    /\ part = "inbound" => Inbound!NoLeakWhenQuiet /\ Inbound!KernelAgreesWhenQuiet
    /\ part = "flow" => One!NoLeakWhenQuiet /\ One!KernelAgreesWhenQuiet
    /\ part = "flows" => Flows!NoLeakWhenQuiet /\ Flows!KernelAgreesWhenQuiet

\* A session of the table is served: its runtime has not been cancelled and the
\* receive loop that removes it when it fails still runs; all are with the same
\* process of the peer, the one whose generation was noted; and a dial that
\* began before the sessions were closed brings none back (keepDataSession).
SessionsServed ==
    /\ part = "peer" => Peer!TableServed /\ Peer!OneGeneration
    /\ part = "inbound" => Inbound!TableServed /\ Inbound!OneGeneration
    /\ part = "flow" => One!TableServed /\ One!ClosedStaysClosed
    /\ part = "flows" => Flows!TableServed /\ Flows!ClosedStaysClosed
=============================================================================
