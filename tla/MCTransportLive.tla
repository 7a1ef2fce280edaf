-------------------------- MODULE MCTransportLive --------------------------
(***************************************************************************)
(* What has to happen in the end in the transports: SecureHandshake over a *)
(* faulty network ("handshake"), TLSHandoff ("tls"), KernelUDPSession with *)
(* a full queue ("udp"), and of the AF_XDP fast path AFXDPTransmit with a  *)
(* ring of one ("transmit"), AFXDPReceive ("receive") and                  *)
(* FastPathLifecycle without received packets ("lifecycle").               *)
(*                                                                         *)
(* A behaviour is one of part's component; the others stay in their        *)
(* initial states, and only the steps of part's component are fair.        *)
(***************************************************************************)
EXTENDS Integers, Sequences

VARIABLES
    part,
    cl, ckey, srv, hellos, up, down, faults, restarts,
    client, server, detached, c2s, s2c, tlsHellos, broken,
    arrived, released, entry, closed, in, recvPending, reassembly, reader, receiver, closer, full,
    free, tx, inflight, comp, pendingKick, notified, softKick, recentKick, awake, job, txLoop, txSends, failures,
    ring, prod, cons, taken, rx, rxFrames, n, i, state, rxBatch, held, out, pending, push, cleanup, lost, rxLoop, done, rxPackets,
    mu, current, snapshot, status, readers, loop, flusher, batch, op, send, calls, packets, sends

shakeVars == <<cl, ckey, srv, hellos, up, down, faults, restarts>>
tlsVars == <<client, server, detached, c2s, s2c, tlsHellos, broken>>
udpVars == <<arrived, released, entry, closed, in, recvPending, reassembly, reader, receiver, closer, full>>
txVars == <<free, tx, inflight, comp, pendingKick, notified, softKick, recentKick, awake, job, txLoop,
            txSends, failures>>
rxVars == <<ring, prod, cons, taken, rx, rxFrames, n, i, state, rxBatch, held, out, pending, push, cleanup, lost, rxLoop,
            done, rxPackets>>
pathVars == <<mu, current, snapshot, status, readers, loop, flusher, batch, op, send, calls, packets, sends>>

\* At most two faults and restarts, and a dial after each of them.
Shake == INSTANCE SecureHandshake WITH MaxDials <- 3, MaxQueue <- 2, MaxFaults <- 2, MaxRestarts <- 1

TLS == INSTANCE TLSHandoff WITH c <- client, s <- server, hellos <- tlsHellos, MaxHellos <- 6

Frame(seq, idx, count) == [seq |-> seq, idx |-> idx, count |-> count, hello |-> seq = 1, copy |-> 1]

UDP == INSTANCE KernelUDPSession WITH
    Frames <- {Frame(1, 0, 0), Frame(2, 0, 2), Frame(5, 0, 0), Frame(6, 0, 1)},
    QueueSize <- 1, MaxAssemblies <- 1, MaxFragments <- 2, MaxRecv <- 2, MaxBatch <- 2

Transmit == INSTANCE AFXDPTransmit WITH
    loop <- txLoop, sends <- txSends, Frames <- {"f1", "f2"}, RingSize <- 1, Kinds <- {"tcp", "multi"},
    MaxItems <- 2, KickBatch <- 2, DeferFlush <- TRUE, DeferDelay <- FALSE, FlushInterval <- TRUE,
    SoftBackoff <- TRUE, Backpressure <- TRUE, NeedWakeup <- TRUE, MaxSends <- 2, MaxFailures <- 1

Receive == INSTANCE AFXDPReceive WITH
    loop <- rxLoop, batch <- rxBatch, packets <- rxPackets, Frames <- <<"f1", "f2">>, UmemFrames <- 3, Burst <- 2,
    Kinds <- {"deliver", "panic", "invalid"}, Consumers <- {}, Wrap <- 4, MaxPackets <- 3

Lifecycle == INSTANCE FastPathLifecycle WITH
    Operators <- {"o1", "o2"}, Senders <- {"s1", "s2"}, MaxCalls <- 3, MaxPackets <- 0, MaxSends <- 2

MCInit ==
    /\ part \in {"handshake", "tls", "udp", "transmit", "receive", "lifecycle"}
    /\ Shake!Init /\ TLS!Init /\ UDP!Init /\ Transmit!Init /\ Receive!Init /\ Lifecycle!Init

MCNext ==
    /\ UNCHANGED part
    /\ \/ /\ part = "handshake" /\ Shake!Next /\ faults' + restarts' <= 2
          /\ UNCHANGED <<tlsVars, udpVars, txVars, rxVars, pathVars>>
       \/ part = "tls" /\ TLS!Next /\ UNCHANGED <<shakeVars, udpVars, txVars, rxVars, pathVars>>
       \/ part = "udp" /\ UDP!Next /\ UNCHANGED <<shakeVars, tlsVars, txVars, rxVars, pathVars>>
       \/ part = "transmit" /\ Transmit!Next /\ UNCHANGED <<shakeVars, tlsVars, udpVars, rxVars, pathVars>>
       \/ part = "receive" /\ Receive!Next /\ UNCHANGED <<shakeVars, tlsVars, udpVars, txVars, pathVars>>
       \/ part = "lifecycle" /\ Lifecycle!Next /\ UNCHANGED <<shakeVars, tlsVars, udpVars, txVars, rxVars>>

\* The fairness of each component (their FairSpec), while it is the one that moves.
MCFairness ==
    /\ \A d \in 1..3 :
          /\ WF_shakeVars(part = "handshake" /\ Shake!Dial(d))
          /\ WF_shakeVars(part = "handshake" /\ Shake!Retransmit(d))
          /\ WF_shakeVars(part = "handshake" /\ Shake!ClientSends(d))
          /\ WF_shakeVars(part = "handshake" /\ Shake!ServerSends(d))
          /\ WF_shakeVars(part = "handshake" /\ Shake!ClientReceives(d))
          /\ WF_shakeVars(part = "handshake" /\ Shake!ServerReceives(d))
    /\ WF_tlsVars(part = "tls" /\ TLS!Client) /\ WF_tlsVars(part = "tls" /\ TLS!ClientDuplicate)
    /\ WF_tlsVars(part = "tls" /\ TLS!Server) /\ WF_tlsVars(part = "tls" /\ TLS!ServerDuplicate)
    /\ WF_udpVars(part = "udp" /\ UDP!Reader) /\ WF_udpVars(part = "udp" /\ UDP!Receiver)
    /\ WF_udpVars(part = "udp" /\ UDP!Closer) /\ SF_udpVars(part = "udp" /\ UDP!CloseRead)
    /\ WF_txVars(part = "transmit" /\ Transmit!SendStep)
    /\ WF_txVars(part = "transmit" /\ Transmit!LoopTimer)
    /\ WF_txVars(part = "transmit" /\ Transmit!flushTX)
    /\ WF_txVars(part = "transmit" /\ Transmit!ReclaimCompletions)
    /\ WF_txVars(part = "transmit" /\ Transmit!KernelTake)
    /\ WF_txVars(part = "transmit" /\ Transmit!KernelComplete)
    /\ WF_txVars(part = "transmit" /\ Transmit!KernelSleep)
    /\ WF_txVars(part = "transmit" /\ Transmit!SoftKickLapses)
    /\ WF_txVars(part = "transmit" /\ Transmit!FlushIntervalLapses)
    /\ WF_txVars(part = "transmit" /\ Transmit!DeadlinePasses)
    /\ WF_rxVars(part = "receive" /\ Receive!LoopStep) /\ WF_rxVars(part = "receive" /\ Receive!KernelConsume)
    /\ \A o \in {"o1", "o2"} : WF_pathVars(part = "lifecycle" /\ Lifecycle!OpStep(o))
    /\ \A p \in 1..3 : /\ WF_pathVars(part = "lifecycle" /\ Lifecycle!LoopStep(p))
                       /\ WF_pathVars(part = "lifecycle" /\ Lifecycle!FlusherDone(p))
    /\ \A s \in {"s1", "s2"} : WF_pathVars(part = "lifecycle" /\ Lifecycle!SendStep(s))

MCFairSpec ==
    MCInit /\ [][MCNext]_<<part, shakeVars, tlsVars, udpVars, txVars, rxVars, pathVars>> /\ MCFairness

-----------------------------------------------------------------------------
\* A client and a server that both have a session have derived the same key
\* while the server has not restarted, and in the end they do for good, whatever
\* hellos were lost, repeated or overtaken.  On the way out of TLS no side ever
\* has before it a packet of the layer it is not in, and unless the connection
\* is lost both complete it, however often the hello was repeated.
HandshakesComplete ==
    /\ [](Shake!SameKey /\ TLS!LayersAgree)
    /\ <>[](/\ part = "handshake" => \E d \in 1..3 : Shake!Matched(d)
            /\ part = "tls" => broken \/ (client = "done" /\ server = "done"))

\* A frame on the TX ring is taken by the kernel in the end, whatever kicks were
\* skipped, refused or postponed (reclaimCompletionLoop's timer), and a frame the
\* read loop leased is offered to the kernel again, also after a panic and when
\* the path closes; unless the loop ended on an invalid descriptor (readLoop).
FramesMove ==
    \A f \in {"f1", "f2"} :
        (f \in tx \/ f \in Receive!Leased) ~> (f \notin tx /\ (f \in Receive!Offered \/ rxLoop = "failed"))

\* Calls come to their end: a send that holds txMu waits until its deadline at
\* most; Close of a kernel UDP session waits for nothing that a full queue or a
\* receive loop that has gone could hold back; and when no packet is received,
\* attach, detach, snapshots and sends end however they meet.  Operators and
\* senders are interchangeable: one stands for all.
CallsEnd ==
    LET Called == job.pc # "idle" \/ closer = "lock" \/ op["o1"].pc # "idle"
        Ended == job.pc = "idle" /\ closer \in {"open", "done"} /\ op["o1"].pc = "idle"
    IN /\ Called ~> Ended
       /\ (send["s1"].pc # "idle") ~> (send["s1"].pc = "idle")
=============================================================================
