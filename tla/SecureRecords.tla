---------------------------- MODULE SecureRecords ----------------------------
(***************************************************************************)
(* The records of one direction of a secure session: goroutines that send  *)
(* packets one by one, as a run of records or as one batch record; a wire  *)
(* that loses, repeats and reorders; and the one goroutine that receives,  *)
(* through the replay window of ReplayWindow, packet by packet or up to    *)
(* MaxBatch at a time, with what a call has in excess kept in recvPending. *)
(* A record is its sequence number and its packets: a record that was      *)
(* sealed opens to what it was sealed from, anything else fails to open.   *)
(***************************************************************************)
EXTENDS ReplayWindow, Sequences, Functions

CONSTANTS
    Senders,     \* goroutines inside SendPacket
    MaxPackets,  \* bound: packets that are sent
    MaxBatch,    \* packets asked for by one RecvPackets
    MaxFaults    \* bound: sends that fail and packets that do not open

\* RecvPacketsWithRelease takes a batch only when more than one packet is asked for.
ASSUME RecordsAssumption == MaxBatch \in Nat \ {0}

VARIABLES
    sendSeq,  \* the counter of sequence numbers
    taken,    \* per sender: the number it took and has not sealed with
    packets,  \* packets handed to the session so far, numbered from one
    wire,     \* records that were sent; a record may arrive any number of times
    sealed,   \* history: records that were sealed
    rx,       \* the RecvPackets call under way: its records, and what it accepted
    recvPending,
    opened,     \* history: the packets of the records that were accepted, in order
    delivered,  \* the packets the calls returned, in order
    down,       \* the session returned an error to its receive loop
    faults

window == <<highest, head, seen, accepted, last>>
sending == <<sendSeq, taken, packets, wire, sealed>>
receiving == <<rx, recvPending, opened, delivered, down>>
allVars == <<window, sending, receiving, faults>>

Idle == [recs |-> <<>>, got |-> <<>>]

SInit ==
    /\ Init
    /\ sendSeq = 0 /\ taken = [g \in Senders |-> 0] /\ packets = 0 /\ wire = {} /\ sealed = {}
    /\ rx = Idle /\ recvPending = <<>> /\ opened = <<>> /\ delivered = <<>>
    /\ down = FALSE /\ faults = 0

-----------------------------------------------------------------------------
Record(seq, pkts) == [seq |-> seq, pkts |-> pkts]

\* Mutant: the number is read without being taken.
TakeSeqUnlocked(g) ==
    /\ taken[g] = 0 /\ packets < MaxPackets
    /\ taken' = [taken EXCEPT ![g] = sendSeq + 1]
    /\ UNCHANGED <<sendSeq, packets, wire, sealed, window, receiving, faults>>

\* SendPacket takes its number before it takes sendMu.
TakeSeq(g) ==
    /\ taken[g] = 0 /\ packets < MaxPackets
    /\ sendSeq' = sendSeq + 1
    /\ taken' = [taken EXCEPT ![g] = sendSeq + 1]
    /\ UNCHANGED <<packets, wire, sealed, window, receiving, faults>>

\* ... and seals and sends under it; the inner session may fail.
SendPacket(g) ==
    LET rec == Record(taken[g], <<packets + 1>>) IN
    /\ taken[g] # 0 /\ packets < MaxPackets
    /\ taken' = [taken EXCEPT ![g] = 0] /\ packets' = packets + 1
    /\ sealed' = sealed \union {rec}
    /\ \/ wire' = wire \union {rec} /\ UNCHANGED faults
       \/ wire' = wire /\ faults < MaxFaults /\ faults' = faults + 1
    /\ UNCHANGED <<sendSeq, window, receiving>>

\* SendPackets: n records with consecutive numbers; the inner session may fail
\* with the first k of them sent.
SendPackets(n) ==
    LET recs == [i \in 1..n |-> Record(sendSeq + i, <<packets + i>>)] IN
    /\ packets + n <= MaxPackets
    /\ sendSeq' = sendSeq + n /\ packets' = packets + n
    /\ sealed' = sealed \union {recs[i] : i \in 1..n}
    /\ \E k \in 0..n :
        /\ wire' = wire \union {recs[i] : i \in 1..k}
        /\ \/ k = n /\ UNCHANGED faults
           \/ k < n /\ faults < MaxFaults /\ faults' = faults + 1
    /\ UNCHANGED <<taken, window, receiving>>

\* sendSecureBatchRecord: one record, one number.
SendBatchRecord(n) ==
    LET rec == Record(sendSeq + 1, [i \in 1..n |-> packets + i]) IN
    /\ packets + n <= MaxPackets
    /\ sendSeq' = sendSeq + 1 /\ packets' = packets + n
    /\ sealed' = sealed \union {rec}
    /\ \/ wire' = wire \union {rec} /\ UNCHANGED faults
       \/ wire' = wire /\ faults < MaxFaults /\ faults' = faults + 1
    /\ UNCHANGED <<taken, window, receiving>>

-----------------------------------------------------------------------------
Ready == ~down /\ rx = Idle

\* popRecvPendingPacket and takeRecvPending: what an earlier call left over.
TakePending(max) ==
    LET n == IF max <= Len(recvPending) THEN max ELSE Len(recvPending) IN
    /\ Ready /\ recvPending # <<>>
    /\ delivered' = delivered \o SubSeq(recvPending, 1, n)
    /\ recvPending' = SubSeq(recvPending, n + 1, Len(recvPending))
    /\ UNCHANGED <<rx, opened, down, window, sending, faults>>

\* RecvPacket on one record: refused and passed over, or accepted, with its
\* first packet returned and the others kept.
RecvPacket(rec) ==
    /\ Ready /\ recvPending = <<>>
    /\ Accept(rec.seq)
    /\ opened' = IF last'.ok THEN opened \o rec.pkts ELSE opened
    /\ delivered' = IF last'.ok THEN Append(delivered, rec.pkts[1]) ELSE delivered
    /\ recvPending' = IF last'.ok THEN Tail(rec.pkts) ELSE recvPending
    /\ UNCHANGED <<rx, down, sending, faults>>

\* A packet that does not open, or a reset: the error ends the session.  In a
\* batch it ends the call before any number reached the window.
RecvFails ==
    /\ Ready /\ recvPending = <<>> /\ faults < MaxFaults
    /\ down' = TRUE /\ faults' = faults + 1
    /\ UNCHANGED <<rx, recvPending, opened, delivered, window, sending>>

\* openReceivedPacketBatch has opened every record of the batch.
OpenBatch(recs) ==
    /\ Ready /\ recvPending = <<>>
    /\ rx' = [recs |-> recs, got |-> <<>>]
    /\ UNCHANGED <<recvPending, opened, delivered, down, window, sending, faults>>

\* Mutant: the packets of refused records are not filtered out.
AcceptRecordUnfiltered ==
    /\ rx.recs # <<>>
    /\ LET rec == Head(rx.recs) IN
       /\ Accept(rec.seq)
       /\ rx' = [recs |-> Tail(rx.recs), got |-> rx.got \o rec.pkts]
       /\ opened' = opened \o rec.pkts
    /\ UNCHANGED <<recvPending, delivered, down, sending, faults>>

\* AcceptBatchResults, and filterReplayRejectedBatch, on the next record.
AcceptRecord ==
    /\ rx.recs # <<>>
    /\ LET rec == Head(rx.recs) IN
       /\ Accept(rec.seq)
       /\ rx' = [recs |-> Tail(rx.recs), got |-> IF last'.ok THEN rx.got \o rec.pkts ELSE rx.got]
       /\ opened' = IF last'.ok THEN opened \o rec.pkts ELSE opened
    /\ UNCHANGED <<recvPending, delivered, down, sending, faults>>

\* Mutant: the packets in excess are cut off.
LimitBatchCuts ==
    /\ rx.recs = <<>> /\ rx.got # <<>>
    /\ delivered' = delivered \o SubSeq(rx.got, 1, IF MaxBatch < Len(rx.got) THEN MaxBatch ELSE Len(rx.got))
    /\ rx' = Idle
    /\ UNCHANGED <<recvPending, opened, down, window, sending, faults>>

\* limitReceivedBatch: at most MaxBatch packets are returned, the others kept.
LimitBatch ==
    LET n == IF MaxBatch < Len(rx.got) THEN MaxBatch ELSE Len(rx.got) IN
    /\ rx.recs = <<>> /\ rx.got # <<>>
    /\ delivered' = delivered \o SubSeq(rx.got, 1, n)
    /\ recvPending' = SubSeq(rx.got, n + 1, Len(rx.got))
    /\ rx' = Idle
    /\ UNCHANGED <<opened, down, window, sending, faults>>

SNext ==
    \/ \E g \in Senders : TakeSeq(g) \/ SendPacket(g)
    \/ \E n \in 2..MaxPackets : SendPackets(n) \/ SendBatchRecord(n)
    \/ \E max \in {1, MaxBatch} : TakePending(max)
    \/ \E rec \in wire : RecvPacket(rec)
    \/ RecvFails
    \/ \E n \in 1..MaxBatch : \E recs \in [1..n -> wire] : OpenBatch(recs)
    \/ AcceptRecord
    \/ LimitBatch

SSpec == SInit /\ [][SNext]_allVars

-----------------------------------------------------------------------------
\* No two records are sealed with the same number, which is the nonce of the
\* session's key: SendPacket counts outside the lock, the batches inside it.
OneRecordPerNonce == \A r1, r2 \in sealed : r1.seq = r2.seq => r1 = r2

\* No packet is returned twice, however often the wire repeats its record.
DeliveredOnce == IsInjective(delivered \o recvPending)

\* Between two calls, what was returned and what is kept is what the accepted
\* records held, in the order in which they were accepted: nothing is cut off,
\* overwritten or moved by the batch receiver, recvPending and the limit.
NothingCutOff == rx = Idle => delivered \o recvPending = opened

\* What a session promises of its records (SendPacket, openReceivedPacketBatch,
\* filterReplayRejectedBatch and limitReceivedBatch together): one record for
\* each number, no packet returned twice, none of an accepted record lost.
RecordsDelivered == OneRecordPerNonce /\ DeliveredOnce /\ NothingCutOff
=============================================================================
