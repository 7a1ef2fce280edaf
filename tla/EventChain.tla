----------------------------- MODULE EventChain -----------------------------
(***************************************************************************)
(* The signed, hash-chained configuration events of internal/configlog and *)
(* the checks by which an in-memory store accepts them.  An event is kept  *)
(* to the two fields that chain it, its sequence number and the hash of    *)
(* its predecessor; everything else that Hash covers (resource, action,    *)
(* payload, signer, times, proofs) is what distinguishes the elements of   *)
(* Event from one another.  SHA-256 over the canonical JSON is a constant  *)
(* operator assumed injective: the signature is not hashed, so an element  *)
(* of Event is the signed content and not one particular signature of it.  *)
(***************************************************************************)
EXTENDS Naturals, Sequences

CONSTANTS
    Event,      \* the events that can exist, each with fields seq and prev
    Hash(_),    \* Event.Hash
    NoHash      \* the empty prev_hash

ASSUME EventAssumption == \A e \in Event : e.seq \in Nat
ASSUME HashAssumption ==
    \A e, f \in Event : Hash(e) # NoHash /\ (Hash(e) = Hash(f) => e = f)

\* Event.ValidateBasic, for the fields that are modelled.
ValidateBasic(e) ==
    /\ e.seq # 0
    /\ e.seq > 1 => e.prev # NoHash

ZeroHead == [seq |-> 0, hash |-> NoHash]

\* MemoryStore.Head.
LogHead(log) ==
    IF log = <<>> THEN ZeroHead
    ELSE [seq |-> log[Len(log)].seq, hash |-> Hash(log[Len(log)])]

\* The hash that position k of a log must carry as its prev_hash.
PrevHash(log, k) == IF k = 1 THEN NoHash ELSE Hash(log[k - 1])

\* The test MemoryStore.AppendBatch makes of the event it puts at position k.
Links(log, k) ==
    /\ ValidateBasic(log[k])
    /\ log[k].seq = k
    /\ log[k].prev = PrevHash(log, k)

\* MemoryStore.AppendBatch accepts the whole batch or none of it: every event
\* is tested on the copy of the log extended by the events before it.
CanAppend(log, events) ==
    \A k \in Len(log) + 1 .. Len(log) + Len(events) : Links(log \o events, k)

\* A log built by such appends from the empty log.
IsChain(log) == \A k \in 1 .. Len(log) : Links(log, k)

IsPrefixOf(s, t) == Len(s) <= Len(t) /\ \A k \in 1 .. Len(s) : s[k] = t[k]

\* MemoryStore.Range; defined only when 1 <= from <= to <= Len(log).
InRange(log, from, to) == from # 0 /\ from <= to /\ to <= Len(log)
LogRange(log, from, to) == SubSeq(log, from, to)
=============================================================================
