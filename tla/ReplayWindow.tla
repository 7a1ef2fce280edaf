---------------------------- MODULE ReplayWindow ----------------------------
(***************************************************************************)
(* replayWindow of the secure transport: the highest sequence number and a *)
(* ring of Size bits that begins at head; the bit at distance d from head  *)
(* says whether the number d below the highest was accepted.  The words    *)
(* the bits are kept in are the subject of ReplayBits.  Every method holds *)
(* the mutex; a batch is a run of Accept under one lock.                   *)
(***************************************************************************)
EXTENDS Naturals

CONSTANTS
    Size,   \* the window, after normalizeReplayWindowSize
    MaxSeq  \* bound: the highest sequence number

ASSUME WindowAssumption == Size \in Nat \ {0} /\ MaxSeq \in Nat

VARIABLES
    highest, head,
    seen,      \* the bits of the ring that are set
    accepted,  \* history: the numbers that were accepted
    last       \* the last number and the answer to it

vars == <<highest, head, seen, accepted, last>>

Bits == 0 .. Size - 1

Init ==
    /\ highest = 0 /\ head = 0 /\ seen = {}
    /\ accepted = {} /\ last = [seq |-> 0, ok |-> FALSE]

\* replayWindowPhysicalBit.
PhysicalBit(h, delta) == IF h + delta >= Size THEN h + delta - Size ELSE h + delta

\* clearReplayWindowLinearBits, and the two runs clearReplayWindowCircularBits makes of it.
Run(start, count) == {b \in Bits : start <= b /\ b < start + count}

Circular(start, count) ==
    LET first == IF count <= Size - start THEN count ELSE Size - start IN
    Run(start, first) \union Run(0, count - first)

\* Mutant: the head goes the wrong way round.
MovedHeadForward(shift) ==
    IF shift >= Size THEN 0 ELSE PhysicalBit(head, shift)

\* Mutant: a shift as far as the head wraps to the end of the ring.
MovedHeadPastEnd(shift) ==
    IF shift >= Size THEN 0 ELSE IF shift >= head THEN head + (Size - shift) ELSE head - shift

\* advanceReplayWindowSeen.
MovedHead(shift) ==
    IF shift >= Size THEN 0 ELSE IF shift > head THEN head + (Size - shift) ELSE head - shift

Advanced(shift) == IF shift >= Size THEN {} ELSE seen \ Circular(MovedHead(shift), shift)

\* replayWindowAcceptLocked for a number above the highest.
AcceptHigher(seq) ==
    LET h == MovedHead(seq - highest) IN
    /\ seq > highest
    /\ highest' = seq /\ head' = h
    /\ seen' = Advanced(seq - highest) \union {PhysicalBit(h, 0)}
    /\ accepted' = accepted \union {seq} /\ last' = [seq |-> seq, ok |-> TRUE]

\* Mutant: the bit is tested and not set.
AcceptLowerForgets(seq) ==
    /\ 0 < seq /\ seq <= highest /\ highest - seq < Size /\ PhysicalBit(head, highest - seq) \notin seen
    /\ accepted' = accepted \union {seq} /\ last' = [seq |-> seq, ok |-> TRUE]
    /\ UNCHANGED <<highest, head, seen>>

\* ... for one within the window that has not been seen.
AcceptLower(seq) ==
    LET bit == PhysicalBit(head, highest - seq) IN
    /\ 0 < seq /\ seq <= highest /\ highest - seq < Size /\ bit \notin seen
    /\ seen' = seen \union {bit}
    /\ accepted' = accepted \union {seq} /\ last' = [seq |-> seq, ok |-> TRUE]
    /\ UNCHANGED <<highest, head>>

\* ... and for one that is refused.
Refuse(seq) ==
    /\ seq <= highest
    /\ seq = 0 \/ highest - seq >= Size \/ PhysicalBit(head, highest - seq) \in seen
    /\ last' = [seq |-> seq, ok |-> FALSE]
    /\ UNCHANGED <<highest, head, seen, accepted>>

\* Mutant: what arrives below the highest is refused.
AcceptInOrder(seq) ==
    \/ AcceptHigher(seq)
    \/ seq <= highest /\ last' = [seq |-> seq, ok |-> FALSE] /\ UNCHANGED <<highest, head, seen, accepted>>

\* replayWindow.Accept.
Accept(seq) == AcceptHigher(seq) \/ AcceptLower(seq) \/ Refuse(seq)

Next == \E seq \in 0..MaxSeq : Accept(seq)

Spec == Init /\ [][Next]_vars

-----------------------------------------------------------------------------
TypeOK ==
    /\ highest \in Nat /\ head \in Bits /\ seen \subseteq Bits
    /\ accepted \subseteq Nat /\ last \in [seq : Nat, ok : BOOLEAN]

\* The ring says of each number of the window whether it was accepted, and no
\* accepted number lies above the highest: what advanceReplayWindowSeen keeps
\* when it moves the head and clears the bits that are used again.
RingMirrorsAccepted ==
    /\ \A d \in Bits : PhysicalBit(head, d) \in seen <=> d < highest /\ highest - d \in accepted
    /\ \A a \in accepted : 0 < a /\ a <= highest
    /\ highest > 0 => highest \in accepted

Filter == INSTANCE ReplayFilter WITH Seqs <- 0..MaxSeq

\* The window does what ReplayFilter promises: nothing is accepted twice, and
\* nothing is refused that is new and within Size of the highest.
ImplementsFilter == Filter!Spec
=============================================================================
