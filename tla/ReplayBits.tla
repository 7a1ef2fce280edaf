----------------------------- MODULE ReplayBits -----------------------------
(***************************************************************************)
(* The words in which replayWindow keeps its ring, and the masks by which  *)
(* clearReplayWindowLinearBits clears a run of bits in them.  A word is    *)
(* the set of its bits that are set; masks are computed as the code does,  *)
(* modulo 2^Width, so that 1 << Width is 0 and 0 - 1 is all ones.  The     *)
(* calls are those of clearReplayWindowCircularBits on a ring of Size bits *)
(* whose last word may be used in part.                                    *)
(***************************************************************************)
EXTENDS Integers

CONSTANTS
    Width,  \* bits of a word, 64 in the code
    Size    \* bits of the ring

VARIABLES
    seen,  \* the words
    op     \* the last call: which bits it is to set or to clear

vars == <<seen, op>>

Words == 0 .. (Size + Width - 1) \div Width - 1

Pow2(n) == 2 ^ n
Bits(x) == {b \in 0 .. Width - 1 : (x \div Pow2(b)) % 2 = 1}

\* x << n and x - 1 on unsigned words.
Shl(x, n) == (x * Pow2(n)) % Pow2(Width)
Below(n) == Bits((Shl(1, n) - 1) % Pow2(Width))

\* Mutant: the part of a last word is cleared in the whole words only.
LinearForgetsTail(w, start, count) ==
    LET end == start + count IN
    [k \in Words |-> {b \in w[k] : ~(start <= k * Width + b /\ k * Width + b < end - (end % Width))}]

\* clearReplayWindowLinearBits.
Linear(w, start, count) ==
    LET end == start + count
        first == start \div Width
        startBit == start % Width
        oneWord == first = (end - 1) \div Width
        mask == Bits(Shl(Pow2(Width) - 1, startBit)) \intersect
                (IF count < Width THEN Below(startBit + count) ELSE 0 .. Width - 1)
        from == IF startBit # 0 THEN first + 1 ELSE first
        endWord == end \div Width IN
    IF count = 0 THEN w
    ELSE IF oneWord THEN [w EXCEPT ![first] = @ \ mask]
    ELSE [k \in Words |->
            IF k = first /\ startBit # 0 THEN w[k] \intersect Below(startBit)
            ELSE IF from <= k /\ k < endWord THEN {}
            ELSE IF k = endWord /\ end % Width # 0 THEN w[k] \ Below(end % Width)
            ELSE w[k]]

\* clearReplayWindowCircularBits.
Clear(start, count) ==
    LET first == IF count <= Size - start THEN count ELSE Size - start IN
    /\ seen' = IF count >= Size THEN [k \in Words |-> {}]
               ELSE Linear(Linear(seen, start, first), 0, count - first)
    /\ op' = [clear |-> {(start + i) % Size : i \in 0 .. count - 1}, set |-> {}]

\* setReplayWindowBit.
Set(bit) ==
    /\ seen' = [seen EXCEPT ![bit \div Width] = @ \union {bit % Width}]
    /\ op' = [clear |-> {}, set |-> {bit}]

Init == seen = [k \in Words |-> {}] /\ op = [clear |-> {}, set |-> {}]

Next ==
    \/ \E start \in 0 .. Size - 1, count \in 0 .. Size : Clear(start, count)
    \/ \E bit \in 0 .. Size - 1 : Set(bit)

Spec == Init /\ [][Next]_vars

-----------------------------------------------------------------------------
Ring(w) == UNION {{k * Width + b : b \in w[k]} : k \in Words}

\* A call sets and clears exactly the bits of the ring it names, in whichever
\* words they fall and however they lie to the words' ends.
ExactlyTheRun == [][Ring(seen') = (Ring(seen) \ op'.clear) \union op'.set]_vars
=============================================================================
