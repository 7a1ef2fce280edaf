---------------------------- MODULE ReplayFilter ----------------------------
(***************************************************************************)
(* What the replay window of a secure session promises: a sequence number  *)
(* is accepted at most once, and it is refused only if it was accepted, is *)
(* zero, or lies Size or more behind an accepted one.                      *)
(***************************************************************************)
EXTENDS Naturals

CONSTANTS
    Size,  \* how far behind the highest a number may arrive
    Seqs   \* the sequence numbers

VARIABLES
    accepted,  \* the sequence numbers that were accepted
    last       \* the last number that was asked for, and the answer

vars == <<accepted, last>>

Init == accepted = {} /\ last = [seq |-> 0, ok |-> FALSE]

Fresh(seq) == seq > 0 /\ seq \notin accepted /\ \A a \in accepted : a < seq + Size

Receive(seq) ==
    /\ last' = [seq |-> seq, ok |-> Fresh(seq)]
    /\ accepted' = IF Fresh(seq) THEN accepted \union {seq} ELSE accepted

Next == \E seq \in Seqs : Receive(seq)

Spec == Init /\ [][Next]_vars
=============================================================================
