---------------------------- MODULE MCConfigSync ----------------------------
(***************************************************************************)
(* ConfigSync on a tree of events: below the genesis every IX may sign its *)
(* configuration on any event of the tree, so every fork that fits in      *)
(* MaxLen can happen.  An event holds its predecessor as prev and is its   *)
(* own hash.                                                               *)
(*                                                                         *)
(* part says what happens beside the mutations of every IX: nothing, a     *)
(* rejoin, or pushes that arrive late, commits that are unsure and a       *)
(* restart, with only one IX, writer, that mutates.                        *)
(***************************************************************************)
EXTENDS ConfigSync, TLC

VARIABLES part, writer

Ev(n, p, i, kind) == [seq |-> n, prev |-> p, by |-> i, resource |-> kind]

MCHash(e) == e
MCNoHash == [seq |-> 0]
MCGenesis == Ev(1, MCNoHash, "domain", "genesis")

EventsAt[n \in 1 .. MaxLen] ==
    IF n = 1 THEN {MCGenesis}
    ELSE {Ev(n, p, i, "desired") : p \in EventsAt[n - 1], i \in IX}

MCEvent == UNION {EventsAt[n] : n \in 1 .. MaxLen}

\* Batches of one event, up to the position last, and of two of one IX.
BatchesTo(last) ==
    LET Signed == {e \in MCEvent : e.seq \in 2 .. last}
    IN {<<e>> : e \in Signed} \union
       {<<e.prev, e>> : e \in {f \in Signed : f.seq > 2 /\ f.by = f.prev.by}}

MCBatches == BatchesTo(3)

Rejoins == INSTANCE ConfigSync WITH
    Batches <- BatchesTo(2), MaxRejoins <- 1

Faults == INSTANCE ConfigSync WITH
    Batches <- BatchesTo(2), MaxLen <- 2, MaxLate <- 1, MaxUnsure <- 1, MaxCrashes <- 1

MCInit ==
    /\ Init
    /\ \/ part \in {"mutations", "rejoin"} /\ writer = NoIX
       \/ part = "faults" /\ writer \in IX

\* Bound: workers in the middle of a sync or a rejoin at a time.
MaxBusy == [mutations |-> 3, rejoin |-> 3, faults |-> 2]
Busy == {x \in IX \X Worker : work[x[1]][x[2]].pc # "idle"}

MCNext ==
    /\ UNCHANGED <<part, writer>>
    /\ \/ part = "mutations" /\ Next
       \/ part = "rejoin" /\ Rejoins!Next
       \/ part = "faults" /\ Faults!Next /\ \A e \in committed' \ committed : e.by = writer
    /\ Cardinality(Busy') <= MaxBusy[part]

MCSpec == MCInit /\ [][MCNext]_<<vars, part, writer>>

\* Mutations alone, with the fairness under which the logs converge.
FairInit == Init /\ part = "mutations" /\ writer = NoIX
FairNext == Next /\ UNCHANGED <<part, writer>>
MCFairSpec == FairInit /\ [][FairNext]_<<vars, part, writer>> /\ Fairness

Exchanges == Permutations(IX)
=============================================================================
