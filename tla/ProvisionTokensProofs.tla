------------------------ MODULE ProvisionTokensProofs -----------------------
(***************************************************************************)
(* Proofs about ProvisionTokens, for any set of tokens and any number of   *)
(* faults and crashes.  What a token has given away is remembered in       *)
(* memory, in the state file and in what a crash would leave of it; what   *)
(* an answered token still has to give is in all three as well.            *)
(***************************************************************************)
EXTENDS ProvisionTokens, TLAPS

Marks == {"none", "fresh", "used"}

TypeOK ==
    /\ mem \in [Tokens -> Marks] /\ disk \in [Tokens -> Marks] /\ undone \subseteq [Tokens -> Marks]
    /\ loaded \in BOOLEAN /\ dataDir \in BOOLEAN
    /\ issue \in [Tokens -> {"new", "admit", "delete", "answered", "refused"}]
    /\ expired \subseteq Tokens /\ taken \subseteq Tokens
    /\ writing \in [Tokens -> Nat] /\ delivered \in [Tokens -> Nat]
    /\ faults \in Nat /\ crashes \in Nat

\* Every place that holds t satisfies what is said of its mark.
Everywhere(t, S) ==
    Loaded[t] \in S /\ (dataDir => disk[t] \in S /\ \A d \in undone : d[t] \in S)

\* A script given away is nowhere marked fresh, and its token was issued.
GivenInv ==
    \A t \in Tokens :
        /\ writing[t] + delivered[t] <= 1
        /\ writing[t] + delivered[t] > 0 => Everywhere(t, {"none", "used"}) /\ issue[t] # "new"

\* A token stored for good and not taken is fresh everywhere until it expires, or
\* until a crash when it was in memory only.
StoredInv ==
    dataDir \/ crashes = 0 => \A t \in Tokens :
        issue[t] \in {"admit", "answered"} /\ t \notin expired /\ t \notin taken
            => Everywhere(t, {"fresh"})

\* What a token's mark may become in each place when the map m is persisted.
LEMMA PersistMarks ==
    ASSUME TypeOK, NEW m \in [Tokens -> Marks], NEW o \in Outcomes, Persist(m, o)
    PROVE  /\ loaded' = TRUE
           /\ mem' \in [Tokens -> Marks] /\ disk' \in [Tokens -> Marks] /\ undone' \subseteq [Tokens -> Marks]
           /\ faults' \in Nat
           /\ o = "ok" => mem' = m /\ (dataDir => disk' = Pruned(m) /\ undone' = {})
           /\ o = "unknown" => mem' = m /\ disk' = Pruned(m) /\ undone' = undone \union {disk}
           /\ o = "fails" => mem' = Loaded /\ disk' = disk /\ undone' = undone
<1>1. Pruned(m) \in [Tokens -> Marks]
  BY DEF Pruned, Marks
<1>2. Loaded \in [Tokens -> Marks]
  BY DEF TypeOK, Loaded, NoTokens, Marks
<1>3. CASE o = "ok"
  BY <1>1, <1>3 DEF Persist, TypeOK
<1>4. CASE o = "unknown"
  BY <1>1, <1>4 DEF Persist, TypeOK
<1>5. CASE o = "fails"
  BY <1>2, <1>5 DEF Persist, TypeOK
<1> QED
  BY <1>3, <1>4, <1>5 DEF Outcomes

\* A mark that may only be one of S stays in S when what is persisted keeps it
\* there and "none" is in S or the token has not expired.
LEMMA PersistKeeps ==
    ASSUME TypeOK, NEW m \in [Tokens -> Marks], NEW o \in Outcomes, Persist(m, o),
           dataDir' = dataDir,
           NEW t \in Tokens, NEW S, Everywhere(t, S), m[t] \in S, "none" \in S \/ t \notin expired
    PROVE  Everywhere(t, S)'
<1>1. Pruned(m)[t] \in S
  BY DEF Pruned
<1>2. loaded' = TRUE /\ mem'[t] \in S
  BY PersistMarks DEF Everywhere, Outcomes
<1>3. dataDir => disk'[t] \in S /\ \A d \in undone' : d[t] \in S
  BY <1>1, PersistMarks DEF Everywhere, Outcomes
<1> QED
  BY <1>2, <1>3 DEF Everywhere, Loaded

LEMMA PrunedType ==
    ASSUME TypeOK
    PROVE  Loaded \in [Tokens -> Marks] /\ Pruned(Loaded) \in [Tokens -> Marks]
BY DEF TypeOK, Loaded, Pruned, Marks, NoTokens

LEMMA Initially == Init => TypeOK /\ GivenInv /\ StoredInv
<1> SUFFICES ASSUME Init
             PROVE  TypeOK /\ GivenInv /\ StoredInv
  OBVIOUS
<1>1. NoTokens \in [Tokens -> Marks]
  BY DEF NoTokens, Marks
<1>2. TypeOK
  <2>1. issue \in [Tokens -> {"new", "admit", "delete", "answered", "refused"}]
    BY DEF Init
  <2>2. writing \in [Tokens -> Nat] /\ delivered \in [Tokens -> Nat]
    BY DEF Init
  <2> QED
    BY <1>1, <2>1, <2>2 DEF Init, TypeOK
<1>3. GivenInv
  <2> SUFFICES ASSUME NEW t \in Tokens
               PROVE  /\ writing[t] + delivered[t] <= 1
                      /\ writing[t] + delivered[t] > 0 => Everywhere(t, {"none", "used"}) /\ issue[t] # "new"
    BY DEF GivenInv
  <2>1. writing[t] = 0 /\ delivered[t] = 0
    BY DEF Init
  <2>2. writing[t] + delivered[t] = 0
    BY <2>1
  <2> QED
    BY <2>2
<1>4. StoredInv
  BY DEF Init, StoredInv
<1> QED
  BY <1>2, <1>3, <1>4

\* Storing a token makes it fresh everywhere when the file is durable, and
\* touches no token that has given its script away.
LEMMA StoreStep ==
    ASSUME TypeOK, GivenInv, StoredInv, NEW u \in Tokens, Store(u)
    PROVE  TypeOK' /\ GivenInv' /\ StoredInv'
<1> DEFINE m == [Pruned(Loaded) EXCEPT ![u] = "fresh"]
<1>1. PICK o \in Outcomes : Persist(m, o) /\ issue' = [issue EXCEPT ![u] = AfterStore(o)]
  BY DEF Store
<1>2. /\ issue[u] = "new"
      /\ UNCHANGED <<dataDir, expired, writing, delivered, taken, crashes>>
  BY DEF Store
<1>3. m \in [Tokens -> Marks]
  BY PrunedType DEF Marks
<1>4. AfterStore(o) \in {"admit", "delete", "refused"} /\ (AfterStore(o) = "admit" => o = "ok")
  BY <1>1 DEF AfterStore, Outcomes
<1>5. TypeOK'
  <2> HIDE DEF m
  <2>1. /\ loaded' = TRUE /\ faults' \in Nat
        /\ mem' \in [Tokens -> Marks] /\ disk' \in [Tokens -> Marks] /\ undone' \subseteq [Tokens -> Marks]
    BY <1>1, <1>3, PersistMarks
  <2> QED
    BY <2>1, <1>1, <1>2, <1>4 DEF TypeOK
<1>6. ASSUME NEW t \in Tokens, t # u, NEW S, Everywhere(t, S), "none" \in S \/ t \notin expired
      PROVE  Everywhere(t, S)'
  <2>1. m[t] \in S
    BY <1>6, PrunedType DEF Everywhere, Pruned
  <2> HIDE DEF m
  <2> QED
    BY <2>1, <1>1, <1>2, <1>3, <1>6, PersistKeeps
<1>7. GivenInv'
  <2> SUFFICES ASSUME NEW t \in Tokens
               PROVE  /\ (writing[t] + delivered[t] <= 1)'
                      /\ (writing[t] + delivered[t] > 0 => Everywhere(t, {"none", "used"}) /\ issue[t] # "new")'
    BY DEF GivenInv
  <2>1. CASE t = u
    BY <2>1, <1>2 DEF GivenInv
  <2>2. CASE t # u
    <3>1. issue'[t] = issue[t]
      BY <2>2, <1>1 DEF TypeOK
    <3> QED
      BY <3>1, <2>2, <1>2, <1>6 DEF GivenInv
  <2> QED
    BY <2>1, <2>2
<1>8. StoredInv'
  <2> SUFFICES ASSUME dataDir \/ crashes = 0,
                      NEW t \in Tokens, issue'[t] \in {"admit", "answered"}, t \notin expired, t \notin taken
               PROVE  Everywhere(t, {"fresh"})'
    BY <1>2 DEF StoredInv
  <2>1. CASE t = u
    <3>1. o = "ok"
      BY <2>1, <1>1, <1>4 DEF TypeOK
    <3>2. m[t] = "fresh" /\ Pruned(m)[t] = "fresh"
      BY <2>1, PrunedType DEF Pruned
    <3>3. loaded' = TRUE /\ mem' = m /\ (dataDir => disk' = Pruned(m) /\ undone' = {})
      <4> HIDE DEF m
      <4> QED
        BY <3>1, <1>1, <1>3, PersistMarks
    <3> HIDE DEF m
    <3> QED
      BY <3>2, <3>3, <1>2 DEF Everywhere, Loaded
  <2>2. CASE t # u
    <3>1. issue'[t] = issue[t]
      BY <2>2, <1>1 DEF TypeOK
    <3> QED
      BY <3>1, <2>2, <1>6 DEF StoredInv
  <2> QED
    BY <2>1, <2>2
<1> QED
  BY <1>5, <1>7, <1>8

\* Taking a token back touches no other.
LEMMA DeleteStep ==
    ASSUME TypeOK, GivenInv, StoredInv, NEW u \in Tokens, Delete(u)
    PROVE  TypeOK' /\ GivenInv' /\ StoredInv'
<1> DEFINE m == [Loaded EXCEPT ![u] = "none"]
<1>1. PICK o \in Outcomes : Persist(m, o)
  BY DEF Delete
<1>2. /\ issue[u] = "delete" /\ issue' = [issue EXCEPT ![u] = "refused"]
      /\ UNCHANGED <<dataDir, expired, writing, delivered, taken, crashes>>
  BY DEF Delete
<1>3. m \in [Tokens -> Marks]
  BY PrunedType DEF Marks
<1>4. TypeOK'
  <2> HIDE DEF m
  <2>1. /\ loaded' = TRUE /\ faults' \in Nat
        /\ mem' \in [Tokens -> Marks] /\ disk' \in [Tokens -> Marks] /\ undone' \subseteq [Tokens -> Marks]
    BY <1>1, <1>3, PersistMarks
  <2> QED
    BY <2>1, <1>2 DEF TypeOK
<1>5. ASSUME NEW t \in Tokens, NEW S, Everywhere(t, S), "none" \in S \/ (t # u /\ t \notin expired)
      PROVE  Everywhere(t, S)'
  <2>1. m[t] \in S
    BY <1>5, PrunedType DEF Everywhere
  <2> HIDE DEF m
  <2> QED
    BY <2>1, <1>1, <1>2, <1>3, <1>5, PersistKeeps
<1>6. \A t \in Tokens : issue'[t] \in {"admit", "answered", "new"} => issue'[t] = issue[t] /\ t # u
  BY <1>2 DEF TypeOK
<1>7. GivenInv'
  BY <1>2, <1>5, <1>6 DEF GivenInv, TypeOK
<1>8. StoredInv'
  BY <1>2, <1>5, <1>6 DEF StoredInv
<1> QED
  BY <1>4, <1>7, <1>8

\* A download gives the script away only if the token was fresh, and only when
\* it is used in every place.
LEMMA ConsumeStep ==
    ASSUME TypeOK, GivenInv, StoredInv, NEW u \in Tokens, Consume(u)
    PROVE  TypeOK' /\ GivenInv' /\ StoredInv'
<1> DEFINE next == Pruned(Loaded)
           used == [next EXCEPT ![u] = "used"]
<1>0. issue[u] = "answered" /\ UNCHANGED <<dataDir, issue, expired, delivered, crashes>>
  BY DEF Consume
<1>1. next \in [Tokens -> Marks] /\ used \in [Tokens -> Marks] /\ Loaded \in [Tokens -> Marks]
  BY PrunedType DEF Marks
<1>2. CASE next[u] = "none" /\ (\E o \in Outcomes : Persist(next, o)) /\ UNCHANGED <<writing, taken>>
  <2>1. PICK o \in Outcomes : Persist(next, o)
    BY <1>2
  <2>2. ASSUME NEW t \in Tokens, NEW S, Everywhere(t, S), "none" \in S \/ t \notin expired
        PROVE  Everywhere(t, S)'
    <3>1. next[t] \in S
      BY <2>2, PrunedType DEF Everywhere, Pruned
    <3> HIDE DEF next
    <3> QED
      BY <3>1, <2>1, <2>2, <1>0, <1>1, PersistKeeps
  <2>3. TypeOK'
    <3> HIDE DEF next, used
    <3>1. /\ loaded' = TRUE /\ faults' \in Nat
          /\ mem' \in [Tokens -> Marks] /\ disk' \in [Tokens -> Marks] /\ undone' \subseteq [Tokens -> Marks]
      BY <2>1, <1>1, PersistMarks
    <3> QED
      BY <3>1, <1>0, <1>2 DEF TypeOK
  <2>4. GivenInv'
    BY <1>0, <1>2, <2>2 DEF GivenInv
  <2>5. StoredInv'
    BY <1>0, <1>2, <2>2 DEF StoredInv
  <2> QED
    BY <2>3, <2>4, <2>5
<1>3. CASE next[u] = "used" /\ mem' = Loaded /\ loaded' = TRUE /\ UNCHANGED <<disk, undone, faults, writing, taken>>
  <2>1. TypeOK'
    BY <1>0, <1>1, <1>3 DEF TypeOK
  <2>2. \A t \in Tokens : \A S : Everywhere(t, S)' <=> Everywhere(t, S)
    BY <1>0, <1>3 DEF Everywhere, Loaded
  <2>3. GivenInv' /\ StoredInv'
    BY <2>2, <1>0, <1>3 DEF GivenInv, StoredInv
  <2> QED
    BY <2>1, <2>3
<1>4. ASSUME next[u] = "fresh", NEW o \in Outcomes, Persist(used, o),
             taken' = IF o = "fails" THEN taken ELSE taken \union {u},
             writing' = IF Given(o) THEN [writing EXCEPT ![u] = @ + 1] ELSE writing
      PROVE  TypeOK' /\ GivenInv' /\ StoredInv'
  <2>1. Loaded[u] = "fresh" /\ u \notin expired
    BY <1>4 DEF Pruned
  <2>2. writing[u] + delivered[u] = 0
    <3>1. writing[u] \in Nat /\ delivered[u] \in Nat
      BY DEF TypeOK
    <3>2. ~Everywhere(u, {"none", "used"})
      BY <2>1 DEF Everywhere
    <3>3. ~(writing[u] + delivered[u] > 0)
      BY <3>2 DEF GivenInv
    <3> QED
      BY <3>1, <3>3
  <2>3. TypeOK'
    <3> HIDE DEF next, used
    <3>1. /\ loaded' = TRUE /\ faults' \in Nat
          /\ mem' \in [Tokens -> Marks] /\ disk' \in [Tokens -> Marks] /\ undone' \subseteq [Tokens -> Marks]
      BY <1>4, <1>1, PersistMarks
    <3>2. writing' \in [Tokens -> Nat] /\ taken' \subseteq Tokens
      BY <1>4 DEF TypeOK
    <3> QED
      BY <3>1, <3>2, <1>0 DEF TypeOK
  <2>4. ASSUME NEW t \in Tokens, t # u, NEW S, Everywhere(t, S), "none" \in S \/ t \notin expired
        PROVE  Everywhere(t, S)'
    <3>1. used[t] \in S
      BY <2>4, PrunedType DEF Everywhere, Pruned
    <3> HIDE DEF used
    <3> QED
      BY <3>1, <2>4, <1>4, <1>0, <1>1, PersistKeeps
  <2>5. GivenInv'
    <3> SUFFICES ASSUME NEW t \in Tokens
                 PROVE  /\ (writing[t] + delivered[t] <= 1)'
                        /\ (writing[t] + delivered[t] > 0 => Everywhere(t, {"none", "used"}) /\ issue[t] # "new")'
      BY DEF GivenInv
    <3>1. CASE t # u
      <4>1. writing'[t] = writing[t]
        BY <3>1, <1>4 DEF TypeOK
      <4> QED
        BY <4>1, <3>1, <2>4, <1>0 DEF GivenInv
    <3>2. CASE t = u /\ o = "ok"
      <4>1. writing'[t] + delivered'[t] = 1
        BY <3>2, <2>2, <1>0, <1>4 DEF Given, TypeOK
      <4>2. used[t] = "used" /\ Pruned(used)[t] \in {"none", "used"}
        BY <3>2, <1>1 DEF Pruned
      <4>3. loaded' = TRUE /\ mem' = used /\ (dataDir => disk' = Pruned(used) /\ undone' = {})
        <5> HIDE DEF used
        <5> QED
          BY <3>2, <1>4, <1>1, PersistMarks
      <4>4. Everywhere(t, {"none", "used"})'
        <5> HIDE DEF used
        <5> QED
          BY <4>2, <4>3, <1>0 DEF Everywhere, Loaded
      <4> QED
        BY <4>1, <4>4, <3>2, <1>0
    <3>3. CASE t = u /\ o # "ok"
      <4>1. writing'[t] + delivered'[t] = 0
        BY <3>3, <2>2, <1>0, <1>4 DEF Given
      <4> QED
        BY <4>1
    <3> QED
      BY <3>1, <3>2, <3>3
  <2>6. StoredInv'
    <3> SUFFICES ASSUME dataDir \/ crashes = 0,
                        NEW t \in Tokens, issue[t] \in {"admit", "answered"}, t \notin expired, t \notin taken'
                 PROVE  Everywhere(t, {"fresh"})'
      BY <1>0 DEF StoredInv
    <3>1. Everywhere(t, {"fresh"})
      BY <1>4 DEF StoredInv
    <3>2. CASE t # u
      BY <3>1, <3>2, <2>4
    <3>3. CASE t = u
      <4>1. o = "fails"
        BY <3>3, <1>4
      <4>2. loaded' = TRUE /\ mem' = Loaded /\ disk' = disk /\ undone' = undone
        <5> HIDE DEF used
        <5> QED
          BY <4>1, <1>4, <1>1, PersistMarks
      <4> QED
        BY <4>2, <3>1, <1>0 DEF Everywhere, Loaded
    <3> QED
      BY <3>2, <3>3
  <2> QED
    BY <2>3, <2>5, <2>6
<1> QED
  BY <1>2, <1>3, <1>4 DEF Consume

\* The steps that do not touch the state file.
LEMMA OtherSteps ==
    ASSUME TypeOK, GivenInv, StoredInv, NEW u \in Tokens, Admit(u) \/ Deliver(u) \/ Expire(u)
    PROVE  TypeOK' /\ GivenInv' /\ StoredInv'
<1>1. UNCHANGED <<mem, loaded, dataDir, disk, undone, crashes>>
  BY DEF Admit, Deliver, Expire
<1>2. \A t \in Tokens : \A S : Everywhere(t, S)' <=> Everywhere(t, S)
  BY <1>1 DEF Everywhere, Loaded
<1>3. CASE Admit(u)
  <2>1. TypeOK'
    BY <1>3 DEF Admit, TypeOK
  <2>2. \A t \in Tokens : /\ issue'[t] \in {"admit", "answered"} => issue[t] \in {"admit", "answered"}
                          /\ issue'[t] = "new" => issue[t] = "new"
    BY <1>3 DEF Admit, TypeOK
  <2> QED
    BY <2>1, <2>2, <1>1, <1>2, <1>3 DEF Admit, GivenInv, StoredInv
<1>4. CASE Deliver(u)
  <2>1. TypeOK'
    BY <1>4 DEF Deliver, TypeOK
  <2>2. \A t \in Tokens : writing'[t] + delivered'[t] <= writing[t] + delivered[t]
    BY <1>4 DEF Deliver, TypeOK
  <2>3. \A t \in Tokens : {writing[t], delivered[t], writing'[t], delivered'[t]} \subseteq Nat
    BY <2>1 DEF TypeOK
  <2>4. UNCHANGED <<issue, expired, taken>>
    BY <1>4 DEF Deliver
  <2>5. GivenInv'
    BY <2>2, <2>3, <2>4, <1>2 DEF GivenInv
  <2>6. StoredInv'
    BY <2>4, <1>1, <1>2 DEF StoredInv
  <2> QED
    BY <2>1, <2>5, <2>6
<1>5. CASE Expire(u)
  <2>1. TypeOK'
    BY <1>5 DEF Expire, TypeOK
  <2> QED
    BY <2>1, <1>2, <1>5 DEF Expire, GivenInv, StoredInv
<1> QED
  BY <1>3, <1>4, <1>5

\* A crash leaves the file as it is or as it was since the last sync.
LEMMA CrashStep ==
    ASSUME TypeOK, GivenInv, StoredInv, Crash
    PROVE  TypeOK' /\ GivenInv' /\ StoredInv'
<1>1. disk' \in {disk} \union undone /\ undone' \subseteq undone
  BY DEF Crash
<1>2. /\ loaded' = FALSE /\ mem' = NoTokens /\ UNCHANGED <<dataDir, expired, delivered, taken, faults>>
      /\ writing' = [t \in Tokens |-> 0]
      /\ issue' = [t \in Tokens |-> IF issue[t] \in {"admit", "delete"} THEN "refused" ELSE issue[t]]
  BY DEF Crash
<1>3. TypeOK'
  <2>1. NoTokens \in [Tokens -> Marks]
    BY DEF NoTokens, Marks
  <2>2. crashes' \in Nat
    BY DEF Crash, TypeOK
  <2>3. disk' \in [Tokens -> Marks] /\ undone' \subseteq [Tokens -> Marks]
    BY <1>1 DEF TypeOK
  <2>4. issue' \in [Tokens -> {"new", "admit", "delete", "answered", "refused"}]
    BY <1>2 DEF TypeOK
  <2> QED
    BY <1>2, <2>1, <2>2, <2>3, <2>4 DEF TypeOK
<1>4. ASSUME NEW t \in Tokens, NEW S, Everywhere(t, S), dataDir \/ "none" \in S
      PROVE  Everywhere(t, S)'
  BY <1>1, <1>2, <1>4 DEF Everywhere, Loaded, NoTokens
<1>5. \A t \in Tokens : /\ writing'[t] + delivered'[t] <= writing[t] + delivered[t]
                        /\ {writing[t], delivered[t], writing'[t], delivered'[t]} \subseteq Nat
  BY <1>2 DEF TypeOK
<1>6. \A t \in Tokens : /\ issue'[t] \in {"admit", "answered"} => issue'[t] = issue[t]
                        /\ issue'[t] = "new" => issue[t] = "new"
  BY <1>2 DEF TypeOK
<1>7. GivenInv'
  BY <1>4, <1>5, <1>6 DEF GivenInv
<1>8. StoredInv'
  <2>1. crashes' # 0
    BY DEF Crash, TypeOK
  <2> QED
    BY <2>1, <1>2, <1>4, <1>6 DEF StoredInv
<1> QED
  BY <1>3, <1>7, <1>8

LEMMA NextStep ==
    ASSUME TypeOK, GivenInv, StoredInv, [Next]_vars
    PROVE  TypeOK' /\ GivenInv' /\ StoredInv'
<1>1. CASE UNCHANGED vars
  BY <1>1 DEF vars, TypeOK, GivenInv, StoredInv, Everywhere, Loaded
<1>2. CASE Next
  BY <1>2, StoreStep, DeleteStep, ConsumeStep, OtherSteps, CrashStep DEF Next
<1> QED
  BY <1>1, <1>2

\* The inductive invariant holds in every reachable state.
THEOREM Invariant == Spec => [](TypeOK /\ GivenInv /\ StoredInv)
<1>1. Init => TypeOK /\ GivenInv /\ StoredInv
  BY Initially
<1>2. (TypeOK /\ GivenInv /\ StoredInv) /\ [Next]_vars => (TypeOK /\ GivenInv /\ StoredInv)'
  BY NextStep
<1> QED
  BY <1>1, <1>2, PTL DEF Spec

\* A token gives its script away at most once (consumeIXProvisionToken), for
\* any number of tokens, failed writes and crashes.
THEOREM ScriptAtMostOnce == Spec => []AtMostOnce
<1>1. GivenInv => AtMostOnce
  BY DEF GivenInv, AtMostOnce
<1> QED
  BY <1>1, Invariant, PTL

\* An answered token stays usable until it is taken or expires, or a crash takes
\* what was in memory only (issueIXProvisionToken, storeIXProvisionToken).
THEOREM AnsweredStaysUsable == Spec => []IssuedUsable
<1>1. StoredInv => IssuedUsable
  BY DEF StoredInv, IssuedUsable, Everywhere
<1> QED
  BY <1>1, Invariant, PTL

=============================================================================
