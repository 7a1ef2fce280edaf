-------------------------- MODULE ConfigNodeProofs --------------------------
(***************************************************************************)
(* Proofs about ConfigNode for any configurations, trust sections, signers *)
(* and bounds: what the latest events of a log are, that every action is a *)
(* plain step of ConfigNodeInvariant and keeps the types, and the theorems.*)
(***************************************************************************)
EXTENDS ConfigNodeInvariant, WellFoundedInduction

-----------------------------------------------------------------------------
(* Sequences.                                                                *)

LEMMA AppendConcat ==
    ASSUME NEW S, NEW l \in Seq(S), NEW e \in S
    PROVE  Append(l, e) = l \o <<e>>
  OBVIOUS

LEMMA Associative ==
    ASSUME NEW S, NEW x \in Seq(S), NEW y \in Seq(S), NEW z \in Seq(S)
    PROVE  (x \o y) \o z = x \o (y \o z)
  BY SMTT(60)

LEMMA RestOf ==
    ASSUME NEW S, NEW p \in Seq(S), NEW n \in Nat, n <= Len(p)
    PROVE  LET s == SubSeq(p, n + 1, Len(p))
           IN  /\ s \in Seq(S) /\ Len(s) = Len(p) - n
               /\ \A k \in 1 .. Len(s) : s[k] = p[n + k]
  OBVIOUS

-----------------------------------------------------------------------------
(* What the latest event of a log is.                                        *)

\* A non-empty set of positions has a last one.
LEMMA LastPosition ==
    ASSUME NEW n \in Nat, NEW S, S \subseteq 1 .. n, S # {}
    PROVE  Last(S) \in S /\ \A j \in S : j <= Last(S)
  <1> DEFINE T == {n - k : k \in S}
  <1>0. \A k \in S : k \in Nat /\ k <= n /\ n - k \in Nat
    OBVIOUS
  <1>1. T \subseteq Nat /\ T # {}
    BY <1>0, Zenon
  <1>2. PICK x \in T : \A y \in T : ~(<<y, x>> \in OpToRel(<, Nat))
    <2> HIDE DEF T
    <2> QED BY <1>1, WFMin, NatLessThanWellFounded, Zenon
  <1>3. \A y \in T : ~(y < x)
    <2> HIDE DEF T
    <2> QED BY <1>1, <1>2, Zenon DEF OpToRel
  <1>4. PICK k \in S : x = n - k
    BY Zenon
  <1>5. \A j \in S : j <= k
    <2> SUFFICES ASSUME NEW j \in S PROVE j <= k
      OBVIOUS
    <2>1. ~(n - j < n - k)
      BY <1>3, <1>4, Zenon
    <2> QED BY <1>0, <2>1
  <1>6. \E m \in S : \A j \in S : j <= m
    BY <1>5
  <1> QED BY <1>6, Zenon DEF Last

LEMMA LastIs ==
    ASSUME NEW S, S \subseteq Nat, NEW k \in S, \A j \in S : j <= k
    PROVE  Last(S) = k
  <1>1. \E m \in S : \A j \in S : j <= m
    OBVIOUS
  <1>2. Last(S) \in S /\ \A j \in S : j <= Last(S)
    BY <1>1, Zenon DEF Last
  <1>3. Last(S) \in Nat /\ k \in Nat /\ Last(S) <= k /\ k <= Last(S)
    BY <1>2, Zenon
  <1> QED BY <1>3

\* The positions of l and, moved behind them, those of s.
Joined(A, n, B) == A \union {n + k : k \in B}

LEMMA LastJoined ==
    ASSUME NEW n \in Nat, NEW m \in Nat, NEW A \in SUBSET (1 .. n), NEW B \in SUBSET (1 .. m), B # {}
    PROVE  Last(B) \in 1 .. m /\ Last(Joined(A, n, B)) = n + Last(B)
  <1>1. Last(B) \in B /\ \A j \in B : j <= Last(B)
    BY LastPosition, Zenon
  <1> DEFINE b == Last(B)
  <1> HIDE DEF b
  <1>2. b \in B /\ \A j \in B : j <= b
    BY <1>1, Zenon DEF b
  <1>3. b \in Nat /\ b \in 1 .. m
    BY <1>2
  <1>4. \A j \in A : j \in Nat /\ j <= n + b
    BY <1>3
  <1>5. \A j \in B : n + j \in Nat /\ n + j <= n + b
    BY <1>2, <1>3
  <1>6. n + b \in Joined(A, n, B) /\ Joined(A, n, B) \subseteq Nat
    BY <1>2, <1>4, <1>5, Zenon DEF Joined
  <1>7. \A j \in Joined(A, n, B) : j <= n + b
    BY <1>4, <1>5, Zenon DEF Joined
  <1>8. Last(Joined(A, n, B)) = n + b
    BY <1>6, <1>7, LastIs
  <1> QED BY <1>3, <1>8 DEF b

LEMMA PositionsOfConcat ==
    ASSUME NEW l \in Log, NEW s \in Log
    PROVE  /\ l \o s \in Log /\ Len(l \o s) = Len(l) + Len(s) /\ Len(l) \in Nat /\ Len(s) \in Nat
           /\ \A k \in 1 .. Len(l) : (l \o s)[k] = l[k]
           /\ \A k \in 1 .. Len(s) : (l \o s)[Len(l) + k] = s[k]
           /\ \A r : Positions(l \o s, r) = Joined(Positions(l, r), Len(l), Positions(s, r))
           /\ LocalDesired(l \o s) = Joined(LocalDesired(l), Len(l), LocalDesired(s))
  <1> /\ l \o s \in Log /\ Len(l \o s) = Len(l) + Len(s) /\ Len(l) \in Nat /\ Len(s) \in Nat
      /\ \A k \in 1 .. Len(l) : (l \o s)[k] = l[k]
      /\ \A k \in 1 .. Len(s) : (l \o s)[Len(l) + k] = s[k]
    BY DEF Log
  <1> DEFINE t == l \o s
  <1>2. \A k \in 1 .. Len(t) : k \notin 1 .. Len(l) => \E j \in 1 .. Len(s) : k = Len(l) + j
    <2> SUFFICES ASSUME NEW k \in 1 .. Len(t), k \notin 1 .. Len(l)
                 PROVE  \E j \in 1 .. Len(s) : k = Len(l) + j
      OBVIOUS
    <2>1. k - Len(l) \in 1 .. Len(s) /\ k = Len(l) + (k - Len(l))
      OBVIOUS
    <2> QED BY <2>1, Zenon
  <1> HIDE DEF t
  <1>3. ASSUME NEW r PROVE Positions(t, r) = Joined(Positions(l, r), Len(l), Positions(s, r))
    <2>1. ASSUME NEW k \in Positions(t, r) PROVE k \in Joined(Positions(l, r), Len(l), Positions(s, r))
      <3> USE <2>1
      <3>1. CASE k \in 1 .. Len(l)
        BY <3>1, Zenon DEF Positions, Joined, t
      <3>2. CASE k \notin 1 .. Len(l)
        <4>1. PICK j \in 1 .. Len(s) : k = Len(l) + j
          BY <1>2, <3>2, Zenon DEF Positions
        <4>2. j \in Positions(s, r)
          BY <4>1, Zenon DEF Positions, t
        <4> QED BY <4>1, <4>2, Zenon DEF Joined
      <3> QED BY <3>1, <3>2
    <2>2. \A k \in 1 .. Len(l) : k \in 1 .. Len(t)
      BY DEF t
    <2>3. \A k \in 1 .. Len(s) : Len(l) + k \in 1 .. Len(t)
      BY DEF t
    <2>4. ASSUME NEW k \in Positions(l, r) PROVE k \in Positions(t, r)
      BY <2>2, Zenon DEF Positions, t
    <2>5. ASSUME NEW k \in Positions(s, r) PROVE Len(l) + k \in Positions(t, r)
      BY <2>3, Zenon DEF Positions, t
    <2> QED BY <2>1, <2>4, <2>5, Zenon DEF Joined
  <1>4. LocalDesired(t) = Joined(LocalDesired(l), Len(l), LocalDesired(s))
    <2>1. Positions(t, "desired") = Joined(Positions(l, "desired"), Len(l), Positions(s, "desired"))
      BY <1>3
    <2> QED BY <2>1 DEF LocalDesired, Joined, t, Positions
  <1> QED BY <1>3, <1>4 DEF t

\* The latest of two logs in a row is the latest of the second one, or of the
\* first one when the second has none.
LEMMA LatestOfConcat ==
    ASSUME NEW l \in Log, NEW s \in Log, NEW x
    PROVE  /\ LatestDesired(l \o s, x) = LatestDesired(s, LatestDesired(l, x))
           /\ LatestTrust(l \o s, x) = LatestTrust(s, LatestTrust(l, x))
           /\ SignersOf(l \o s) = SignersOf(l) \union SignersOf(s)
  <1> DEFINE t == l \o s
  <1>0. /\ t \in Log /\ Len(t) = Len(l) + Len(s) /\ Len(l) \in Nat /\ Len(s) \in Nat
        /\ \A k \in 1 .. Len(l) : t[k] = l[k]
        /\ \A k \in 1 .. Len(s) : t[Len(l) + k] = s[k]
        /\ \A r : Positions(t, r) = Joined(Positions(l, r), Len(l), Positions(s, r))
        /\ LocalDesired(t) = Joined(LocalDesired(l), Len(l), LocalDesired(s))
    BY PositionsOfConcat
  <1> HIDE DEF t
  <1>1. ASSUME NEW A, NEW B, A \subseteq 1 .. Len(l), B \subseteq 1 .. Len(s)
        PROVE  /\ B # {} => /\ Joined(A, Len(l), B) # {}
                            /\ t[Last(Joined(A, Len(l), B))] = s[Last(B)]
               /\ B = {} => Joined(A, Len(l), B) = A
               /\ A # {} => t[Last(A)] = l[Last(A)]
    <2>1. ASSUME B # {} PROVE Joined(A, Len(l), B) # {} /\ t[Last(Joined(A, Len(l), B))] = s[Last(B)]
      <3>1. Last(B) \in 1 .. Len(s) /\ Last(Joined(A, Len(l), B)) = Len(l) + Last(B)
        <4> DEFINE n == Len(l)
                   m == Len(s)
        <4>1. n \in Nat /\ m \in Nat /\ A \in SUBSET (1 .. n) /\ B \in SUBSET (1 .. m)
          BY <1>0, <1>1, Zenon
        <4> HIDE DEF n, m
        <4>2. Last(B) \in 1 .. m /\ Last(Joined(A, n, B)) = n + Last(B)
          BY <2>1, <4>1, LastJoined
        <4> QED BY <4>2 DEF n, m
      <3>2. t[Len(l) + Last(B)] = s[Last(B)]
        BY <1>0, <3>1
      <3>3. Joined(A, Len(l), B) # {}
        BY <2>1, Zenon DEF Joined
      <3> QED BY <3>1, <3>2, <3>3
    <2>2. B = {} => Joined(A, Len(l), B) = A
      BY DEF Joined
    <2>3. ASSUME A # {} PROVE t[Last(A)] = l[Last(A)]
      <3>1. Last(A) \in A
        BY <1>0, <1>1, <2>3, LastPosition, Zenon
      <3> QED BY <1>0, <1>1, <3>1, Zenon
    <2> QED BY <2>1, <2>2, <2>3
  <1>2. /\ \A r : Positions(l, r) \subseteq 1 .. Len(l) /\ Positions(s, r) \subseteq 1 .. Len(s)
        /\ LocalDesired(l) \subseteq 1 .. Len(l) /\ LocalDesired(s) \subseteq 1 .. Len(s)
    BY DEF Positions, LocalDesired
  <1>3. LatestDesired(t, x) = LatestDesired(s, LatestDesired(l, x))
    <2>1. CASE LocalDesired(s) # {}
      <3>1. LocalDesired(t) # {} /\ t[Last(LocalDesired(t))] = s[Last(LocalDesired(s))]
        <4> DEFINE A == LocalDesired(l)
                   B == LocalDesired(s)
        <4>1. A \subseteq 1 .. Len(l) /\ B \subseteq 1 .. Len(s) /\ B # {}
              /\ LocalDesired(t) = Joined(A, Len(l), B)
          BY <1>0, <1>2, <2>1, Zenon
        <4> HIDE DEF A, B
        <4>2. Joined(A, Len(l), B) # {} /\ t[Last(Joined(A, Len(l), B))] = s[Last(B)]
          BY <4>1, <1>1, Zenon
        <4> QED BY <4>1, <4>2 DEF B
      <3> QED BY <2>1, <3>1 DEF LatestDesired
    <2>2. CASE LocalDesired(s) = {} /\ LocalDesired(l) # {}
      BY <1>0, <1>1, <1>2, <2>2 DEF LatestDesired
    <2>3. CASE LocalDesired(s) = {} /\ LocalDesired(l) = {}
      BY <1>0, <1>1, <1>2, <2>3 DEF LatestDesired
    <2> QED BY <2>1, <2>2, <2>3
  <1>4. LatestTrust(t, x) = LatestTrust(s, LatestTrust(l, x))
    <2>1. CASE Positions(s, "trust") # {}
      <3>1. /\ Positions(t, "trust") # {}
            /\ t[Last(Positions(t, "trust"))] = s[Last(Positions(s, "trust"))]
        <4> DEFINE A == Positions(l, "trust")
                   B == Positions(s, "trust")
        <4>1. A \subseteq 1 .. Len(l) /\ B \subseteq 1 .. Len(s) /\ B # {}
              /\ Positions(t, "trust") = Joined(A, Len(l), B)
          BY <1>0, <1>2, <2>1, Zenon
        <4> HIDE DEF A, B
        <4>2. Joined(A, Len(l), B) # {} /\ t[Last(Joined(A, Len(l), B))] = s[Last(B)]
          BY <4>1, <1>1, Zenon
        <4> QED BY <4>1, <4>2 DEF B
      <3> QED BY <2>1, <3>1 DEF LatestTrust
    <2>2. CASE Positions(s, "trust") = {} /\ Positions(l, "trust") # {}
      <3>1. Positions(t, "trust") = Positions(l, "trust")
        <4>1. Positions(t, "trust") = Joined(Positions(l, "trust"), Len(l), Positions(s, "trust"))
          BY <1>0, Zenon
        <4> QED BY <2>2, <4>1, Zenon DEF Joined
      <3>2. t[Last(Positions(l, "trust"))] = l[Last(Positions(l, "trust"))]
        BY <1>1, <1>2, <2>2, Zenon
      <3> QED BY <2>2, <3>1, <3>2 DEF LatestTrust
    <2>3. CASE Positions(s, "trust") = {} /\ Positions(l, "trust") = {}
      BY <1>0, <1>1, <1>2, <2>3 DEF LatestTrust
    <2> QED BY <2>1, <2>2, <2>3
  <1>6. SignersOf(t) = SignersOf(l) \union SignersOf(s)
    <2>1. ASSUME NEW k \in 1 .. Len(t) PROVE t[k].by \in {l[j].by : j \in 1 .. Len(l)} \union {s[j].by : j \in 1 .. Len(s)}
      <3>1. CASE k \in 1 .. Len(l)
        BY <1>0, <3>1
      <3>2. CASE k \notin 1 .. Len(l)
        <4>1. k - Len(l) \in 1 .. Len(s) /\ k = Len(l) + (k - Len(l))
          BY <1>0, <3>2
        <4>2. t[k] = s[k - Len(l)]
          BY <1>0, <4>1
        <4> QED BY <4>1, <4>2
      <3> QED BY <3>1, <3>2
    <2>2. ASSUME NEW j \in 1 .. Len(l) PROVE l[j].by \in {t[k].by : k \in 1 .. Len(t)}
      <3>1. j \in 1 .. Len(t) /\ t[j] = l[j]
        BY <1>0
      <3> QED BY <3>1
    <2>3. ASSUME NEW j \in 1 .. Len(s) PROVE s[j].by \in {t[k].by : k \in 1 .. Len(t)}
      <3>1. Len(l) + j \in 1 .. Len(t) /\ t[Len(l) + j] = s[j]
        BY <1>0
      <3> QED BY <3>1
    <2> QED BY <2>1, <2>2, <2>3, ZenonT(60) DEF SignersOf
  <1> QED BY <1>3, <1>4, <1>6 DEF t

\* What is latest in a log is well typed.
LEMMA LatestTyped ==
    ASSUME NEW l \in Log
    PROVE  /\ \A x \in Desired : LatestDesired(l, x) \in Desired
           /\ \A t \in Trust : LatestTrust(l, t) \in Trust
           /\ SignersOf(l) \subseteq Signer
           /\ \A x, y : LocalDesired(l) # {} => LatestDesired(l, x) = LatestDesired(l, y)
  <1> Len(l) \in Nat /\ \A k \in 1 .. Len(l) : l[k] \in Event
    BY DEF Log
  <1>2. \A e \in Event : /\ e.payload \in Desired /\ e.payload.trust \in Trust
                         /\ e.by \in Signer \union {NoSigner}
    BY DEF Event, Desired
  <1>3. ASSUME NEW S \in SUBSET (1 .. Len(l)), S # {} PROVE Last(S) \in 1 .. Len(l)
    <2>1. Last(S) \in S
      BY <1>3, LastPosition, Zenon
    <2> QED BY <2>1, Zenon
  <1>4. LocalDesired(l) \in SUBSET (1 .. Len(l)) /\ Positions(l, "trust") \in SUBSET (1 .. Len(l))
    BY DEF LocalDesired, Positions
  <1>5. ASSUME NEW x \in Desired PROVE LatestDesired(l, x) \in Desired
    <2>1. LocalDesired(l) # {} => Last(LocalDesired(l)) \in 1 .. Len(l)
      BY <1>3, <1>4
    <2> QED BY <1>2, <2>1, Zenon DEF LatestDesired
  <1>6. ASSUME NEW t \in Trust PROVE LatestTrust(l, t) \in Trust
    <2>1. Positions(l, "trust") # {} => Last(Positions(l, "trust")) \in 1 .. Len(l)
      BY <1>3, <1>4
    <2> QED BY <1>2, <2>1, Zenon DEF LatestTrust
  <1>7. SignersOf(l) \subseteq Signer
    BY <1>2, Zenon DEF SignersOf
  <1> QED BY <1>5, <1>6, <1>7, Zenon DEF LatestDesired

LEMMA SingleEvent ==
    ASSUME NEW e \in Event
    PROVE  /\ <<e>> \in Log /\ SignersOf(<<e>>) = {e.by} \ {NoSigner}
           /\ \A r : Positions(<<e>>, r) = IF e.resource = r THEN {1} ELSE {}
           /\ Last({1}) = 1 /\ <<e>>[1] = e
  <1>1. <<e>> \in Log /\ 1 .. Len(<<e>>) = {1} /\ <<e>>[1] = e
    BY DEF Log
  <1>2. SignersOf(<<e>>) = {e.by} \ {NoSigner}
    BY <1>1, Zenon DEF SignersOf
  <1>3. \A r : Positions(<<e>>, r) = IF e.resource = r THEN {1} ELSE {}
    BY <1>1, Zenon DEF Positions
  <1>4. Last({1}) = 1
    BY LastIs
  <1> QED BY <1>1, <1>2, <1>3, <1>4

\* What a part of a log says: a configuration, a trust section, or nothing.
SaysDesired(s, d) ==
    /\ s \in Log /\ SignersOf(s) = {Local}
    /\ \A y : LatestDesired(s, y) = d /\ LatestTrust(s, y) = y
SaysTrust(s, t, b) ==
    /\ s \in Log /\ SignersOf(s) = {b}
    /\ \A y : LatestDesired(s, y) = y /\ LatestTrust(s, y) = t
SaysNothing(s) ==
    /\ s \in Log /\ SignersOf(s) = {}
    /\ \A y : LatestDesired(s, y) = y /\ LatestTrust(s, y) = y

LEMMA LatestOfDesired == ASSUME NEW d \in Desired PROVE SaysDesired(<<DesiredEvent(d)>>, d)
  <1> DEFINE e == DesiredEvent(d)
  <1>1. e \in Event /\ e.resource = "desired" /\ e.payload = d /\ e.by = Local
    BY EventTyped, Zenon DEF DesiredEvent
  <1>2. Local # NoSigner
    BY NodeAssumption DEF Signer
  <1> HIDE DEF e
  <1>3. /\ <<e>> \in Log /\ SignersOf(<<e>>) = {e.by} \ {NoSigner} /\ <<e>>[1] = e /\ Last({1}) = 1
        /\ \A r : Positions(<<e>>, r) = IF e.resource = r THEN {1} ELSE {}
    BY <1>1, SingleEvent, Zenon
  <1>4. SignersOf(<<e>>) = {Local} /\ Positions(<<e>>, "desired") = {1} /\ Positions(<<e>>, "trust") = {}
    BY <1>1, <1>2, <1>3
  <1>5. LocalDesired(<<e>>) = {1}
    BY <1>1, <1>3, <1>4, Zenon DEF LocalDesired
  <1>6. SaysDesired(<<e>>, d)
    BY <1>1, <1>3, <1>4, <1>5, Zenon DEF LatestDesired, LatestTrust, SaysDesired
  <1> QED BY <1>6 DEF e

LEMMA LatestOfTrust ==
    ASSUME NEW t \in Trust, NEW b \in Signer PROVE SaysTrust(<<TrustEvent(t, b)>>, t, b)
  <1> DEFINE e == TrustEvent(t, b)
  <1>1. e \in Event /\ e.resource = "trust" /\ e.payload.trust = t /\ e.by = b
    <2>1. FileDesired \in [cfg : Cfg, trust : Trust]
      BY NodeAssumption DEF Desired
    <2> QED BY <2>1, EventTyped DEF TrustEvent
  <1>2. b # NoSigner
    BY NodeAssumption
  <1> HIDE DEF e
  <1>3. /\ <<e>> \in Log /\ SignersOf(<<e>>) = {e.by} \ {NoSigner} /\ <<e>>[1] = e /\ Last({1}) = 1
        /\ \A r : Positions(<<e>>, r) = IF e.resource = r THEN {1} ELSE {}
    BY <1>1, SingleEvent, Zenon
  <1>4. SignersOf(<<e>>) = {b} /\ Positions(<<e>>, "desired") = {} /\ Positions(<<e>>, "trust") = {1}
    BY <1>1, <1>2, <1>3
  <1>5. LocalDesired(<<e>>) = {}
    BY <1>4, Zenon DEF LocalDesired
  <1>6. SaysTrust(<<e>>, t, b)
    BY <1>1, <1>3, <1>4, <1>5, Zenon DEF LatestDesired, LatestTrust, SaysTrust
  <1> QED BY <1>6 DEF e

LEMMA EmptySaysNothing == SaysNothing(<<>>)
  BY LatestOfNone, Zenon DEF SaysNothing

\* What is latest in a log l that s extends.
Joins(l, s) ==
    /\ l \o s \in Log /\ (GoodLog(l) => GoodLog(l \o s))
    /\ \A x : LatestDesired(l \o s, x) = LatestDesired(s, LatestDesired(l, x))
    /\ \A x : LatestTrust(l \o s, x) = LatestTrust(s, LatestTrust(l, x))
    /\ SignersOf(l \o s) = SignersOf(l) \union SignersOf(s)

LEMMA LogsJoin == ASSUME NEW l \in Log, NEW s \in Log PROVE Joins(l, s)
  <1>1. /\ l \o s \in Log /\ Len(l \o s) = Len(l) + Len(s) /\ Len(l) \in Nat /\ Len(s) \in Nat
        /\ \A k \in 1 .. Len(l) : (l \o s)[k] = l[k]
    BY PositionsOfConcat, Zenon
  <1>2. GoodLog(l) => GoodLog(l \o s)
    BY <1>1 DEF GoodLog
  <1> DEFINE n == l \o s
  <1>3. ASSUME NEW x PROVE /\ LatestDesired(n, x) = LatestDesired(s, LatestDesired(l, x))
                           /\ LatestTrust(n, x) = LatestTrust(s, LatestTrust(l, x))
                           /\ SignersOf(n) = SignersOf(l) \union SignersOf(s)
    BY LatestOfConcat, Zenon
  <1> HIDE DEF n
  <1>4. n \in Log /\ (GoodLog(l) => GoodLog(n))
    BY <1>1, <1>2 DEF n
  <1> QED BY <1>3, <1>4, Zenon DEF Joins, n

LEMMA AppendDesired ==
    ASSUME NEW l \in Log, NEW d \in Desired, NEW x
    PROVE  LET new == Append(l, DesiredEvent(d))
           IN  /\ new \in Log /\ (GoodLog(l) => GoodLog(new))
               /\ LatestDesired(new, x) = d /\ LatestTrust(new, x) = LatestTrust(l, x)
               /\ SignersOf(new) = SignersOf(l) \union {Local}
  <1> DEFINE s == <<DesiredEvent(d)>>
  <1>1. Append(l, DesiredEvent(d)) = l \o s
    BY EventTyped, AppendConcat DEF Log
  <1>2. SaysDesired(s, d)
    BY LatestOfDesired
  <1> HIDE DEF s
  <1>3. Joins(l, s)
    BY <1>2, LogsJoin DEF SaysDesired
  <1> QED BY <1>1, <1>2, <1>3, Zenon DEF SaysDesired, Joins

LEMMA AppendTrust ==
    ASSUME NEW l \in Log, NEW t \in Trust, NEW b \in Signer, NEW x
    PROVE  LET new == Append(l, TrustEvent(t, b))
           IN  /\ new \in Log /\ (GoodLog(l) => GoodLog(new))
               /\ LatestDesired(new, x) = LatestDesired(l, x) /\ LatestTrust(new, x) = t
               /\ SignersOf(new) = SignersOf(l) \union {b}
  <1> DEFINE s == <<TrustEvent(t, b)>>
  <1>1. Append(l, TrustEvent(t, b)) = l \o s
    BY EventTyped, AppendConcat DEF Log
  <1>2. SaysTrust(s, t, b)
    BY LatestOfTrust
  <1> HIDE DEF s
  <1>3. Joins(l, s)
    BY <1>2, LogsJoin DEF SaysTrust
  <1> QED BY <1>1, <1>2, <1>3, Zenon DEF SaysTrust, Joins

\* The signers of a log are those of a prefix and those of the rest.
LEMMA SignersOfRest ==
    ASSUME NEW l \in Log, NEW p \in Log, IsPrefixOf(l, p)
    PROVE  SignersOf(p) \subseteq SignersOf(l) \union SignersOf(SubSeq(p, Len(l) + 1, Len(p)))
  <1> DEFINE n == Len(l)
             m == Len(p)
             s == SubSeq(p, n + 1, m)
  <1>1. n \in Nat /\ m \in Nat /\ n <= m /\ \A k \in 1 .. m : p[k] \in Event
    BY DEF IsPrefixOf, Log
  <1>2. Len(s) = m - n /\ \A k \in 1 .. Len(s) : s[k] = p[n + k]
    BY <1>1, RestOf DEF Log
  <1>3. \A k \in 1 .. n : l[k] = p[k]
    BY <1>1 DEF IsPrefixOf
  <1> HIDE DEF n, m, s
  <1>4. ASSUME NEW k \in 1 .. m
        PROVE  p[k].by \in {l[j].by : j \in 1 .. n} \union {s[j].by : j \in 1 .. Len(s)}
    <2>1. CASE k \in 1 .. n
      BY <1>3, <2>1, Zenon
    <2>2. CASE k \notin 1 .. n
      <3>1. k - n \in 1 .. Len(s) /\ n + (k - n) = k
        BY <1>1, <1>2, <2>2
      <3>2. s[k - n] = p[k]
        BY <1>2, <3>1, Zenon
      <3> QED BY <3>1, <3>2, Zenon
    <2> QED BY <2>1, <2>2
  <1> QED BY <1>4, Zenon DEF SignersOf, n, m, s

\* What applyDesiredConfigLocked plans ends in the configuration that is
\* applied, with its trust, and only this IX signs it.
LEMMA PlanFacts ==
    ASSUME log \in Log, desired \in Desired, NEW d \in Desired
    PROVE  LET new == log \o Plan(d)
           IN  /\ new \in Log /\ (GoodLog(log) => GoodLog(new))
               /\ \A x : LatestDesired(new, x) = d
               /\ \A x : LatestTrust(new, x) = IF d.trust # desired.trust THEN d.trust
                                               ELSE LatestTrust(log, x)
               /\ SignersOf(new) \subseteq SignersOf(log) \union {Local}
  <1> DEFINE baseline == LocalDesired(log) = {}
             changed == d.trust # desired.trust
             atEnd == IF baseline THEN d = desired ELSE LatestDesired(log, desired) = d
             s1 == IF baseline THEN <<DesiredEvent(desired)>> ELSE <<>>
             s2 == IF changed THEN <<TrustEvent(d.trust, Local)>> ELSE <<>>
             s3 == IF atEnd THEN <<>> ELSE <<DesiredEvent(d)>>
             b1 == log \o s1
             b2 == b1 \o s2
             b3 == b2 \o s3
  <1>1. IF baseline THEN SaysDesired(s1, desired) ELSE SaysNothing(s1)
    BY LatestOfDesired, EmptySaysNothing
  <1>2. IF changed THEN SaysTrust(s2, d.trust, Local) ELSE SaysNothing(s2)
    <2>1. d.trust \in Trust /\ Local \in Signer
      BY DEF Desired, Signer
    <2> QED BY <2>1, LatestOfTrust, EmptySaysNothing
  <1>3. IF atEnd THEN SaysNothing(s3) ELSE SaysDesired(s3, d)
    BY LatestOfDesired, EmptySaysNothing
  <1>4. \A x : atEnd => d = IF baseline THEN desired ELSE LatestDesired(log, x)
    BY Zenon DEF LatestDesired
  <1>5. Plan(d) = (s1 \o s2) \o s3
    BY Zenon DEF Plan
  <1> HIDE DEF baseline, changed, atEnd, s1, s2, s3
  <1>6. s1 \in Log /\ s2 \in Log /\ s3 \in Log
    BY <1>1, <1>2, <1>3, Zenon DEF SaysDesired, SaysTrust, SaysNothing
  <1>7. log \o Plan(d) = b3
    <2> DEFINE u == s1 \o s2
    <2>1. u \in Seq(Event) /\ s1 \in Seq(Event) /\ s2 \in Seq(Event) /\ s3 \in Seq(Event) /\ log \in Seq(Event)
      BY <1>6 DEF Log
    <2>2. \A x, y, z \in Seq(Event) : (x \o y) \o z = x \o (y \o z)
      BY Associative
    <2>3. (log \o s1) \o s2 = log \o (s1 \o s2)
      BY <2>1, <2>2, Zenon
    <2> HIDE DEF u
    <2>4. (log \o u) \o s3 = log \o (u \o s3)
      BY <2>1, <2>2, Zenon
    <2> QED BY <1>5, <2>3, <2>4, Zenon DEF u
  <1>8. Joins(log, s1) /\ b1 \in Log
    BY <1>6, LogsJoin DEF Joins
  <1>9. Joins(b1, s2) /\ b2 \in Log
    <2> HIDE DEF b1
    <2> QED BY <1>6, <1>8, LogsJoin DEF Joins
  <1>10. Joins(b2, s3)
    <2> HIDE DEF b2
    <2> QED BY <1>6, <1>9, LogsJoin
  <1>11. /\ b1 \in Log /\ (GoodLog(log) => GoodLog(b1))
         /\ \A x : LatestDesired(b1, x) = IF baseline THEN desired ELSE LatestDesired(log, x)
         /\ \A x : LatestTrust(b1, x) = LatestTrust(log, x)
         /\ SignersOf(b1) \subseteq SignersOf(log) \union {Local}
    BY <1>1, <1>8, Zenon DEF Joins, SaysDesired, SaysNothing
  <1> HIDE DEF b1
  <1>12. /\ b2 \in Log /\ (GoodLog(b1) => GoodLog(b2))
         /\ \A x : LatestDesired(b2, x) = LatestDesired(b1, x)
         /\ \A x : LatestTrust(b2, x) = IF changed THEN d.trust ELSE LatestTrust(b1, x)
         /\ SignersOf(b2) \subseteq SignersOf(b1) \union {Local}
    BY <1>2, <1>9, Zenon DEF Joins, SaysTrust, SaysNothing
  <1> HIDE DEF b2
  <1>13. /\ b3 \in Log /\ (GoodLog(b2) => GoodLog(b3))
         /\ \A x : LatestDesired(b3, x) = IF atEnd THEN LatestDesired(b2, x) ELSE d
         /\ \A x : LatestTrust(b3, x) = LatestTrust(b2, x)
         /\ SignersOf(b3) \subseteq SignersOf(b2) \union {Local}
    BY <1>3, <1>10, Zenon DEF Joins, SaysDesired, SaysNothing
  <1> HIDE DEF b3
  <1>14. \A x : LatestDesired(b3, x) = d
    BY <1>4, <1>11, <1>12, <1>13, Zenon
  <1>15. \A x : LatestTrust(b3, x) = IF changed THEN d.trust ELSE LatestTrust(log, x)
    BY <1>11, <1>12, <1>13, Zenon
  <1>16. b3 \in Log /\ (GoodLog(log) => GoodLog(b3)) /\ SignersOf(b3) \subseteq SignersOf(log) \union {Local}
    BY <1>11, <1>12, <1>13, Zenon
  <1> QED BY <1>7, <1>14, <1>15, <1>16, Zenon DEF changed

-----------------------------------------------------------------------------
(* The actions as plain changes of the variables the invariants are about,   *)
(* with the type invariant they keep.                                        *)

LEMMA BeginApplyType ==
    ASSUME TypeInv, NEW d \in Wanted, BeginApply(d)
    PROVE  TypeInv' /\ Started("apply", "switch", log \o Plan(d), d, {})
  <1>1. log \in Log /\ desired \in Desired /\ d \in Desired /\ GoodLog(log)
    BY NodeAssumption DEF TypeInv, TypeOK, GoodLog
  <1>2. GoodLog(log \o Plan(d))
    BY <1>1, PlanFacts
  <1>3. KindAt("switch", "apply")
    BY DEF KindAt, FollowUp
  <1>4. Begin("apply", "switch", log \o Plan(d), d, {}, FALSE)
    BY Zenon DEF BeginApply
  <1>5. "apply" \in AllKinds
    BY DEF AllKinds
  <1> QED BY <1>1, <1>2, <1>3, <1>4, <1>5, Begins, Zenon

LEMMA BeginTrustType ==
    ASSUME TypeInv, NEW t \in Trust, BeginTrust(t)
    PROVE  TypeInv' /\ Started("trust", "commit", Append(log, TrustEvent(t, Local)), WithTrust(desired, t), {})
  <1>1. log \in Log /\ desired \in Desired /\ GoodLog(log) /\ Local \in Signer
    BY DEF TypeInv, TypeOK, GoodLog, Signer
  <1>2. GoodLog(Append(log, TrustEvent(t, Local))) /\ WithTrust(desired, t) \in Desired
    BY <1>1, AppendTrust, WithTrustTyped, Zenon
  <1>3. KindAt("commit", "trust") /\ "trust" \in AllKinds
    BY DEF KindAt, FollowUp, AllKinds
  <1>4. Begin("trust", "commit", Append(log, TrustEvent(t, Local)), WithTrust(desired, t), {}, FALSE)
    BY Zenon DEF BeginTrust
  <1> QED BY <1>1, <1>2, <1>3, <1>4, Begins, Zenon

LEMMA BeginAppendType ==
    ASSUME TypeInv, BeginAppend
    PROVE  /\ TypeInv' /\ IsPrefixOf(log, peer)
           /\ Started("append", "commit", peer, desired, SignersOf(SubSeq(peer, Len(log) + 1, Len(peer))))
  <1> DEFINE u == SignersOf(SubSeq(peer, Len(log) + 1, Len(peer)))
  <1>1. GoodLog(peer) /\ peer \in Log /\ log \in Log /\ desired \in Desired
    BY DEF TypeInv, TypeOK, LogsInv
  <1>2. SubSeq(peer, Len(log) + 1, Len(peer)) \in Log
    <2>1. Len(log) \in Nat /\ Len(log) <= Len(peer)
      BY <1>1 DEF Log, BeginAppend, IsPrefixOf
    <2> QED BY <1>1, <2>1, RestOf DEF Log
  <1>3. u \subseteq Signer
    BY <1>2, LatestTyped
  <1>4. KindAt("commit", "append") /\ "append" \in AllKinds
    BY DEF KindAt, FollowUp, AllKinds
  <1>5. Begin("append", "commit", peer, desired, u, FALSE) /\ IsPrefixOf(log, peer)
    BY Zenon DEF BeginAppend
  <1> HIDE DEF u
  <1>6. TypeInv' /\ Started("append", "commit", peer, desired, u)
    BY <1>1, <1>3, <1>4, <1>5, Begins, Zenon
  <1> QED BY <1>5, <1>6 DEF u

LEMMA BeginRejoinType ==
    ASSUME TypeInv, NEW flag \in BOOLEAN, BeginRejoin(flag)
    PROVE  TypeInv' /\ Started("rejoin", "commit", peer, desired, SignersOf(peer))
  <1>1. GoodLog(peer) /\ peer \in Log /\ desired \in Desired
    BY DEF TypeInv, TypeOK, LogsInv
  <1>2. SignersOf(peer) \subseteq Signer
    BY <1>1, LatestTyped
  <1>3. KindAt("commit", "rejoin") /\ "rejoin" \in AllKinds
    BY DEF KindAt, FollowUp, AllKinds
  <1>4. Begin("rejoin", "commit", peer, desired, SignersOf(peer), flag)
    BY DEF BeginRejoin
  <1> QED BY <1>1, <1>2, <1>3, <1>4, Begins

LEMMA BeginRestoreType ==
    ASSUME TypeInv, NEW flag \in BOOLEAN, BeginRestore(flag)
    PROVE  /\ TypeInv' /\ LocalDesired(archive) # {} /\ archive \in Log
           /\ Started("restore", "switch", archive, LatestDesired(archive, desired), SignersOf(archive))
  <1>1. archive \in Log /\ desired \in Desired /\ LocalDesired(archive) # {}
    BY DEF TypeInv, TypeOK, BeginRestore
  <1>2. LocalDesired(<<>>) = {}
    BY LatestOfNone DEF LocalDesired, Positions
  <1>3. GoodLog(archive)
    BY <1>1, <1>2 DEF TypeInv, LogsInv
  <1>4. SignersOf(archive) \subseteq Signer /\ LatestDesired(archive, desired) \in Desired
    BY <1>1, LatestTyped
  <1>5. KindAt("switch", "restore") /\ "restore" \in AllKinds
    BY DEF KindAt, FollowUp, AllKinds
  <1>6. Begin("restore", "switch", archive, LatestDesired(archive, desired), SignersOf(archive), FALSE)
    BY Zenon DEF BeginRestore
  <1> QED BY <1>1, <1>3, <1>4, <1>5, <1>6, Begins, Zenon

LEMMA TrustType ==
    ASSUME TypeInv, ApplyLatestDomainTrust
    PROVE  TypeInv' /\ TrustStep
  <1> DEFINE d == WithTrust(desired, LatestTrust(log, desired.trust))
  <1> /\ req.pc = "trust" /\ desired' = d /\ UNCHANGED envVars /\ UNCHANGED <<up, crashes>>
      /\ UNCHANGED <<log, stable, head, signers, cache>>
    BY DEF ApplyLatestDomainTrust, diskVars, envVars
  <1>2. d \in Desired
    <2>1. log \in Log /\ desired \in Desired
      BY RestOfType
    <2>2. desired.trust \in Trust
      BY <2>1 DEF Desired
    <2>3. LatestTrust(log, desired.trust) \in Trust
      BY <2>1, <2>2, LatestTyped
    <2> QED BY <2>1, <2>3, WithTrustTyped
  <1>3. \/ NoFault /\ Goto("admission") /\ UNCHANGED <<pending, taint>>
        \/ FollowUpFails
    BY DEF ApplyLatestDomainTrust
  <1>4. req.pc \in FollowUp
    BY DEF FollowUp
  <1> HIDE DEF d
  <1>5. /\ ReqOK /\ (Moved("admission") \/ Fell)
        /\ faults' \in Nat /\ pending' \in BOOLEAN /\ taint' \subseteq {"unrestored", "cut"}
    <2>1. CASE NoFault /\ Goto("admission") /\ UNCHANGED <<pending, taint>>
      BY <1>4, <2>1, MovesOn
    <2>2. CASE FollowUpFails
      BY <1>4, <2>2, FollowUpFailsType
    <2> QED BY <1>3, <2>1, <2>2
  <1>6. d = WithTrust(desired, LatestTrust(log, desired.trust))
    BY DEF d
  <1>7. RestOK
    BY <1>2, <1>5, RestOfType DEF RestOK
  <1>8. TypeInv'
    BY <1>5, <1>7, Typed
  <1> QED BY <1>5, <1>6, <1>8, Zenon DEF TrustStep, Runs

LEMMA BaselineType ==
    ASSUME TypeInv, EnsureLocalDesiredBaseline
    PROVE  TypeInv' /\ BaselineStep
  <1> DEFINE new == Append(log, DesiredEvent(desired))
  <1> /\ req.pc = "baseline" /\ UNCHANGED envVars /\ UNCHANGED <<up, crashes>>
      /\ UNCHANGED <<desired, signers, cache>>
    BY Zenon DEF EnsureLocalDesiredBaseline, envVars
  <1> req.pc \in FollowUp /\ req.pc # "idle"
    BY DEF FollowUp
  <1>3. /\ GoodLog(new) /\ new \in Log
    BY RestOfType, AppendDesired
  <1>4. \/ NoFault /\ Goto("refresh") /\ UNCHANGED <<log, stable, head, pending, taint>>
        \/ /\ \E durable \in BOOLEAN :
                /\ IF durable THEN NoFault ELSE Fault
                /\ stable' = IF durable THEN {new} ELSE stable \union {new}
                /\ pending' = (pending \/ ~durable)
                /\ Continue([req EXCEPT !.pc = "refresh", !.unsure = @ \/ ~durable])
           /\ log' = new /\ head' = new /\ UNCHANGED taint
        \/ FollowUpFails /\ UNCHANGED <<log, stable, head>>
    BY Zenon DEF EnsureLocalDesiredBaseline, diskVars
  <1>5. new = Append(log, DesiredEvent(desired))
    OBVIOUS
  <1> HIDE DEF new
  <1>6. CASE /\ \E durable \in BOOLEAN :
                /\ IF durable THEN NoFault ELSE Fault
                /\ stable' = IF durable THEN {new} ELSE stable \union {new}
                /\ pending' = (pending \/ ~durable)
                /\ Continue([req EXCEPT !.pc = "refresh", !.unsure = @ \/ ~durable])
             /\ log' = new /\ head' = new /\ UNCHANGED taint
    <2> USE <1>6
    <2>1. PICK durable \in BOOLEAN :
             /\ IF durable THEN NoFault ELSE Fault
             /\ stable' = IF durable THEN {new} ELSE stable \union {new}
             /\ pending' = (pending \/ ~durable)
             /\ Continue([req EXCEPT !.pc = "refresh", !.unsure = @ \/ ~durable])
      BY Zenon
    <2> DEFINE b == req.unsure \/ ~durable
    <2>2. req' = [req EXCEPT !.pc = "refresh", !.unsure = b] /\ result' = "none"
      BY <2>1, Zenon DEF Continue
    <2>3. /\ b \in BOOLEAN /\ "refresh" \in Pcs /\ req \in ReqRec /\ KindAt(req.pc, req.kind)
          /\ (Fault \/ NoFault)
      BY <2>1, Busy DEF Pcs
    <2> HIDE DEF b
    <2>4. req' \in ReqRec /\ req'.pc = "refresh" /\ Same
      BY <2>2, <2>3, MovesTo, Zenon
    <2>5. KindAt(req'.pc, req.kind)
      BY <2>3, <2>4 DEF KindAt, FollowUp
    <2>6. ReqOK
      BY <2>2, <2>4, <2>5, KeepsPhase
    <2>7. pending \in BOOLEAN
      BY RestOfType
    <2>8. pending' \in BOOLEAN /\ (pending => pending')
      BY <2>1, <2>7, Zenon
    <2>9. \A l \in stable' : GoodLog(l)
      BY <1>3, <2>1, RestOfType
    <2>10. RestOK
      BY <1>3, <2>3, <2>8, <2>9, RestOfType, FaultTyped DEF RestOK
    <2>11. TypeInv'
      BY <2>6, <2>10, Typed
    <2> QED BY <1>5, <2>2, <2>4, <2>8, <2>11, Zenon DEF BaselineStep, Runs
  <1>7. CASE \/ NoFault /\ Goto("refresh") /\ UNCHANGED <<log, stable, head, pending, taint>>
             \/ FollowUpFails /\ UNCHANGED <<log, stable, head>>
    <2>1. UNCHANGED <<log, stable, head>>
      BY <1>7
    <2>2. /\ ReqOK /\ (Moved("refresh") \/ Fell)
          /\ faults' \in Nat /\ pending' \in BOOLEAN /\ taint' \subseteq {"unrestored", "cut"}
      BY <1>7, MovesOn, FollowUpFailsType
    <2>3. RestOK
      BY <2>1, <2>2, RestOfType DEF RestOK
    <2>4. TypeInv'
      BY <2>2, <2>3, Typed
    <2> QED BY <2>1, <2>2, <2>4, Zenon DEF BaselineStep, Runs
  <1> QED BY <1>4, <1>6, <1>7, Zenon

LEMMA ReconcileType ==
    ASSUME TypeInv, ReconcileRuntimeState
    PROVE  TypeInv' /\ ReconcileStep
  <1> DEFINE d == WithTrust(desired, LatestTrust(log, desired.trust))
  <1> /\ up = "up" /\ req = Idle /\ pending /\ result' = "none" /\ req' = req /\ UNCHANGED envVars
      /\ UNCHANGED <<up, crashes, log, stable, signers, taint>> /\ head' = log /\ desired' = d
    BY DEF ReconcileRuntimeState, envVars, diskVars
  <1>2. d \in Desired
    <2>1. log \in Log /\ desired \in Desired
      BY RestOfType
    <2>2. desired.trust \in Trust
      BY <2>1 DEF Desired
    <2>3. LatestTrust(log, desired.trust) \in Trust
      BY <2>1, <2>2, LatestTyped
    <2> QED BY <2>1, <2>3, WithTrustTyped
  <1>3. \/ NoFault /\ pending' = FALSE /\ cache' = signers
        \/ Fault /\ pending' = pending /\ cache' \in {cache, signers}
    BY Zenon DEF ReconcileRuntimeState
  <1>4. d = WithTrust(desired, LatestTrust(log, desired.trust))
    OBVIOUS
  <1> HIDE DEF d
  <1>5. pending' \in BOOLEAN /\ (pending' \/ cache' = signers)
    BY <1>3, RestOfType, Zenon
  <1>6. ReqOK
    <2>1. req' = Idle
      OBVIOUS
    <2> QED BY <2>1, Ends DEF Results
  <1>7. RestOK
    BY <1>2, <1>3, <1>5, RestOfType, FaultTyped, Zenon DEF RestOK
  <1>8. TypeInv'
    BY <1>6, <1>7, Typed
  <1> QED BY <1>4, <1>5, <1>8, Zenon DEF ReconcileStep

LEMMA LoadType ==
    ASSUME TypeInv, LoadAndApply
    PROVE  TypeInv' /\ LoadStep
  <1> DEFINE w == WithTrust(FileDesired, LatestTrust(log, FileDesired.trust))
             d == LatestDesired(log, w)
  <1> /\ up = "down" /\ signers' = cache \union {Local} /\ head' = log /\ desired' = d /\ result' = "none"
      /\ up' = (IF SignersOf(log) \subseteq signers' THEN "up" ELSE "refused")
      /\ UNCHANGED <<log, stable, cache, pending, req, peer, archive, faults, crashes, taint>>
    BY DEF LoadAndApply, diskVars
  <1> log \in Log /\ FileDesired \in Desired
    BY RestOfType, NodeAssumption
  <1>3. FileDesired.trust \in Trust
    BY DEF Desired
  <1>4. LatestTrust(log, FileDesired.trust) \in Trust
    BY <1>3, LatestTyped
  <1>5. w \in Desired
    BY <1>4, WithTrustTyped
  <1>6. d \in Desired
    <2> HIDE DEF w
    <2> QED BY <1>5, LatestTyped
  <1>7. d = LatestDesired(log, WithTrust(FileDesired, LatestTrust(log, FileDesired.trust)))
    OBVIOUS
  <1> HIDE DEF w, d
  <1>8. signers' \subseteq Signer
    BY RestOfType DEF Signer
  <1>9. up' \in {"up", "refused"} /\ (up' = "up" => SignersOf(log) \subseteq signers')
    OBVIOUS
  <1>10. TypeOK'
    BY <1>6, <1>8, <1>9 DEF TypeInv, TypeOK
  <1>11. req = Idle
    BY DEF TypeInv, PhaseInv
  <1>12. PhaseInv' /\ LogsInv'
    BY <1>11 DEF TypeInv, PhaseInv, LogsInv
  <1> QED BY <1>7, <1>9, <1>10, <1>12, Zenon DEF TypeInv, LoadStep

LEMMA PeerWritesType ==
    ASSUME TypeInv, NEW t \in Trust, NEW b \in Remote, PeerWrites(t, b)
    PROVE  TypeInv' /\ OtherStep
  <1> /\ peer' = Append(peer, TrustEvent(t, b)) /\ result' = "none"
      /\ UNCHANGED <<up, archive, crashes, log, stable, desired, head, signers, cache, pending, req, faults, taint>>
    BY DEF PeerWrites, diskVars, runVars
  <1>2. GoodLog(peer) /\ peer \in Log /\ b \in Signer
    BY DEF TypeInv, TypeOK, LogsInv, Signer
  <1>3. GoodLog(peer') /\ peer' \in Log
    BY <1>2, AppendTrust, SMTT(30)
  <1>4. TypeOK'
    BY <1>3 DEF TypeInv, TypeOK
  <1>5. LogsInv' /\ PhaseInv'
    BY <1>3, ZenonT(60) DEF TypeInv, LogsInv, PhaseInv
  <1> QED BY <1>4, <1>5 DEF TypeInv, OtherStep, Holds, Runs

LEMMA BeginApplyStep ==
    ASSUME TypeInv, NEW d \in Wanted, BeginApply(d)
    PROVE  TypeInv' /\ BeginStep
  <1> DEFINE new == log \o Plan(d)
  <1>1. TypeInv' /\ Started("apply", "switch", new, d, {})
    BY BeginApplyType
  <1>2. log \in Log /\ desired \in Desired /\ d \in Desired
    BY RestOfType, NodeAssumption
  <1>3. /\ \A x : LatestDesired(new, x) = d
        /\ \A x : LatestTrust(new, x) = IF d.trust # desired.trust THEN d.trust ELSE LatestTrust(log, x)
        /\ SignersOf(new) \subseteq SignersOf(log) \union {Local}
    BY <1>2, PlanFacts
  <1> HIDE DEF new
  <1>4. \/ d.trust = LatestTrust(new, d.trust)
        \/ d.trust = desired.trust /\ LatestTrust(new, d.trust) = LatestTrust(log, desired.trust)
    BY <1>3
  <1>5. /\ req'.kind = "apply" /\ req'.pc = "switch" /\ req'.new = new /\ req'.want = d
    BY <1>1 DEF Started
  <1>6. (\A x \in Desired : LatestDesired(req'.new, x) = req'.want)
        /\ SignersOf(req'.new) \subseteq SignersOf(log) \union {Local}
    BY <1>3, <1>5
  <1>7. \/ req'.want.trust = LatestTrust(req'.new, req'.want.trust)
        \/ /\ req'.want.trust = desired.trust
           /\ LatestTrust(req'.new, req'.want.trust) = LatestTrust(log, desired.trust)
    BY <1>4, <1>5, SMTT(30)
  <1> QED BY <1>1, <1>5, <1>6, <1>7 DEF Started, BeginStep, Holds, Runs

LEMMA BeginTrustStep ==
    ASSUME TypeInv, NEW t \in Trust, BeginTrust(t)
    PROVE  TypeInv' /\ BeginStep
  <1> DEFINE new == Append(log, TrustEvent(t, Local))
             want == WithTrust(desired, t)
  <1>1. TypeInv' /\ Started("trust", "commit", new, want, {})
    BY BeginTrustType
  <1>2. log \in Log /\ desired \in Desired /\ Local \in Signer
    BY RestOfType DEF Signer
  <1>3. want.trust = t /\ want.cfg = desired.cfg
    BY <1>2, WithTrustTyped
  <1>4. ASSUME NEW x PROVE /\ LatestDesired(new, x) = LatestDesired(log, x) /\ LatestTrust(new, x) = t
                           /\ SignersOf(new) = SignersOf(log) \union {Local}
    BY <1>2, AppendTrust
  <1> HIDE DEF new, want
  <1>5. want.trust = LatestTrust(new, want.trust) /\ LatestDesired(new, FileDesired) = LatestDesired(log, FileDesired)
        /\ SignersOf(new) \subseteq SignersOf(log) \union {Local}
    BY <1>3, <1>4
  <1>6. /\ req'.kind = "trust" /\ req'.pc = "commit" /\ req'.new = new /\ req'.want = want
    BY <1>1, ZenonT(60) DEF Started
  <1> QED BY <1>1, <1>3, <1>5, <1>6 DEF Started, BeginStep, Holds, Runs

LEMMA BeginAppendStep ==
    ASSUME TypeInv, BeginAppend
    PROVE  TypeInv' /\ BeginStep
  <1> DEFINE u == SignersOf(SubSeq(peer, Len(log) + 1, Len(peer)))
  <1>1. TypeInv' /\ IsPrefixOf(log, peer) /\ Started("append", "commit", peer, desired, u)
    BY BeginAppendType
  <1>2. log \in Log /\ peer \in Log
    BY DEF TypeInv, TypeOK
  <1>3. SignersOf(peer) \subseteq SignersOf(log) \union u
    BY <1>1, <1>2, SignersOfRest
  <1> HIDE DEF u
  <1>4. /\ req'.kind = "append" /\ req'.pc = "commit" /\ req'.new = peer /\ req'.used = u
    BY <1>1, ZenonT(60) DEF Started
  <1> QED BY <1>1, <1>3, <1>4 DEF Started, BeginStep, Holds, Runs

LEMMA BeginRejoinStep ==
    ASSUME TypeInv, NEW flag \in BOOLEAN, BeginRejoin(flag)
    PROVE  TypeInv' /\ BeginStep
  <1>1. TypeInv' /\ Started("rejoin", "commit", peer, desired, SignersOf(peer))
    BY BeginRejoinType
  <1>2. /\ req'.kind = "rejoin" /\ req'.pc = "commit" /\ req'.new = peer /\ req'.used = SignersOf(peer)
    BY <1>1, ZenonT(60) DEF Started
  <1> QED BY <1>1, <1>2 DEF Started, BeginStep, Holds, Runs

LEMMA BeginRestoreStep ==
    ASSUME TypeInv, NEW flag \in BOOLEAN, BeginRestore(flag)
    PROVE  TypeInv' /\ BeginStep
  <1>1. /\ TypeInv' /\ LocalDesired(archive) # {} /\ archive \in Log
        /\ Started("restore", "switch", archive, LatestDesired(archive, desired), SignersOf(archive))
    BY BeginRestoreType
  <1>2. \A x \in Desired : LatestDesired(archive, x) = LatestDesired(archive, desired)
    BY <1>1, LatestTyped, Zenon
  <1>3. /\ req'.kind = "restore" /\ req'.pc = "switch" /\ req'.new = archive
        /\ req'.want = LatestDesired(archive, desired) /\ req'.used = SignersOf(archive)
    BY <1>1 DEF Started
  <1>4. (\A x \in Desired : LatestDesired(req'.new, x) = req'.want) /\ SignersOf(req'.new) \subseteq req'.used
    BY <1>2, <1>3
  <1> QED BY <1>1, <1>3, <1>4 DEF Started, BeginStep, Holds, Runs

LEMMA StepType ==
    ASSUME TypeInv, [Next]_vars
    PROVE  TypeInv' /\ Step
  <1>1. CASE \E d \in Wanted : BeginApply(d)
    BY <1>1, BeginApplyStep DEF Step, PlainStep
  <1>2. CASE \E t \in Trust : BeginTrust(t)
    BY <1>2, BeginTrustStep DEF Step, PlainStep
  <1>3. CASE BeginAppend
    BY <1>3, BeginAppendStep DEF Step, PlainStep
  <1>4. CASE \E flag \in BOOLEAN : BeginRejoin(flag) \/ BeginRestore(flag)
    BY <1>4, BeginRejoinStep, BeginRestoreStep DEF Step, PlainStep
  <1>5. CASE RequestStep
    <2>1. CASE SwitchDesiredRuntime
      BY <2>1, SwitchType DEF Step, PlainStep
    <2>2. CASE CommitFails
      BY <2>2, CommitFailsType DEF Step, PlainStep
    <2>3. CASE SwitchBack
      BY <2>3, SwitchBackType DEF Step, PlainStep
    <2>4. CASE AfterMutation
      BY <2>4, AfterType DEF Step, PlainStep
    <2>5. CASE \E durable \in BOOLEAN : Commit(durable)
      BY <2>5, CommitType DEF Step, PlainStep
    <2>6. CASE ApplyLatestDomainTrust
      BY <2>6, TrustType DEF Step, PlainStep
    <2>7. CASE AfterAdmission
      BY <2>7, AdmissionType DEF Step, PlainStep
    <2>8. CASE EnsureLocalDesiredBaseline
      BY <2>8, BaselineType DEF Step, PlainStep
    <2>9. CASE RefreshLocalAdvertisement
      BY <2>9, RefreshType DEF Step, PlainStep
    <2>10. CASE CommitSignerCertificates
      BY <2>10, SignersType DEF Step, PlainStep
    <2>11. CASE Rollback
      BY <2>11, RollbackType DEF Step, PlainStep
    <2> QED BY <1>5, <2>1, <2>2, <2>3, <2>4, <2>5, <2>6, <2>7, <2>8, <2>9, <2>10, <2>11, ZenonT(60) DEF RequestStep
  <1>6. CASE ReconcileRuntimeState
    BY <1>6, ReconcileType DEF Step, PlainStep
  <1>7. CASE Crash
    BY <1>7, CrashType DEF Step, PlainStep
  <1>8. CASE LoadAndApply
    BY <1>8, LoadType DEF Step, PlainStep
  <1>9. CASE \E t \in Trust, b \in Remote : PeerWrites(t, b)
    BY <1>9, PeerWritesType DEF Step, PlainStep
  <1>10. CASE PeerPulls \/ Export
    BY <1>10, PeerPullsType DEF Step, PlainStep
  <1>11. CASE UNCHANGED vars
    BY <1>11, StutterType DEF Step, PlainStep
  <1> QED BY <1>1, <1>2, <1>3, <1>4, <1>5, <1>6, <1>7, <1>8, <1>9, <1>10, <1>11, ZenonT(60) DEF Next

-----------------------------------------------------------------------------
(* The theorems.                                                             *)

\* What ConfigNodeInvariant uses of the latest trust of a log.
LEMMA TrustFactsHold == TrustFacts
  <1>1. ASSUME NEW l \in Log, NEW t \in Trust, NEW d \in Desired
        PROVE  /\ LatestTrust(l, t) \in Trust
               /\ LatestTrust(Append(l, DesiredEvent(d)), t) = LatestTrust(l, t)
    BY LatestTyped, AppendDesired
  <1>2. ASSUME NEW l \in Log, NEW t \in Trust PROVE LatestTrust(l, t) \in Trust
    BY LatestTyped
  <1> QED BY <1>1, <1>2, Zenon DEF TrustFacts

LEMMA NextInv == ASSUME IInv, [Next]_vars PROVE IInv'
  <1>1. TypeInv' /\ Step
    BY StepType DEF IInv
  <1>2. RunInv' /\ HeadInv' /\ TrustInv' /\ SignerInv'
    BY <1>1, RunStep, HeadStep, TrustStepInv, SignerStep, TrustFactsHold DEF IInv
  <1> QED BY <1>1, <1>2 DEF IInv

\* IInv holds throughout: whatever step of applyDesiredConfigLocked,
\* appendVerifiedConfigEvents, a rejoin or a restore fails, and whenever the
\* process dies.
THEOREM Invariance == Spec => []IInv
  BY InitInv, NextInv, PTL DEF Spec

\* The daemon's state is well typed and its log starts with the genesis, for
\* every number of peers, configurations, faults and crashes.
THEOREM TypeCorrect == Spec => []TypeOK
  <1>1. IInv => TypeOK
    BY DEF IInv, TypeInv
  <1> QED BY <1>1, Invariance, PTL

\* A quiet daemon serves the head of its store, unless switchDesiredRuntime
\* said that it could not restore the previous runtime.
THEOREM HeadIsCommittedTheorem == Spec => []HeadIsCommitted
  <1>1. IInv => HeadIsCommitted
    BY ZenonT(60) DEF IInv, HeadInv, HeadOK, Excused, HeadIsCommitted, Quiet
  <1> QED BY <1>1, Invariance, PTL

\* A quiet daemon that was not restarted enforces the latest /domain/trust of
\* its log (applyTrustConfigLocked, applyLatestDomainTrustFromLogLocked, and
\* the rollbacks).
THEOREM TrustInForceTheorem == Spec => []TrustInForce
  <1>1. IInv => TrustInForce
    <2> SUFFICES ASSUME TrustInv, Quiet, "unrestored" \notin taint, crashes = 0
                 PROVE  desired.trust = LatestTrust(log, desired.trust)
      BY Zenon DEF IInv, TrustInForce
    <2>1. TrustOK(desired, log) /\ ~Excused
      BY Zenon DEF TrustInv, Quiet, Excused
    <2>2. ~(crashes > 0)
      OBVIOUS
    <2> QED BY <2>1, <2>2, Zenon DEF TrustOK
  <1> QED BY <1>1, Invariance, PTL

\* A quiet daemon finds in config-signers.json the certificates that verify
\* its log (commitConfigSignerCertificates), unless a commit was cut short.
THEOREM CanRestartTheorem == Spec => []CanRestart
  <1>1. IInv => CanRestart
    BY IdleFacts DEF IInv, SignerInv, CanRestart, Quiet, FollowUp
  <1> QED BY <1>1, Invariance, PTL

\* Every answer of handleConfigApply, applyTrustConfigLocked,
\* appendVerifiedConfigEvents, a rejoin and a restore says what happened.
THEOREM OutcomeIsTrueTheorem == Spec => OutcomeIsTrue
  <1> DEFINE Told ==
        LET was == req
        IN  was.pc # "idle" /\ req'.pc = "idle" /\ up' = "up" =>
              /\ result' = "failed" =>
                    log' = was.old.log /\ desired' = was.old.desired /\ head' = was.old.head
              /\ result' = "unrestored" => log' = was.old.log
              /\ result' = "committed" => pending'
              /\ result' = "ok" =>
                    /\ IsPrefixOf(was.new, log') /\ head' = log'
                    /\ was.kind = "apply" => LatestDesired(log', desired') = desired'
                    /\ was.kind = "restore" => LatestDesired(log', desired').cfg = desired'.cfg
  <1>1. ASSUME IInv, [Next]_vars PROVE Told
    <2>1. TypeInv' /\ Step /\ TypeInv /\ RunInv
      BY <1>1, StepType DEF IInv
    <2> QED BY <2>1, OutcomeStep
  <1>2. IInv /\ [Next]_vars => [Told]_vars
    BY <1>1
  <1> QED BY <1>2, Invariance, PTL DEF Spec, OutcomeIsTrue

\* In a daemon that takes no events from elsewhere, the settings that run (the
\* desired configuration without its trust section) are those loadAndApply would
\* find in the log: applies, trust mutations and restores, their failures and
\* crashes keep the two together.
THEOREM RestartKeepsSettingsTheorem == ASSUME NoForeign PROVE Spec => []RestartKeepsSettings
  <1> DEFINE DInv == TypeInv /\ RunInv /\ OwnInv /\ DesiredInv
  <1>1. Init => DInv
    BY InitInv DEF IInv
  <1>2. DInv /\ [Next]_vars => DInv'
    <2> SUFFICES ASSUME DInv, [Next]_vars PROVE DInv'
      OBVIOUS
    <2>1. TypeInv' /\ Step
      BY StepType
    <2> QED BY <2>1, RunStep, DesiredStep, TrustFactsHold
  <1>3. DInv => RestartKeepsSettings
    BY DEF DesiredInv, Recorded, RestartKeepsSettings, Quiet
  <1> HIDE DEF DInv
  <1> QED BY <1>1, <1>2, <1>3, PTL DEF Spec
=============================================================================
