------------------------ MODULE SecureRecordsProofs ------------------------
(***************************************************************************)
(* The replay window implements ReplayFilter for every window size, and a  *)
(* session delivers what SecureRecords promises, for any number of sending *)
(* goroutines, packets and faults, whatever the wire repeats and reorders. *)
(*                                                                         *)
(* The window's inductive invariant is TypeOK with RingMirrorsAccepted: a  *)
(* refinement step needs to know what a bit of the ring says of the number *)
(* it stands for, which no single answer of the window shows.  The records *)
(* add to it who holds which number (NonceInv), which packets a record may *)
(* hold (PacketInv), that what was opened came from records the window     *)
(* accepted (OpenInv), and where it is now (FlowInv).                      *)
(***************************************************************************)
EXTENDS SecureRecords, TLAPS

IInv == TypeOK /\ RingMirrorsAccepted

\* PhysicalBit stays on the ring, and two distances from the head have two bits.
LEMMA PhysicalBitInjective ==
    ASSUME NEW h \in Bits, NEW d \in Bits, NEW e \in Bits
    PROVE  PhysicalBit(h, d) \in Bits /\ (PhysicalBit(h, d) = PhysicalBit(h, e) => d = e)
BY WindowAssumption DEF PhysicalBit, Bits

\* Moving the head by shift keeps the distance of every bit that stays in the
\* window, and puts the first shift distances on the bits that are cleared.
LEMMA MovedHeadShifts ==
    ASSUME head \in Bits, NEW shift \in 1 .. Size - 1, NEW d \in Bits
    PROVE  LET h == MovedHead(shift) IN
           /\ h \in Bits
           /\ d >= shift => /\ PhysicalBit(h, d) = PhysicalBit(head, d - shift)
                            /\ PhysicalBit(h, d) \notin Circular(h, shift)
           /\ d < shift => PhysicalBit(h, d) \in Circular(h, shift)
<1> DEFINE h == MovedHead(shift)
<1>1. h = IF shift > head THEN head + (Size - shift) ELSE head - shift
  BY WindowAssumption DEF MovedHead
<1>2. h \in Bits
  BY <1>1, WindowAssumption DEF Bits
<1>3. d >= shift => PhysicalBit(h, d) = PhysicalBit(head, d - shift)
  BY <1>1, WindowAssumption DEF Bits, PhysicalBit
<1>. HIDE DEF h
<1>4. \A b \in Bits : b \in Circular(h, shift) <=>
          (h <= b /\ b < h + shift) \/ b < h + shift - Size
  BY <1>2, WindowAssumption DEF Bits, Circular, Run
<1>5. PhysicalBit(h, d) \in Bits
  BY <1>2, PhysicalBitInjective
<1>6. d >= shift => PhysicalBit(h, d) \notin Circular(h, shift)
  BY <1>2, <1>4, <1>5, WindowAssumption DEF Bits, PhysicalBit
<1>7. d < shift => PhysicalBit(h, d) \in Circular(h, shift)
  BY <1>2, <1>4, <1>5, WindowAssumption DEF Bits, PhysicalBit
<1>. QED
  BY <1>2, <1>3, <1>6, <1>7 DEF h

\* After a number above the highest, the ring mirrors what was accepted.
LEMMA AcceptHigherMirrors ==
    ASSUME IInv, NEW seq \in Nat, AcceptHigher(seq)
    PROVE  IInv'
<1> DEFINE shift == seq - highest
           h == MovedHead(shift)
<1>1. /\ highest \in Nat /\ head \in Bits /\ seen \subseteq Bits /\ accepted \subseteq Nat
      /\ seq \in Nat /\ shift \in Nat /\ shift >= 1 /\ 0 \in Bits
  BY WindowAssumption DEF IInv, TypeOK, AcceptHigher, Bits
<1>2. /\ highest' = seq /\ head' = h
      /\ seen' = Advanced(shift) \union {PhysicalBit(h, 0)}
      /\ accepted' = accepted \union {seq} /\ last' = [seq |-> seq, ok |-> TRUE]
  BY DEF AcceptHigher
<1>3. h \in Bits
  <2>1. CASE shift >= Size
    BY <2>1, <1>1 DEF MovedHead
  <2>2. CASE shift < Size
    <3>1. shift \in 1 .. Size - 1
      BY <2>2, <1>1, WindowAssumption
    <3>. QED BY <3>1, <1>1, MovedHeadShifts
  <2>. QED BY <2>1, <2>2, <1>1, WindowAssumption
<1>4. PhysicalBit(h, 0) \in Bits
  BY <1>1, <1>3, PhysicalBitInjective
<1>5. TypeOK'
  <2>1. Advanced(shift) \subseteq Bits
    BY <1>1 DEF Advanced
  <2>2. last' \in [seq : Nat, ok : BOOLEAN]
    BY <1>1, <1>2
  <2>. QED
    BY <2>1, <2>2, <1>1, <1>2, <1>3, <1>4 DEF TypeOK
<1>6. \A a \in accepted' : 0 < a /\ a <= highest'
  BY <1>1, <1>2 DEF IInv, RingMirrorsAccepted
<1>7. ASSUME NEW d \in Bits
      PROVE  PhysicalBit(h, d) \in seen' <=> d < seq /\ seq - d \in accepted'
  <2>1. d \in Nat /\ d < Size
    BY WindowAssumption DEF Bits
  <2>2. CASE d = 0
    BY <2>2, <1>1, <1>2
  <2>3. CASE d > 0 /\ d < shift
    <3>1. seq - d \notin accepted'
      BY <2>1, <2>3, <1>1, <1>2 DEF IInv, RingMirrorsAccepted
    <3>2. PhysicalBit(h, d) # PhysicalBit(h, 0)
      BY <2>3, <1>1, <1>3, PhysicalBitInjective
    <3>3. PhysicalBit(h, d) \notin Advanced(shift)
      <4>1. CASE shift >= Size
        BY <4>1 DEF Advanced
      <4>2. CASE shift < Size
        <5>1. shift \in 1 .. Size - 1
          BY <4>2, <1>1, WindowAssumption
        <5>. QED BY <5>1, <4>2, <2>3, <1>1, MovedHeadShifts DEF Advanced
      <4>. QED BY <4>1, <4>2, <1>1, WindowAssumption
    <3>. QED BY <3>1, <3>2, <3>3, <1>2
  <2>4. CASE d >= shift
    <3>1. shift \in 1 .. Size - 1 /\ d - shift \in Bits /\ ~(shift >= Size)
      BY <2>4, <2>1, <1>1, WindowAssumption DEF Bits
    <3>2. PhysicalBit(h, d) = PhysicalBit(head, d - shift) /\ PhysicalBit(h, d) \notin Circular(h, shift)
      BY <3>1, <2>4, <1>1, MovedHeadShifts
    <3>3. PhysicalBit(h, d) # PhysicalBit(h, 0)
      <4>1. d # 0
        BY <2>4, <2>1, <1>1
      <4>. QED BY <4>1, <1>1, <1>3, PhysicalBitInjective
    <3>4. PhysicalBit(h, d) \in seen' <=> PhysicalBit(head, d - shift) \in seen
      BY <3>1, <3>2, <3>3, <1>2 DEF Advanced
    <3>5. PhysicalBit(head, d - shift) \in seen <=>
              d - shift < highest /\ highest - (d - shift) \in accepted
      BY <3>1 DEF IInv, RingMirrorsAccepted
    <3>6. /\ d - shift < highest <=> d < seq
          /\ highest - (d - shift) = seq - d
          /\ seq - d # seq
      BY <2>4, <2>1, <1>1
    <3>. QED BY <3>4, <3>5, <3>6, <1>2
  <2>. QED BY <2>1, <2>2, <2>3, <2>4, <1>1
<1>8. RingMirrorsAccepted'
  BY <1>1, <1>2, <1>6, <1>7 DEF RingMirrorsAccepted, PhysicalBit, Bits
<1>. QED
  BY <1>5, <1>8 DEF IInv

\* After a number within the window, the ring mirrors what was accepted.
LEMMA AcceptLowerMirrors ==
    ASSUME IInv, NEW seq \in Nat, AcceptLower(seq)
    PROVE  IInv'
<1> DEFINE e == highest - seq
<1>1. /\ highest \in Nat /\ head \in Bits /\ seen \subseteq Bits /\ accepted \subseteq Nat
      /\ seq \in Nat /\ 0 < seq /\ seq <= highest /\ e \in Bits
  BY WindowAssumption DEF IInv, TypeOK, AcceptLower, Bits
<1>2. /\ highest' = highest /\ head' = head
      /\ seen' = seen \union {PhysicalBit(head, e)}
      /\ accepted' = accepted \union {seq} /\ last' = [seq |-> seq, ok |-> TRUE]
  BY DEF AcceptLower
<1>3. TypeOK'
  <2>1. last' \in [seq : Nat, ok : BOOLEAN]
    BY <1>1, <1>2
  <2>2. PhysicalBit(head, e) \in Bits
    BY <1>1, PhysicalBitInjective
  <2>. QED BY <2>1, <2>2, <1>1, <1>2 DEF TypeOK
<1>4. ASSUME NEW d \in Bits
      PROVE  PhysicalBit(head, d) \in seen' <=> d < highest /\ highest - d \in accepted'
  <2>1. d \in Nat
    BY WindowAssumption DEF Bits
  <2>2. PhysicalBit(head, d) = PhysicalBit(head, e) <=> d = e
    BY <1>1, PhysicalBitInjective
  <2>3. d = e <=> highest - d = seq
    BY <2>1, <1>1
  <2>4. d = e => d < highest
    BY <2>1, <1>1
  <2>. QED BY <2>2, <2>3, <2>4, <1>2 DEF IInv, RingMirrorsAccepted
<1>5. RingMirrorsAccepted'
  BY <1>1, <1>2, <1>4 DEF IInv, RingMirrorsAccepted, PhysicalBit, Bits
<1>. QED
  BY <1>3, <1>5 DEF IInv

\* A number that is refused changes nothing but the answer.
LEMMA RefuseMirrors ==
    ASSUME IInv, NEW seq \in Nat, Refuse(seq)
    PROVE  IInv'
<1>1. seq \in Nat
  BY WindowAssumption
<1>2. last' \in [seq : Nat, ok : BOOLEAN]
  BY <1>1 DEF Refuse
<1>. QED
  BY <1>2 DEF IInv, TypeOK, RingMirrorsAccepted, Refuse, PhysicalBit, Bits

\* The three answers together.
LEMMA AcceptMirrors ==
    ASSUME IInv, NEW seq \in Nat, Accept(seq)
    PROVE  IInv'
BY AcceptHigherMirrors, AcceptLowerMirrors, RefuseMirrors DEF Accept

\* The ring of advanceReplayWindowSeen and replayWindowAcceptLocked mirrors what
\* was accepted, whatever the window size and the order of the numbers.
THEOREM RingMirrors == Spec => [](TypeOK /\ RingMirrorsAccepted)
<1>1. Init => IInv
  BY WindowAssumption DEF Init, IInv, TypeOK, RingMirrorsAccepted, Bits, PhysicalBit
<1>2. IInv /\ [Next]_vars => IInv'
  <2>1. CASE UNCHANGED vars
    BY <2>1 DEF IInv, TypeOK, RingMirrorsAccepted, vars, PhysicalBit, Bits
  <2>2. CASE Next
    BY <2>2, AcceptMirrors, WindowAssumption DEF Next
  <2>. QED BY <2>1, <2>2
<1>. QED
  BY <1>1, <1>2, PTL DEF Spec, IInv

\* Every answer of the window is the one the filter gives.
LEMMA AcceptRefines ==
    ASSUME IInv, NEW seq \in Nat, Accept(seq)
    PROVE  Filter!Receive(seq)
<1>1. /\ highest \in Nat /\ head \in Bits /\ accepted \subseteq Nat /\ seq \in Nat
  BY WindowAssumption DEF IInv, TypeOK
<1>2. \A a \in accepted : 0 < a /\ a <= highest
  BY DEF IInv, RingMirrorsAccepted
<1>3. CASE AcceptHigher(seq)
  <2>1. Filter!Fresh(seq)
    BY <1>1, <1>2, <1>3, WindowAssumption DEF Filter!Fresh, AcceptHigher
  <2>. QED BY <2>1, <1>3 DEF Filter!Receive, AcceptHigher
<1>4. CASE seq > 0 /\ seq <= highest /\ highest - seq < Size
  <2>1. highest - seq \in Bits /\ highest - (highest - seq) = seq /\ highest - seq < highest
    BY <1>1, <1>4, WindowAssumption DEF Bits
  <2>2. PhysicalBit(head, highest - seq) \in seen <=> seq \in accepted
    BY <2>1 DEF IInv, RingMirrorsAccepted
  <2>3. \A a \in accepted : a < seq + Size
    BY <1>1, <1>2, <1>4, WindowAssumption
  <2>4. Filter!Fresh(seq) <=> PhysicalBit(head, highest - seq) \notin seen
    BY <2>2, <2>3, <1>4 DEF Filter!Fresh
  <2>5. CASE AcceptLower(seq)
    BY <2>4, <2>5, Zenon DEF AcceptLower, Filter!Receive
  <2>6. CASE Refuse(seq)
    <3>1. ~Filter!Fresh(seq)
      BY <2>4, <2>6, <1>1, <1>4, WindowAssumption DEF Refuse
    <3>2. Filter!Fresh(seq) = FALSE
      BY <3>1 DEF Filter!Fresh
    <3>. QED BY <3>1, <3>2, <2>6, Zenon DEF Refuse, Filter!Receive
  <2>. QED BY <2>5, <2>6, <1>3 DEF Accept
<1>5. CASE seq = 0 \/ (seq <= highest /\ highest - seq >= Size)
  <2>1. ~Filter!Fresh(seq)
    <3>1. CASE seq = 0
      BY <3>1 DEF Filter!Fresh
    <3>2. CASE seq <= highest /\ highest - seq >= Size
      <4>1. highest > 0 /\ ~(highest < seq + Size)
        BY <3>2, <1>1, WindowAssumption
      <4>. QED BY <4>1 DEF Filter!Fresh, IInv, RingMirrorsAccepted
    <3>. QED BY <3>1, <3>2, <1>5
  <2>2. ~AcceptLower(seq)
    BY <1>1, <1>5, WindowAssumption DEF AcceptLower
  <2>3. CASE Refuse(seq)
    <3>1. Filter!Fresh(seq) = FALSE
      BY <2>1 DEF Filter!Fresh
    <3>. QED BY <3>1, <2>1, <2>3, Zenon DEF Refuse, Filter!Receive
  <2>. QED BY <2>2, <2>3, <1>3 DEF Accept
<1>6. \/ seq > highest
      \/ seq = 0 \/ (seq <= highest /\ highest - seq >= Size)
      \/ (seq > 0 /\ seq <= highest /\ highest - seq < Size)
  BY <1>1, WindowAssumption
<1>7. CASE seq > highest
  <2>1. ~AcceptLower(seq) /\ ~Refuse(seq)
    BY <1>1, <1>7 DEF AcceptLower, Refuse
  <2>. QED BY <2>1, <1>3 DEF Accept
<1>. QED
  BY <1>4, <1>5, <1>6, <1>7

\* The window of the secure transport accepts each sequence number at most once
\* and refuses nothing that is new and within Size of the highest.
THEOREM WindowImplementsFilter == Spec => ImplementsFilter
<1>1. Init => Filter!Init
  BY DEF Init, Filter!Init
<1>2. IInv /\ [Next]_vars => [Filter!Next]_(Filter!vars)
  <2>1. CASE UNCHANGED vars
    BY <2>1 DEF vars, Filter!vars
  <2>2. ASSUME IInv, Next PROVE Filter!Next
    BY <2>2, AcceptRefines, WindowAssumption DEF Next, Filter!Next
  <2>. QED BY <2>1, <2>2
<1>3. Spec => []IInv
  BY RingMirrors DEF IInv
<1>. QED
  BY <1>1, <1>2, <1>3, PTL DEF Spec, ImplementsFilter, Filter!Spec

-----------------------------------------------------------------------------
\* What the provers need of sequences, stated once.
LEMMA ConcatInjective ==
    ASSUME NEW s \in Seq(Nat), NEW t \in Seq(Nat), IsInjective(s), IsInjective(t),
           \A i \in DOMAIN s, j \in DOMAIN t : s[i] # t[j]
    PROVE  IsInjective(s \o t)
<1>. SUFFICES ASSUME NEW a \in DOMAIN (s \o t), NEW b \in DOMAIN (s \o t), (s \o t)[a] = (s \o t)[b]
              PROVE  a = b
  BY DEF IsInjective
<1>1. a \in 1 .. Len(s) + Len(t) /\ b \in 1 .. Len(s) + Len(t)
  OBVIOUS
<1>2. \A i \in 1 .. Len(s) + Len(t) :
          /\ i <= Len(s) => i \in DOMAIN s /\ (s \o t)[i] = s[i]
          /\ i > Len(s) => i - Len(s) \in DOMAIN t /\ (s \o t)[i] = t[i - Len(s)]
  <2>. SUFFICES ASSUME NEW i \in 1 .. Len(s) + Len(t)
                PROVE  /\ i <= Len(s) => i \in DOMAIN s /\ (s \o t)[i] = s[i]
                       /\ i > Len(s) => i - Len(s) \in DOMAIN t /\ (s \o t)[i] = t[i - Len(s)]
    OBVIOUS
  <2>1. i <= Len(s) => i \in DOMAIN s
    OBVIOUS
  <2>2. i > Len(s) => i - Len(s) \in DOMAIN t
    OBVIOUS
  <2>3. (s \o t)[i] = IF i <= Len(s) THEN s[i] ELSE t[i - Len(s)]
    OBVIOUS
  <2>. QED BY <2>1, <2>2, <2>3
<1>3. CASE a <= Len(s) /\ b <= Len(s)
  BY <1>1, <1>2, <1>3 DEF IsInjective
<1>4. CASE a > Len(s) /\ b > Len(s)
  <2>1. a - Len(s) = b - Len(s)
    BY <1>1, <1>2, <1>4 DEF IsInjective
  <2>. QED BY <2>1, <1>1
<1>5. CASE a <= Len(s) /\ b > Len(s)
  BY <1>1, <1>2, <1>5
<1>6. CASE a > Len(s) /\ b <= Len(s)
  BY <1>1, <1>2, <1>6
<1>. QED
  BY <1>1, <1>3, <1>4, <1>5, <1>6

LEMMA PrefixInjective ==
    ASSUME NEW s \in Seq(Nat), NEW t \in Seq(Nat), IsInjective(s \o t)
    PROVE  IsInjective(s)
<1>1. \A i \in DOMAIN s : i \in DOMAIN (s \o t) /\ (s \o t)[i] = s[i]
  OBVIOUS
<1>. QED
  BY <1>1 DEF IsInjective

LEMMA Associative == \A s, t, u \in Seq(Nat) : (s \o t) \o u = s \o (t \o u)
<1> DEFINE Assoc(s, t, u) == (s \o t) \o u = s \o (t \o u)
<1>1. ASSUME NEW S, NEW s \in Seq(S), NEW t \in Seq(S), NEW u \in Seq(S)
      PROVE  Assoc(s, t, u)
  BY SMTT(60)
<1>. HIDE DEF Assoc
<1>2. \A s, t, u \in Seq(Nat) : Assoc(s, t, u)
  BY <1>1, Zenon
<1>. QED
  BY <1>2, Zenon DEF Assoc

LEMMA WithNothing == \A s \in Seq(Nat) : s \o <<>> = s /\ <<>> \o s = s
OBVIOUS

LEMMA SameElements ==
    ASSUME NEW S, NEW s \in Seq(S), NEW t \in Seq(S), Len(s) = Len(t), \A i \in 1..Len(t) : s[i] = t[i]
    PROVE  s = t
OBVIOUS

\* Cutting a sequence in two loses nothing of it.
LEMMA Joined ==
    ASSUME NEW S, NEW s \in Seq(S), NEW p \in Seq(S), NEW q \in Seq(S), Len(p) + Len(q) = Len(s),
           \A i \in 1..Len(p) : p[i] = s[i], \A i \in 1..Len(q) : q[i] = s[Len(p) + i]
    PROVE  p \o q = s
<1>1. p \o q \in Seq(S) /\ Len(p \o q) = Len(s)
  OBVIOUS
<1>2. ASSUME NEW i \in 1..Len(s) PROVE (p \o q)[i] = s[i]
  <2>1. CASE i <= Len(p)
    BY <2>1
  <2>2. CASE i > Len(p)
    <3>1. i - Len(p) \in 1..Len(q) /\ Len(p) + (i - Len(p)) = i
      BY <2>2
    <3>2. q[i - Len(p)] = s[i]
      BY <3>1
    <3>. QED BY <3>1, <3>2, <2>2
  <2>. QED BY <2>1, <2>2
<1>. QED
  BY <1>1, <1>2, SameElements, Zenon

LEMMA CutInTwo ==
    ASSUME NEW S, NEW s \in Seq(S), NEW n \in Nat, n <= Len(s)
    PROVE  /\ SubSeq(s, 1, n) \in Seq(S) /\ SubSeq(s, n + 1, Len(s)) \in Seq(S)
           /\ SubSeq(s, 1, n) \o SubSeq(s, n + 1, Len(s)) = s
<1> DEFINE p == SubSeq(s, 1, n)
           q == SubSeq(s, n + 1, Len(s))
<1>1. p \in Seq(S) /\ Len(p) = n /\ \A i \in 1..Len(p) : p[i] = s[i]
  OBVIOUS
<1>2. q \in Seq(S) /\ Len(q) = Len(s) - n /\ \A i \in 1..Len(q) : q[i] = s[n + i]
  OBVIOUS
<1>. HIDE DEF p, q
<1>3. p \o q = s
  <2>1. Len(p) + Len(q) = Len(s) /\ \A i \in 1..Len(q) : q[i] = s[Len(p) + i]
    BY <1>1, <1>2
  <2>. QED BY <2>1, <1>1, <1>2, Joined, Zenon
<1>. QED
  BY <1>1, <1>2, <1>3, Zenon DEF p, q

LEMMA AppendOne ==
    ASSUME NEW S, NEW t \in Seq(S), NEW x \in S
    PROVE  Append(t, x) \in Seq(S) /\ Append(t, x) = t \o <<x>>
OBVIOUS

LEMMA FirstAndRest ==
    ASSUME NEW s \in Seq(Nat), s # <<>>, NEW t \in Seq(Nat)
    PROVE  /\ s[1] \in Nat /\ Tail(s) \in Seq(Nat) /\ Append(t, s[1]) \in Seq(Nat)
           /\ Append(t, s[1]) \o Tail(s) = t \o s
<1>1. s[1] \in Nat /\ Tail(s) \in Seq(Nat) /\ Len(Tail(s)) = Len(s) - 1 /\ Len(s) \in Nat \ {0}
  OBVIOUS
<1>2. \A i \in 1 .. Len(s) - 1 : Tail(s)[i] = s[i + 1]
  OBVIOUS
<1>3. Append(t, s[1]) \in Seq(Nat) /\ Append(t, s[1]) = t \o <<s[1]>>
  BY <1>1, AppendOne, Zenon
<1>4. <<s[1]>> \in Seq(Nat) /\ <<s[1]>> \o Tail(s) = s
  <2> DEFINE h == <<s[1]>>
             r == Tail(s)
  <2>1. h \in Seq(Nat) /\ Len(h) = 1 /\ h[1] = s[1]
    BY <1>1
  <2>. HIDE DEF h, r
  <2>2. \A i \in 1..Len(h) : h[i] = s[i]
    BY <2>1
  <2>3. r \in Seq(Nat) /\ \A i \in 1..Len(r) : r[i] = s[Len(h) + i]
    BY <2>1, <1>1, <1>2 DEF r
  <2>4. Len(h) + Len(r) = Len(s)
    BY <2>1, <1>1 DEF r
  <2>5. h \in Seq(Nat)
    BY <2>1
  <2>6. h \o r = s
    BY <2>2, <2>3, <2>4, <2>5, Joined, ZenonT(60)
  <2>. QED BY <2>5, <2>6, Zenon DEF h, r
<1>5. (t \o <<s[1]>>) \o Tail(s) = t \o (<<s[1]>> \o Tail(s))
  BY <1>1, <1>4, Associative, Zenon
<1>. QED
  BY <1>1, <1>3, <1>4, <1>5, Zenon

-----------------------------------------------------------------------------
Recs == [seq : Nat, pkts : Seq(Nat)]

Holds(r, p) == \E i \in DOMAIN r.pkts : r.pkts[i] = p

\* A number is held by one sender or sealed into one record, and all of them
\* have been counted.
SendInv ==
    /\ sendSeq \in Nat /\ taken \in [Senders -> Nat]
    /\ sealed \subseteq Recs /\ wire \subseteq sealed
    /\ \A r \in sealed : 0 < r.seq /\ r.seq <= sendSeq
    /\ \A g \in Senders : taken[g] <= sendSeq /\ \A r \in sealed : taken[g] # r.seq
    /\ \A g, h \in Senders : taken[g] = taken[h] => g = h \/ taken[g] = 0
    /\ OneRecordPerNonce

\* A packet is in one place of one record.
PacketInv ==
    /\ packets \in Nat
    /\ \A r \in sealed : r.pkts # <<>> /\ IsInjective(r.pkts)
    /\ \A r \in sealed : \A p : Holds(r, p) => p <= packets
    /\ \A r1, r2 \in sealed : \A p : Holds(r1, p) /\ Holds(r2, p) => r1 = r2

\* What was opened came from records that the window accepted.
OpenInv ==
    /\ opened \in Seq(Nat) /\ IsInjective(opened)
    /\ \A k \in DOMAIN opened : \E r \in sealed : r.seq \in accepted /\ Holds(r, opened[k])

\* ... and was returned, is kept, or is held by the call under way.
FlowInv ==
    /\ recvPending \in Seq(Nat) /\ delivered \in Seq(Nat)
    /\ rx.got \in Seq(Nat) /\ rx.recs \in Seq(Recs) /\ rx = [recs |-> rx.recs, got |-> rx.got]
    /\ \A i \in 1..Len(rx.recs) : rx.recs[i] \in sealed
    /\ opened = (delivered \o recvPending) \o rx.got
    /\ recvPending = <<>> \/ rx = Idle

RInv == IInv /\ SendInv /\ PacketInv /\ OpenInv /\ FlowInv

LEMMA RInit == SInit => RInv
<1>. SUFFICES ASSUME SInit PROVE RInv
  OBVIOUS
<1>1. IInv
  BY WindowAssumption DEF SInit, Init, IInv, TypeOK, RingMirrorsAccepted, Bits, PhysicalBit
<1>2. SendInv
  BY DEF SInit, SendInv, OneRecordPerNonce
<1>3. PacketInv
  BY DEF SInit, PacketInv
<1>4. OpenInv
  BY DEF SInit, OpenInv, IsInjective
<1>5. FlowInv
  BY DEF SInit, FlowInv, Idle
<1>. QED
  BY <1>1, <1>2, <1>3, <1>4, <1>5 DEF RInv

\* Nothing but the records that were sealed, R, has changed: their packets are new.
Seals(R) ==
    /\ R \subseteq Recs /\ sealed' = sealed \union R /\ wire' \subseteq wire \union R
    /\ packets' \in Nat /\ packets <= packets'
    /\ \A r \in R : r.pkts # <<>> /\ IsInjective(r.pkts)
    /\ \A r \in R : \A p : Holds(r, p) => packets < p /\ p <= packets'
    /\ \A r1, r2 \in R : \A p : Holds(r1, p) /\ Holds(r2, p) => r1 = r2
    /\ UNCHANGED <<window, receiving>>

LEMMA SealsKeeps ==
    ASSUME RInv, NEW R, Seals(R)
    PROVE  IInv' /\ PacketInv' /\ OpenInv' /\ FlowInv'
<1>1. /\ highest' = highest /\ head' = head /\ seen' = seen /\ accepted' = accepted /\ last' = last
      /\ rx' = rx /\ recvPending' = recvPending /\ opened' = opened /\ delivered' = delivered
  BY DEF Seals, window, receiving
<1>2. IInv'
  BY <1>1 DEF RInv, IInv, TypeOK, RingMirrorsAccepted, PhysicalBit, Bits
<1>3. sealed' = sealed \union R /\ packets \in Nat /\ packets' \in Nat /\ packets <= packets'
  BY DEF RInv, PacketInv, Seals
<1>4. PacketInv'
  <2>1. \A r \in sealed' : r.pkts # <<>> /\ IsInjective(r.pkts)
    BY <1>3 DEF RInv, PacketInv, Seals
  <2>2. ASSUME NEW r \in sealed', NEW p, Holds(r, p) PROVE p <= packets'
    <3>1. r \in R => p <= packets'
      BY <2>2 DEF Seals
    <3>2. r \in sealed => p <= packets /\ p \in Nat
      BY <2>2 DEF RInv, PacketInv, SendInv, Holds, Recs
    <3>. QED BY <3>1, <3>2, <1>3
  <2>3. ASSUME NEW r1 \in sealed', NEW r2 \in sealed', NEW p, Holds(r1, p), Holds(r2, p) PROVE r1 = r2
    <3>1. r1 \in R /\ r2 \in R => r1 = r2
      BY <2>3 DEF Seals
    <3>2. r1 \in sealed /\ r2 \in sealed => r1 = r2
      BY <2>3 DEF RInv, PacketInv
    <3>3. \A r \in R : Holds(r, p) => p > packets
      BY DEF Seals
    <3>4. \A r \in sealed : Holds(r, p) => p <= packets /\ p \in Nat
      BY DEF RInv, PacketInv, SendInv, Holds, Recs
    <3>. QED BY <3>1, <3>2, <3>3, <3>4, <2>3, <1>3
  <2>. QED BY <2>1, <2>2, <2>3, <1>3 DEF PacketInv, Holds
<1>5. OpenInv'
  BY <1>1, <1>3 DEF RInv, OpenInv, Holds
<1>6. FlowInv'
  BY <1>1, <1>3, SMTT(30) DEF RInv, FlowInv, Idle
<1>. QED
  BY <1>2, <1>4, <1>5, <1>6

LEMMA TakeSeqInv ==
    ASSUME RInv, NEW g \in Senders, TakeSeq(g)
    PROVE  RInv'
<1>1. SendInv'
  <2>1. /\ sendSeq \in Nat /\ sendSeq' = sendSeq + 1 /\ sealed' = sealed /\ wire' = wire
        /\ taken \in [Senders -> Nat] /\ taken' = [taken EXCEPT ![g] = sendSeq + 1]
    BY DEF TakeSeq, RInv, SendInv
  <2>2. taken' \in [Senders -> Nat] /\ taken'[g] = sendSeq + 1 /\ \A h \in Senders \ {g} : taken'[h] = taken[h]
    BY <2>1
  <2>3. \A h \in Senders : taken[h] <= sendSeq /\ taken[h] \in Nat
    BY <2>1 DEF RInv, SendInv
  <2>4. \A r \in sealed : r.seq \in Nat /\ 0 < r.seq /\ r.seq <= sendSeq
    BY DEF RInv, SendInv, Recs
  <2>5. \A h \in Senders : taken'[h] <= sendSeq' /\ \A r \in sealed' : taken'[h] # r.seq
    BY <2>1, <2>2, <2>3, <2>4 DEF RInv, SendInv
  <2>6. \A h, k \in Senders : taken'[h] = taken'[k] => h = k \/ taken'[h] = 0
    BY <2>1, <2>2, <2>3 DEF RInv, SendInv
  <2>7. \A r \in sealed' : 0 < r.seq /\ r.seq <= sendSeq'
    BY <2>1, <2>4
  <2>. QED BY <2>1, <2>2, <2>5, <2>6, <2>7 DEF RInv, SendInv, OneRecordPerNonce
<1>2. Seals({})
  BY DEF TakeSeq, Seals, RInv, PacketInv
<1>. QED
  BY <1>1, <1>2, SealsKeeps DEF RInv

\* A record of one packet.
LEMMA OnePacket ==
    ASSUME NEW seq \in Nat, NEW n \in Nat
    PROVE  LET rec == Record(seq, <<n>>) IN
           /\ rec \in Recs /\ rec.seq = seq /\ rec.pkts # <<>> /\ IsInjective(rec.pkts)
           /\ \A p : Holds(rec, p) <=> p = n
BY DEF Record, Recs, IsInjective, Holds

LEMMA SendPacketInv ==
    ASSUME RInv, NEW g \in Senders, SendPacket(g)
    PROVE  RInv'
<1> DEFINE rec == Record(taken[g], <<packets + 1>>)
<1>1. /\ taken[g] \in Nat /\ taken[g] # 0 /\ packets \in Nat /\ sendSeq \in Nat /\ sendSeq' = sendSeq
      /\ taken \in [Senders -> Nat] /\ taken' = [taken EXCEPT ![g] = 0] /\ packets' = packets + 1
      /\ sealed' = sealed \union {rec} /\ wire' \subseteq wire \union {rec} /\ UNCHANGED <<window, receiving>>
  BY DEF SendPacket, RInv, SendInv, PacketInv
<1>2. /\ rec \in Recs /\ rec.seq = taken[g] /\ rec.pkts # <<>> /\ IsInjective(rec.pkts)
      /\ \A p : Holds(rec, p) <=> p = packets + 1
  <2>1. packets + 1 \in Nat
    BY <1>1
  <2>. QED BY <1>1, <2>1, OnePacket, Zenon
<1>. HIDE DEF rec
<1>3. Seals({rec})
  <2>1. packets' \in Nat /\ packets <= packets' /\ \A p : Holds(rec, p) => packets < p /\ p <= packets'
    BY <1>1, <1>2
  <2>. QED BY <1>1, <1>2, <2>1, Zenon DEF Seals
<1>4. SendInv'
  <2>1. taken' \in [Senders -> Nat] /\ taken'[g] = 0 /\ \A h \in Senders \ {g} : taken'[h] = taken[h]
    BY <1>1
  <2>2. \A r \in sealed : r.seq \in Nat /\ 0 < r.seq /\ r.seq <= sendSeq /\ r.seq # taken[g]
    BY DEF RInv, SendInv, Recs
  <2>3. \A h \in Senders : taken[h] <= sendSeq /\ (taken[h] = taken[g] => h = g)
    BY <1>1 DEF RInv, SendInv
  <2>4. \A r \in sealed' : 0 < r.seq /\ r.seq <= sendSeq'
    BY <2>2, <2>3, <1>1, <1>2
  <2>5. \A h \in Senders : taken'[h] <= sendSeq' /\ \A r \in sealed' : taken'[h] # r.seq
    BY <2>1, <2>2, <2>3, <1>1, <1>2 DEF RInv, SendInv
  <2>6. \A h, k \in Senders : taken'[h] = taken'[k] => h = k \/ taken'[h] = 0
    BY <2>1 DEF RInv, SendInv
  <2>7. OneRecordPerNonce'
    BY <2>2, <1>1, <1>2 DEF OneRecordPerNonce, RInv, SendInv
  <2>8. sealed' \subseteq Recs /\ wire' \subseteq sealed'
    BY <1>1, <1>2 DEF RInv, SendInv
  <2>. QED BY <2>1, <2>4, <2>5, <2>6, <2>7, <2>8, <1>1 DEF SendInv
<1>. QED
  BY <1>3, <1>4, SealsKeeps DEF RInv

\* Records sealed with numbers above all that were counted.
LEMMA FreshNumbers ==
    ASSUME RInv, NEW R, Seals(R), UNCHANGED taken, sendSeq' \in Nat, sendSeq <= sendSeq',
           \A r \in R : sendSeq < r.seq /\ r.seq <= sendSeq',
           \A r1, r2 \in R : r1.seq = r2.seq => r1 = r2
    PROVE  RInv'
<1>1. /\ sendSeq \in Nat /\ taken \in [Senders -> Nat] /\ sealed' = sealed \union R /\ R \subseteq Recs
      /\ sealed \subseteq Recs
  BY DEF RInv, SendInv, Seals
<1>2. \A r \in sealed : r.seq \in Nat /\ 0 < r.seq /\ r.seq <= sendSeq
  BY DEF RInv, SendInv, Recs
<1>3. \A r \in R : r.seq \in Nat
  BY <1>1 DEF Recs
<1>4. \A h \in Senders : taken[h] \in Nat /\ taken[h] <= sendSeq
  BY <1>1 DEF RInv, SendInv
<1>5. \A r \in sealed' : 0 < r.seq /\ r.seq <= sendSeq'
  BY <1>1, <1>2, <1>3
<1>6. \A h \in Senders : taken'[h] <= sendSeq' /\ \A r \in sealed' : taken'[h] # r.seq
  BY <1>1, <1>2, <1>3, <1>4 DEF RInv, SendInv
<1>7. OneRecordPerNonce'
  BY <1>1, <1>2, <1>3 DEF OneRecordPerNonce, RInv, SendInv
<1>8. sealed' \subseteq Recs /\ wire' \subseteq sealed'
  BY <1>1 DEF RInv, SendInv, Seals
<1>9. SendInv'
  BY <1>1, <1>5, <1>6, <1>7, <1>8 DEF SendInv, RInv
<1>. QED
  BY <1>9, SealsKeeps DEF RInv

LEMMA SendPacketsInv ==
    ASSUME RInv, NEW n \in 2..MaxPackets, SendPackets(n)
    PROVE  RInv'
<1> DEFINE rec(i) == Record(sendSeq + i, <<packets + i>>)
           R == {rec(i) : i \in 1..n}
<1>1. n \in Nat /\ sendSeq \in Nat /\ packets \in Nat
  <2>1. sendSeq \in Nat /\ packets \in Nat
    BY Zenon DEF RInv, SendInv, PacketInv
  <2>. QED BY <2>1
<1>2. /\ sendSeq' = sendSeq + n /\ packets' = packets + n /\ taken' = taken
      /\ sealed' = sealed \union R /\ wire' \subseteq wire \union R /\ UNCHANGED <<window, receiving>>
  <2> DEFINE recs == [i \in 1..n |-> rec(i)]
  <2>1. \A i \in 1..n : recs[i] = rec(i)
    OBVIOUS
  <2>2. PICK k \in 0..n : wire' = wire \union {recs[i] : i \in 1..k}
    BY SMTT(30) DEF SendPackets
  <2>3. sealed' = sealed \union {recs[i] : i \in 1..n}
    BY DEF SendPackets
  <2>. HIDE DEF recs, rec
  <2>4. {recs[i] : i \in 1..n} = R
    BY <2>1
  <2>5. \A i \in 1..k : i \in 1..n
    BY <1>1
  <2>6. {recs[i] : i \in 1..k} \subseteq R
    BY <2>1, <2>5
  <2>. QED BY <2>2, <2>3, <2>4, <2>6, Zenon DEF SendPackets
<1>3. ASSUME NEW i \in 1..n
      PROVE  /\ rec(i) \in Recs /\ rec(i).seq = sendSeq + i /\ rec(i).pkts # <<>> /\ IsInjective(rec(i).pkts)
             /\ \A p : Holds(rec(i), p) <=> p = packets + i
  <2>1. sendSeq + i \in Nat /\ packets + i \in Nat
    BY <1>1
  <2>. QED BY <2>1, OnePacket, Zenon
<1>. HIDE DEF rec
<1>4. ASSUME NEW r1 \in R, NEW r2 \in R, r1.seq = r2.seq \/ \E p : Holds(r1, p) /\ Holds(r2, p)
      PROVE  r1 = r2
  <2>1. PICK i \in 1..n : r1 = rec(i)
    OBVIOUS
  <2>2. PICK j \in 1..n : r2 = rec(j)
    OBVIOUS
  <2>3. sendSeq + i = sendSeq + j \/ packets + i = packets + j
    BY <2>1, <2>2, <1>3, <1>4
  <2>. QED BY <2>1, <2>2, <2>3, <1>1
<1>5. ASSUME NEW r \in R
      PROVE  /\ r \in Recs /\ sendSeq < r.seq /\ r.seq <= sendSeq' /\ r.pkts # <<>> /\ IsInjective(r.pkts)
             /\ \A p : Holds(r, p) => packets < p /\ p <= packets'
  <2>1. PICK i \in 1..n : r = rec(i)
    OBVIOUS
  <2>. QED BY <2>1, <1>1, <1>2, <1>3
<1>. HIDE DEF R
<1>6. packets' \in Nat /\ packets <= packets' /\ sendSeq' \in Nat /\ sendSeq <= sendSeq'
  BY <1>1, <1>2
<1>7. Seals(R)
  <2>1. R \subseteq Recs /\ \A r \in R : r.pkts # <<>> /\ IsInjective(r.pkts)
    BY <1>5, Zenon
  <2>2. \A r \in R : \A p : Holds(r, p) => packets < p /\ p <= packets'
    BY <1>5, Zenon
  <2>3. \A r1, r2 \in R : \A p : Holds(r1, p) /\ Holds(r2, p) => r1 = r2
    BY <1>4, Zenon
  <2>. QED BY <1>2, <1>6, <2>1, <2>2, <2>3, Zenon DEF Seals
<1>8. \A r \in R : sendSeq < r.seq /\ r.seq <= sendSeq'
  BY <1>5, Zenon
<1>9. \A r1, r2 \in R : r1.seq = r2.seq => r1 = r2
  BY <1>4, Zenon
<1>. QED
  BY <1>2, <1>6, <1>7, <1>8, <1>9, FreshNumbers, Zenon

LEMMA SendBatchRecordInv ==
    ASSUME RInv, NEW n \in 2..MaxPackets, SendBatchRecord(n)
    PROVE  RInv'
<1> DEFINE pkts == [i \in 1..n |-> packets + i]
           rec == Record(sendSeq + 1, pkts)
<1>1. n \in Nat /\ n >= 2 /\ sendSeq \in Nat /\ packets \in Nat
  BY DEF RInv, SendInv, PacketInv
<1>2. /\ sendSeq' = sendSeq + 1 /\ packets' = packets + n /\ taken' = taken
      /\ sealed' = sealed \union {rec} /\ wire' \subseteq wire \union {rec} /\ UNCHANGED <<window, receiving>>
  BY DEF SendBatchRecord
<1>3. pkts \in Seq(Nat) /\ DOMAIN pkts = 1..n /\ pkts # <<>> /\ IsInjective(pkts)
  BY <1>1 DEF IsInjective
<1>4. rec \in Recs /\ rec.seq = sendSeq + 1 /\ rec.pkts = pkts
  BY <1>1, <1>3 DEF Record, Recs
<1>5. \A p : Holds(rec, p) => packets < p /\ p <= packets'
  BY <1>1, <1>2, <1>4 DEF Holds
<1>. HIDE DEF rec, pkts
<1>6. /\ packets' \in Nat /\ packets <= packets' /\ sendSeq' \in Nat /\ sendSeq <= sendSeq'
      /\ sendSeq < rec.seq /\ rec.seq <= sendSeq'
  BY <1>1, <1>2, <1>4
<1>7. Seals({rec})
  <2>1. {rec} \subseteq Recs /\ \A r \in {rec} : r.pkts # <<>> /\ IsInjective(r.pkts)
    BY <1>3, <1>4, Zenon
  <2>. QED BY <1>2, <1>5, <1>6, <2>1, Zenon DEF Seals
<1>. QED
  BY <1>2, <1>6, <1>7, FreshNumbers, Zenon

-----------------------------------------------------------------------------
\* What an answer of the window says of the numbers that were accepted.
LEMMA AcceptOnce ==
    ASSUME IInv, NEW seq \in Nat, Accept(seq)
    PROVE  /\ IInv' /\ last'.ok \in BOOLEAN
           /\ last'.ok => seq \notin accepted /\ accepted' = accepted \union {seq}
           /\ ~last'.ok => accepted' = accepted
<1>1. IInv' /\ Filter!Receive(seq)
  BY AcceptMirrors, AcceptRefines
<1>2. Filter!Fresh(seq) \in BOOLEAN
  BY DEF Filter!Fresh
<1>3. Filter!Fresh(seq) => seq \notin accepted
  BY DEF Filter!Fresh
<1>. QED
  BY <1>1, <1>2, <1>3 DEF Filter!Receive

\* The packets of a record that the window accepts are new.
LEMMA OpenRecord ==
    ASSUME RInv, NEW rec \in sealed, Accept(rec.seq), sealed' = sealed,
           opened' = IF last'.ok THEN opened \o rec.pkts ELSE opened
    PROVE  IInv' /\ OpenInv'
<1>1. /\ rec.seq \in Nat /\ rec.pkts \in Seq(Nat) /\ IsInjective(rec.pkts)
      /\ opened \in Seq(Nat) /\ IsInjective(opened)
  BY DEF RInv, SendInv, PacketInv, OpenInv, Recs
<1>2. /\ IInv' /\ last'.ok \in BOOLEAN
      /\ last'.ok => rec.seq \notin accepted /\ accepted' = accepted \union {rec.seq}
      /\ ~last'.ok => accepted' = accepted
  BY <1>1, AcceptOnce DEF RInv
<1>3. \A k \in DOMAIN opened : \E r \in sealed : r.seq \in accepted' /\ Holds(r, opened[k])
  BY <1>2 DEF RInv, OpenInv
<1> DEFINE From(k) == \E r \in sealed : r.seq \in accepted' /\ Holds(r, opened'[k])
<1>4. opened' \in Seq(Nat) /\ IsInjective(opened') /\ (\A k \in DOMAIN opened' : From(k)) => OpenInv'
  BY Zenon DEF OpenInv, Holds, IsInjective
<1>5. CASE ~last'.ok
  <2>1. opened' = opened
    BY <1>5
  <2>. QED BY <2>1, <1>1, <1>2, <1>3, <1>4, Zenon
<1>6. CASE last'.ok
  <2>1. opened' = opened \o rec.pkts
    BY <1>6
  <2>2. \A j \in DOMAIN rec.pkts : Holds(rec, rec.pkts[j])
    BY DEF Holds
  <2>3. ASSUME NEW i \in DOMAIN opened, NEW j \in DOMAIN rec.pkts, opened[i] = rec.pkts[j] PROVE FALSE
    <3>1. PICK r \in sealed : r.seq \in accepted /\ Holds(r, opened[i])
      BY DEF RInv, OpenInv
    <3>2. Holds(rec, opened[i])
      BY <2>2, <2>3
    <3>3. r = rec
      BY <3>1, <3>2 DEF RInv, PacketInv
    <3>. QED BY <3>1, <3>3, <1>2, <1>6
  <2>4. opened' \in Seq(Nat) /\ IsInjective(opened')
    BY <2>1, <2>3, <1>1, ConcatInjective
  <2>5. ASSUME NEW k \in DOMAIN opened'
        PROVE  \E r \in sealed : r.seq \in accepted' /\ Holds(r, opened'[k])
    <3>1. \/ k \in DOMAIN opened /\ opened'[k] = opened[k]
          \/ k - Len(opened) \in DOMAIN rec.pkts /\ opened'[k] = rec.pkts[k - Len(opened)]
      BY <2>1, <1>1
    <3>2. CASE k \in DOMAIN opened /\ opened'[k] = opened[k]
      BY <3>2, <1>3
    <3>3. CASE k - Len(opened) \in DOMAIN rec.pkts /\ opened'[k] = rec.pkts[k - Len(opened)]
      BY <3>3, <2>2, <1>2, <1>6
    <3>. QED BY <3>1, <3>2, <3>3
  <2>. QED BY <2>4, <2>5, <1>2, <1>4, Zenon
<1>. QED
  BY <1>2, <1>5, <1>6

\* Nothing was sealed and the window did not move: what is sent and opened stays.
LEMMA QuietSending ==
    ASSUME RInv, UNCHANGED sending
    PROVE  SendInv' /\ PacketInv' /\ sealed' = sealed /\ packets' = packets /\ wire' = wire
BY DEF RInv, sending, SendInv, OneRecordPerNonce, PacketInv, Holds

LEMMA QuietWindow ==
    ASSUME RInv, UNCHANGED window, UNCHANGED sending, opened' = opened
    PROVE  IInv' /\ OpenInv'
<1>1. IInv'
  BY DEF RInv, IInv, TypeOK, RingMirrorsAccepted, PhysicalBit, Bits, window
<1>2. OpenInv'
  BY DEF RInv, OpenInv, Holds, window, sending
<1>. QED
  BY <1>1, <1>2

\* Between two calls.
LEMMA IdleFlow ==
    ASSUME rx' = Idle, delivered' \in Seq(Nat), recvPending' \in Seq(Nat), opened' = delivered' \o recvPending'
    PROVE  FlowInv'
<1>1. rx'.got = <<>> /\ rx'.recs = <<>> /\ rx'.recs \in Seq(Recs) /\ rx'.got \in Seq(Nat)
  BY DEF Idle
<1>2. opened' = (delivered' \o recvPending') \o rx'.got
  BY <1>1
<1>. QED
  BY <1>1, <1>2 DEF FlowInv, Idle

LEMMA TakePendingInv ==
    ASSUME RInv, NEW max \in Nat, TakePending(max)
    PROVE  RInv'
<1> DEFINE n == IF max <= Len(recvPending) THEN max ELSE Len(recvPending)
           p == SubSeq(recvPending, 1, n)
           q == SubSeq(recvPending, n + 1, Len(recvPending))
<1>1. recvPending \in Seq(Nat) /\ delivered \in Seq(Nat) /\ n \in Nat /\ n <= Len(recvPending)
  BY DEF RInv, FlowInv
<1>2. /\ delivered' = delivered \o p /\ recvPending' = q /\ rx = Idle /\ rx' = rx /\ opened' = opened
      /\ UNCHANGED window /\ UNCHANGED sending
  BY DEF TakePending, Ready
<1>. HIDE DEF n
<1>3. p \in Seq(Nat) /\ q \in Seq(Nat) /\ p \o q = recvPending
  BY <1>1, CutInTwo, Zenon
<1>. HIDE DEF p, q
<1>4. delivered' \in Seq(Nat) /\ recvPending' \in Seq(Nat)
  BY <1>1, <1>2, <1>3
<1>5. delivered' \o recvPending' = delivered \o recvPending
  BY <1>1, <1>2, <1>3, Associative, Zenon
<1>6. SendInv' /\ PacketInv' /\ IInv' /\ OpenInv' /\ sealed' = sealed
  BY <1>2, QuietSending, QuietWindow
<1>7. FlowInv'
  BY <1>2, <1>4, <1>5, <1>6, Zenon DEF RInv, FlowInv, Idle
<1>. QED
  BY <1>6, <1>7 DEF RInv

LEMMA RecvPacketInv ==
    ASSUME RInv, NEW rec \in wire, RecvPacket(rec)
    PROVE  RInv'
<1>1. /\ rec \in sealed /\ rec.pkts \in Seq(Nat) /\ rec.pkts # <<>>
      /\ delivered \in Seq(Nat) /\ opened \in Seq(Nat)
  BY DEF RInv, SendInv, PacketInv, FlowInv, OpenInv, Recs
<1>2. /\ recvPending = <<>> /\ rx = Idle /\ rx' = rx /\ UNCHANGED sending /\ Accept(rec.seq)
      /\ opened' = IF last'.ok THEN opened \o rec.pkts ELSE opened
      /\ delivered' = IF last'.ok THEN Append(delivered, rec.pkts[1]) ELSE delivered
      /\ recvPending' = IF last'.ok THEN Tail(rec.pkts) ELSE recvPending
  BY DEF RecvPacket, Ready
<1>3. SendInv' /\ PacketInv' /\ sealed' = sealed
  BY <1>2, QuietSending
<1>4. IInv' /\ OpenInv'
  BY <1>1, <1>2, <1>3, OpenRecord
<1>5. /\ rec.pkts[1] \in Nat /\ Tail(rec.pkts) \in Seq(Nat) /\ Append(delivered, rec.pkts[1]) \in Seq(Nat)
      /\ Append(delivered, rec.pkts[1]) \o Tail(rec.pkts) = delivered \o rec.pkts
  BY <1>1, FirstAndRest, Zenon
<1>6. opened = delivered
  <2>1. opened = (delivered \o recvPending) \o rx.got
    BY Zenon DEF RInv, FlowInv
  <2>2. rx.got = <<>>
    BY <1>2 DEF Idle
  <2>. QED BY <1>1, <1>2, <2>1, <2>2, WithNothing, Zenon
<1>7. opened' = delivered' \o recvPending' /\ delivered' \in Seq(Nat) /\ recvPending' \in Seq(Nat)
  <2>1. CASE last'.ok
    BY <2>1, <1>2, <1>5, <1>6, Zenon
  <2>2. CASE ~last'.ok
    <3>1. opened' = delivered /\ delivered' = delivered /\ recvPending' = <<>>
      BY <2>2, <1>2, <1>6
    <3>. QED BY <3>1, <1>1, WithNothing
  <2>. QED BY <2>1, <2>2
<1>8. FlowInv'
  BY <1>2, <1>7, IdleFlow, Zenon
<1>. QED
  BY <1>3, <1>4, <1>8 DEF RInv

LEMMA RecvFailsInv ==
    ASSUME RInv, RecvFails
    PROVE  RInv'
<1>1. SendInv' /\ PacketInv' /\ IInv' /\ OpenInv' /\ sealed' = sealed
  BY QuietSending, QuietWindow DEF RecvFails
<1>2. FlowInv'
  BY <1>1 DEF RecvFails, RInv, FlowInv, Idle
<1>. QED
  BY <1>1, <1>2 DEF RInv

LEMMA OpenBatchInv ==
    ASSUME RInv, NEW n \in 1..MaxBatch, NEW recs \in [1..n -> wire], OpenBatch(recs)
    PROVE  RInv'
<1>1. SendInv' /\ PacketInv' /\ IInv' /\ OpenInv' /\ sealed' = sealed
  BY QuietSending, QuietWindow DEF OpenBatch
<1>2. n \in Nat
  BY RecordsAssumption
<1>3. recs \in Seq(Recs) /\ Len(recs) = n /\ \A i \in 1..n : recs[i] \in sealed
  BY <1>2 DEF RInv, SendInv
<1>4. /\ recvPending = <<>> /\ rx = Idle /\ rx' = [recs |-> recs, got |-> <<>>]
      /\ opened' = opened /\ delivered' = delivered /\ recvPending' = recvPending
  BY DEF OpenBatch, Ready
<1>5. FlowInv'
  BY <1>1, <1>3, <1>4 DEF RInv, FlowInv, Idle
<1>. QED
  BY <1>1, <1>5 DEF RInv

LEMMA AcceptRecordInv ==
    ASSUME RInv, AcceptRecord
    PROVE  RInv'
<1> DEFINE rec == Head(rx.recs)
<1>1. /\ rx.recs \in Seq(Recs) /\ rx.recs # <<>> /\ rx.got \in Seq(Nat) /\ delivered \in Seq(Nat)
      /\ \A i \in 1..Len(rx.recs) : rx.recs[i] \in sealed
  BY DEF RInv, FlowInv, AcceptRecord
<1>2. /\ Accept(rec.seq) /\ UNCHANGED sending
      /\ opened' = IF last'.ok THEN opened \o rec.pkts ELSE opened
      /\ rx' = [recs |-> Tail(rx.recs), got |-> IF last'.ok THEN rx.got \o rec.pkts ELSE rx.got]
      /\ recvPending' = recvPending /\ delivered' = delivered
  BY DEF AcceptRecord
<1>3. /\ rec \in sealed /\ Tail(rx.recs) \in Seq(Recs)
      /\ \A i \in 1..Len(Tail(rx.recs)) : Tail(rx.recs)[i] \in sealed
  BY <1>1
<1>. HIDE DEF rec
<1>4. rec.pkts \in Seq(Nat)
  BY <1>3 DEF RInv, SendInv, Recs
<1>5. SendInv' /\ PacketInv' /\ sealed' = sealed
  BY <1>2, QuietSending
<1>6. IInv' /\ OpenInv'
  BY <1>2, <1>3, <1>5, OpenRecord
<1>7. recvPending = <<>>
  BY <1>1 DEF RInv, FlowInv, Idle
<1>8. opened = delivered \o rx.got
  BY <1>1, <1>7 DEF RInv, FlowInv
<1>9. opened' = delivered' \o rx'.got /\ rx'.got \in Seq(Nat)
  <2>1. CASE last'.ok
    <3>1. opened' = (delivered \o rx.got) \o rec.pkts /\ rx'.got = rx.got \o rec.pkts
      BY <2>1, <1>2, <1>8, Zenon
    <3>2. (delivered \o rx.got) \o rec.pkts = delivered \o (rx.got \o rec.pkts)
      BY <1>1, <1>4, Associative, Zenon
    <3>3. rx.got \o rec.pkts \in Seq(Nat)
      BY <1>1, <1>4
    <3>. QED BY <3>1, <3>2, <3>3, <1>2, Zenon
  <2>2. CASE ~last'.ok
    <3>1. rx'.got = rx.got /\ opened' = opened /\ delivered' = delivered
      BY <2>2, <1>2
    <3>. QED BY <3>1, <1>1, <1>8, Zenon
  <2>. QED BY <2>1, <2>2
<1>10. FlowInv'
  <2>1. rx'.recs = Tail(rx.recs) /\ rx' = [recs |-> rx'.recs, got |-> rx'.got]
    BY <1>2
  <2>2. recvPending' \in Seq(Nat) /\ delivered' \in Seq(Nat) /\ recvPending' = <<>>
    <3>1. <<>> \in Seq(Nat)
      OBVIOUS
    <3>. QED BY <3>1, <1>1, <1>2, <1>7, Zenon
  <2>3. opened' = (delivered' \o recvPending') \o rx'.got
    BY <2>2, <1>9, WithNothing, Zenon
  <2>. QED BY <2>1, <2>2, <2>3, <1>3, <1>5, <1>9 DEF FlowInv
<1>. QED
  BY <1>5, <1>6, <1>10 DEF RInv

LEMMA LimitBatchInv ==
    ASSUME RInv, LimitBatch
    PROVE  RInv'
<1> DEFINE n == IF MaxBatch < Len(rx.got) THEN MaxBatch ELSE Len(rx.got)
           p == SubSeq(rx.got, 1, n)
           q == SubSeq(rx.got, n + 1, Len(rx.got))
<1>1. rx.got \in Seq(Nat) /\ rx.got # <<>> /\ delivered \in Seq(Nat) /\ n \in Nat /\ n <= Len(rx.got)
  BY RecordsAssumption DEF RInv, FlowInv, LimitBatch
<1>2. /\ delivered' = delivered \o p /\ recvPending' = q /\ rx' = Idle /\ opened' = opened
      /\ UNCHANGED window /\ UNCHANGED sending
  BY DEF LimitBatch
<1>. HIDE DEF n
<1>3. p \in Seq(Nat) /\ q \in Seq(Nat) /\ p \o q = rx.got
  BY <1>1, CutInTwo, Zenon
<1>. HIDE DEF p, q
<1>4. delivered' \in Seq(Nat) /\ recvPending' \in Seq(Nat)
  BY <1>1, <1>2, <1>3
<1>5. recvPending = <<>>
  BY <1>1 DEF RInv, FlowInv, Idle
<1>6. opened' = delivered' \o recvPending'
  <2>1. opened = delivered \o rx.got
    BY <1>1, <1>5 DEF RInv, FlowInv
  <2>2. (delivered \o p) \o q = delivered \o (p \o q)
    BY <1>1, <1>3, Associative, Zenon
  <2>. QED BY <2>1, <2>2, <1>2, <1>3, Zenon
<1>7. SendInv' /\ PacketInv' /\ IInv' /\ OpenInv' /\ sealed' = sealed
  BY <1>2, QuietSending, QuietWindow
<1>8. FlowInv'
  BY <1>2, <1>4, <1>6, IdleFlow
<1>. QED
  BY <1>7, <1>8 DEF RInv

\* A session seals one record for each number, returns no packet twice and loses
\* none of an accepted record, with any number of goroutines in SendPacket,
\* SendPackets and sendSecureBatchRecord and whatever the wire repeats, reorders
\* or loses on the way to RecvPacket and RecvPackets.
THEOREM SessionDelivers == SSpec => []RecordsDelivered
<1>1. RInv /\ [SNext]_allVars => RInv'
  <2>. SUFFICES ASSUME RInv, [SNext]_allVars PROVE RInv'
    OBVIOUS
  <2>1. CASE UNCHANGED allVars
    <3>1. SendInv' /\ PacketInv' /\ IInv' /\ OpenInv' /\ sealed' = sealed
      BY <2>1, QuietSending, QuietWindow DEF allVars, receiving
    <3>2. FlowInv'
      BY <3>1, <2>1 DEF allVars, receiving, RInv, FlowInv, Idle
    <3>. QED BY <3>1, <3>2 DEF RInv
  <2>2. ASSUME NEW g \in Senders, TakeSeq(g) \/ SendPacket(g) PROVE RInv'
    BY <2>2, TakeSeqInv, SendPacketInv
  <2>3. ASSUME NEW n \in 2..MaxPackets, SendPackets(n) \/ SendBatchRecord(n) PROVE RInv'
    BY <2>3, SendPacketsInv, SendBatchRecordInv
  <2>4. ASSUME NEW max \in {1, MaxBatch}, TakePending(max) PROVE RInv'
    BY <2>4, TakePendingInv, RecordsAssumption
  <2>5. ASSUME NEW rec \in wire, RecvPacket(rec) PROVE RInv'
    BY <2>5, RecvPacketInv
  <2>6. ASSUME NEW n \in 1..MaxBatch, NEW recs \in [1..n -> wire], OpenBatch(recs) PROVE RInv'
    BY <2>6, OpenBatchInv
  <2>. QED
    BY <2>1, <2>2, <2>3, <2>4, <2>5, <2>6, RecvFailsInv, AcceptRecordInv, LimitBatchInv DEF SNext
<1>2. RInv => RecordsDelivered
  <2>. SUFFICES ASSUME RInv PROVE RecordsDelivered
    OBVIOUS
  <2>1. OneRecordPerNonce
    BY DEF RInv, SendInv
  <2>2. /\ delivered \o recvPending \in Seq(Nat) /\ rx.got \in Seq(Nat)
        /\ opened = (delivered \o recvPending) \o rx.got
    BY DEF RInv, FlowInv
  <2>3. DeliveredOnce
    BY <2>2, PrefixInjective, Zenon DEF RInv, OpenInv, DeliveredOnce
  <2>4. NothingCutOff
    BY <2>2 DEF NothingCutOff, Idle
  <2>. QED BY <2>1, <2>3, <2>4 DEF RecordsDelivered
<1>. QED
  BY <1>1, <1>2, RInit, PTL DEF SSpec
=============================================================================
