--------------------------- MODULE TrustMutations ---------------------------
(***************************************************************************)
(* The administrator's mutations of the domain trust resource on one IX: a *)
(* handler copies desired.Trust under the read lock, changes its copy with *)
(* no lock, and applies it under the write lock.  The copy is of a struct: *)
(* its list of trust roots is a slice that shares the array of the one in  *)
(* force, so arrays and slices are modelled; the revoked fingerprints and  *)
(* the policy are copied by NormalizeTrust before they change.  Meanwhile  *)
(* events of other IXs are pulled, and the daemon restarts.                *)
(***************************************************************************)
EXTENDS Naturals, Sequences, FiniteSets, SequencesExt

CONSTANTS
    Roots,        \* trust roots, numbers in the order of their fingerprints
    Certs,        \* certificates that may be revoked
    Policies,     \* administrator policies
    Handlers,     \* requests that may be under way at once
    Pulled,       \* trust values other IXs write: [roots, revoked, policy]
    MaxRequests,  \* bound: requests
    MaxPulls,     \* bound: pulled events
    MaxRestarts,  \* bound: restarts
    MaxFailures   \* bound: appends that fail

VARIABLES
    mem,      \* arrays of roots, each as long as its capacity; 0 is a free slot
    desired,  \* desired.Trust: the slice [arr, len] of its roots, revoked, policy
    log,      \* the trust of the last event: [roots, revoked, policy]
    past,     \* the trusts of the events so far
    stale,    \* history: a restart put an older trust than log's in force
    handler,  \* [at, op, arg, trust] of each request
    asked,    \* history: certificates whose revocation was acknowledged and neither
              \* taken back nor undone by another IX's event or a restart
    requests, pulls, restarts, failures

vars == <<mem, desired, log, past, stale, handler, asked, requests, pulls, restarts, failures>>

\* The roots a slice shows.
View(mm, t) == SubSeq(mm[t.arr], 1, t.len)

\* Writing seq from the start of the array of t.
Overwritten(mm, t, seq) ==
    [mm EXCEPT ![t.arr] = [i \in DOMAIN @ |-> IF i <= Len(seq) THEN seq[i] ELSE @[i]]]

\* Sorted by fingerprint.
Sorted(seq) == SortSeq(seq, <)

\* A fresh array for seq, with or without room for one more.
Fresh(seq) == {seq, Append(seq, 0)}

\* NormalizeTrust sorts the roots and writes them back to the same array.
Normalized(mm, t) == Overwritten(mm, t, Sorted(View(mm, t)))

Value(mm, t) == [roots |-> View(mm, t), revoked |-> t.revoked, policy |-> t.policy]

\* parseDomainTrustPayload: a trust of its own, in an array of its own.
Parsed(v, arr) == [arr |-> arr, len |-> Len(v.roots), revoked |-> v.revoked, policy |-> v.policy]

NoRequest == [at |-> "idle", op |-> "none", arg |-> 0, trust |-> Parsed([roots |-> <<>>, revoked |-> {}, policy |-> 0], 1)]

\* A domain whose trust event names every root.
Init ==
    /\ \E p \in Policies : log = [roots |-> Sorted(SetToSeq(Roots)), revoked |-> {}, policy |-> p]
    /\ \E a \in Fresh(log.roots) : mem = <<a>>
    /\ desired = Parsed(log, 1) /\ past = {log} /\ stale = FALSE
    /\ handler = [h \in Handlers |-> NoRequest]
    /\ asked = {} /\ requests = 0 /\ pulls = 0 /\ restarts = 0 /\ failures = 0

Requests ==
    [op : {"add", "remove"}, arg : Roots] \union [op : {"revoke", "unrevoke"}, arg : Certs]
        \union [op : {"policy"}, arg : Policies]

\* The copy under the read lock.
Read(h) ==
    /\ handler[h].at = "idle" /\ requests < MaxRequests /\ requests' = requests + 1
    /\ \E r \in Requests :
         /\ handler' = [handler EXCEPT ![h] = [at |-> "read", op |-> r.op, arg |-> r.arg, trust |-> desired]]
         /\ asked' = IF r.op = "unrevoke" THEN asked \ {r.arg} ELSE asked
    /\ UNCHANGED <<mem, desired, log, past, stale, pulls, restarts, failures>>

\* handleTrustRootRemove: the roots that stay are moved to the front of the array.
RemoveRoot(t, r) ==
    LET kept == SelectSeq(View(mem, t), LAMBDA x : x # r) IN
    {[mem |-> Overwritten(mem, t, kept), trust |-> [t EXCEPT !.len = Len(kept)]]}

\* handleTrustRootAdd: append writes behind the slice, or moves to a larger array.
AddRoot(t, r) ==
    IF t.len < Len(mem[t.arr])
    THEN {[mem |-> [mem EXCEPT ![t.arr][t.len + 1] = r], trust |-> [t EXCEPT !.len = @ + 1]]}
    ELSE {[mem |-> Append(mem, a), trust |-> [t EXCEPT !.arr = Len(mem) + 1, !.len = @ + 1]]
            : a \in Fresh(Append(View(mem, t), r))}

\* What a handler makes of its copy, and of the arrays.
Changes(t, op, arg) ==
    CASE op = "remove"   -> RemoveRoot(t, arg)
      [] op = "add"      -> AddRoot(t, arg)
      [] op = "revoke"   -> {[mem |-> Normalized(mem, t), trust |-> [t EXCEPT !.revoked = @ \union {arg}]]}
      [] op = "unrevoke" -> {[mem |-> Normalized(mem, t), trust |-> [t EXCEPT !.revoked = @ \ {arg}]]}
      [] op = "policy"   -> {[mem |-> mem, trust |-> [t EXCEPT !.policy = arg]]}

\* The change, with no lock held.
Change(h) ==
    /\ handler[h].at = "read"
    /\ \E c \in Changes(handler[h].trust, handler[h].op, handler[h].arg) :
         mem' = c.mem /\ handler' = [handler EXCEPT ![h].at = "changed", ![h].trust = c.trust]
    /\ UNCHANGED <<desired, log, past, stale, asked, requests, pulls, restarts, failures>>

Valid(v) == \A i, j \in DOMAIN v.roots : i # j => v.roots[i] # v.roots[j]

\* Mutant: the revocations are not compared.
EqualButRevoked(v, w) == v.roots = w.roots /\ v.policy = w.policy

\* trustConfigsEqual on normalized values.
Equal(v, w) == v = w

Done(h) == handler' = [handler EXCEPT ![h] = NoRequest]

Acknowledged(h) == IF handler[h].op = "revoke" THEN asked \union {handler[h].arg} ELSE asked

\* Mutant: the trust is put in force before the event is appended.
ApplyFailsLate(h) ==
    /\ handler[h].at = "changed" /\ failures < MaxFailures /\ failures' = failures + 1
    /\ mem' = Normalized(mem, handler[h].trust) /\ Valid(Value(mem', handler[h].trust))
    /\ desired' = handler[h].trust /\ Done(h)
    /\ UNCHANGED <<log, past, stale, asked, requests, pulls, restarts>>

\* applyTrustConfigLocked when the proofs are refused or the append fails.
ApplyFails(h) ==
    /\ handler[h].at = "changed" /\ failures < MaxFailures /\ failures' = failures + 1
    /\ mem' = Normalized(mem, handler[h].trust) /\ Done(h)
    /\ UNCHANGED <<desired, log, past, stale, asked, requests, pulls, restarts>>

\* applyTrustConfigLocked: normalize, validate, compare, append, put in force.
Apply(h) ==
    LET t == handler[h].trust
        sorted == Normalized(mem, t)
        both == Normalized(sorted, desired)
        new == Value(sorted, t) IN
    /\ handler[h].at = "changed" /\ Done(h)
    /\ IF ~Valid(new)
       THEN mem' = sorted /\ UNCHANGED <<desired, log, past, stale, asked>>
       ELSE /\ mem' = both /\ asked' = Acknowledged(h)
            /\ IF Equal(Value(both, desired), Value(both, t))
               THEN UNCHANGED <<desired, log, past, stale>>
               ELSE /\ desired' = t /\ log' = Value(both, t)
                    /\ past' = past \union {log'} /\ stale' = FALSE
    /\ UNCHANGED <<requests, pulls, restarts, failures>>

\* applyLatestDomainTrustFromLogLocked after events of another IX were appended.
Pull ==
    /\ pulls < MaxPulls /\ pulls' = pulls + 1
    /\ \E v \in Pulled, a \in {0, 1} :
         LET all == Normalized(mem, desired)
             seq == IF a = 0 THEN v.roots ELSE Append(v.roots, 0) IN
         /\ log' = v /\ past' = past \union {v} /\ stale' = FALSE
         /\ asked' = asked \intersect v.revoked
         /\ IF Equal(Value(all, desired), v)
            THEN mem' = all /\ desired' = desired
            ELSE mem' = Append(all, seq) /\ desired' = Parsed(v, Len(all) + 1)
    /\ UNCHANGED <<handler, requests, restarts, failures>>

\* A restart puts the last event's trust in force and then, with
\* restoreLatestLocalDesiredFromLogLocked, the trust section of the latest
\* desired event, if the log has one: the trust of the moment it was applied.
Restart ==
    /\ restarts < MaxRestarts /\ restarts' = restarts + 1
    /\ \E v \in past :
         /\ \E a \in Fresh(v.roots) : mem' = <<a>>
         /\ desired' = Parsed(v, 1) /\ stale' = (v # log)
         /\ asked' = asked \intersect v.revoked
    /\ handler' = [h \in Handlers |-> NoRequest]
    /\ UNCHANGED <<log, past, requests, pulls, failures>>

Next ==
    \/ \E h \in Handlers : Read(h) \/ Change(h) \/ Apply(h) \/ ApplyFails(h)
    \/ Pull \/ Restart

Spec == Init /\ [][Next]_vars

-----------------------------------------------------------------------------

Quiet == \A h \in Handlers : handler[h].at = "idle"

\* The revocations and the policy in force are those of the last trust event,
\* whatever other requests, failed appends and pulls came between the copy and
\* its application (applyTrustConfigLocked, NormalizeTrust), until a restart puts
\* an older trust in force; the next trust event ends that.
RevocationsFollowLog == ~stale => desired.revoked = log.revoked /\ desired.policy = log.policy

\* With no request under way, the roots in force are those of the last trust event.
RootsFollowLog == Quiet /\ ~stale => View(mem, desired) = log.roots

\* An acknowledged revocation is in force until it is taken back, another IX's
\* event replaces the list, or a restart puts an older list in force.
RevocationsKept == asked \subseteq desired.revoked

=============================================================================
