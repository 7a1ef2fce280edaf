------------------------ MODULE ConfigNodeInvariant -------------------------
(***************************************************************************)
(* The inductive invariant of ConfigNode, layer by layer.  The actions are *)
(* written as plain steps: what they change of the variables the invariant *)
(* is about.  Every layer is shown to survive every plain step;            *)
(* ConfigNodeProofs shows that the actions are plain steps and draws the   *)
(* theorems.                                                               *)
(***************************************************************************)
EXTENDS ConfigNode, TLAPS

-----------------------------------------------------------------------------
(* The inductive invariant, in the parts in which it is proved.              *)

\* A log of this domain.
GoodLog(l) == l \in Log /\ Len(l) > 0 /\ l[1] = Genesis

FollowUp == {"trust", "admission", "baseline", "refresh", "signers"}

\* Which request can stand where.
KindAt(pc, kind) ==
    /\ pc = "switch" => kind \in {"apply", "restore"}
    /\ pc = "commit" => kind \in AllKinds
    /\ pc = "switchback" => kind = "apply"
    /\ pc = "after" => kind \in {"apply", "trust"}
    /\ pc \in FollowUp => kind \in {"append", "rejoin", "restore"}
    /\ pc = "baseline" => kind = "rejoin"
    /\ pc = "rollback" => kind \in {"rejoin", "restore"}

PhaseInv ==
    /\ req.pc = "idle" <=> req = Idle
    /\ req # Idle => up = "up"
    /\ KindAt(req.pc, req.kind)
    /\ up # "up" => crashes > 0

\* Every log a step may bring back or take over starts with the genesis.
LogsInv ==
    /\ \A l \in stable : GoodLog(l)
    /\ GoodLog(peer)
    /\ archive = <<>> \/ GoodLog(archive)
    /\ req # Idle => GoodLog(req.new) /\ GoodLog(req.old.log)

TypeInv == TypeOK /\ PhaseInv /\ LogsInv

\* A request that has not touched the runtime yet, and one that has and has
\* not committed.
Before ==
    \/ req.pc = "switch"
    \/ req.pc = "commit" /\ req.kind \in {"trust", "append", "rejoin"}
Switched ==
    \/ req.pc = "switchback"
    \/ req.pc = "commit" /\ req.kind \in {"apply", "restore"}

\* What the runtime and the log are at each step of a request.
RunInv ==
    /\ Before => log = req.old.log /\ desired = req.old.desired /\ head = req.old.head
    /\ Switched => log = req.old.log /\ desired = req.want /\ head = req.new
    /\ req.pc = "after" => log = req.new /\ head = req.new /\ desired = req.want
    /\ req.pc \in FollowUp => IsPrefixOf(req.new, log) /\ head = log
    /\ req.pc \in FollowUp /\ req.kind = "restore" => log = req.new /\ desired.cfg = req.want.cfg
    /\ req.kind \in {"apply", "restore"} => \A x \in Desired : LatestDesired(req.new, x) = req.want

\* What excuses a runtime that does not follow the log.
Excused == pending \/ "unrestored" \in taint

HeadOK(h, l) == h = l \/ Excused
HeadInv ==
    /\ up = "up" /\ (req = Idle \/ Before) => HeadOK(head, log)
    /\ req # Idle => HeadOK(req.old.head, req.old.log)

TrustOK(d, l) == d.trust = LatestTrust(l, d.trust) \/ Excused \/ crashes > 0
TrustInv ==
    /\ up = "up" /\ (req = Idle \/ Before) => TrustOK(desired, log)
    /\ req # Idle => TrustOK(req.old.desired, req.old.log)
    /\ req.kind \in {"apply", "trust"} => TrustOK(req.want, req.new)
    /\ req.pc \in FollowUp \ {"trust"} => TrustOK(desired, log)

\* The certificates in memory verify the log, the cache has those in memory,
\* and a request brings those its log needs.
SignerInv ==
    up = "up" /\ "cut" \notin taint =>
        /\ req.pc \notin FollowUp \union {"rollback"} => SignersOf(log) \subseteq signers \union {Local}
        /\ req.pc \in FollowUp => SignersOf(log) \subseteq signers \union req.used \union {Local}
        /\ req.pc # "rollback" => pending \/ signers \subseteq cache \union {Local}
        /\ req # Idle => SignersOf(req.old.log) \subseteq req.old.signers \union {Local}
        /\ req.pc \in {"switch", "commit", "switchback"} => signers = req.old.signers
        /\ req.kind \in {"apply", "trust"} =>
              SignersOf(req.new) \subseteq SignersOf(req.old.log) \union {Local}
        /\ req.kind = "append" => SignersOf(req.new) \subseteq SignersOf(req.old.log) \union req.used
        /\ req.kind \in {"rejoin", "restore"} => SignersOf(req.new) \subseteq req.used

\* With no events from elsewhere, the log's latest configuration is the one
\* that runs.
Recorded(d, l) == LatestDesired(l, FileDesired).cfg = d.cfg
DesiredInv ==
    taint = {} =>
        /\ up = "up" /\ (req = Idle \/ Before) => Recorded(desired, log)
        /\ req # Idle => Recorded(req.old.desired, req.old.log)
        /\ req.kind = "trust" => Recorded(req.want, req.new)

-----------------------------------------------------------------------------
(* The actions as plain changes of the variables the invariant is about.    *)

Same ==
    /\ req'.kind = req.kind /\ req'.new = req.new /\ req'.want = req.want
    /\ req'.used = req.used /\ req'.old = req.old

\* What a request finds and keeps when it begins.
Started(kind, pc, new, want, used) ==
    /\ up = "up" /\ req = Idle
    /\ UNCHANGED <<up, log, stable, desired, head, signers, cache, pending, crashes, taint>>
    /\ req'.pc = pc /\ req'.kind = kind /\ req'.new = new /\ req'.want = want /\ req'.used = used
    /\ req'.old.log = log /\ req'.old.desired = desired /\ req'.old.head = head
    /\ req'.old.signers = signers /\ kind \in Kinds

Moved(p) == req'.pc = p /\ Same /\ result' = "none" /\ UNCHANGED <<pending, taint>>
Fell ==
    \/ req.kind = "append" /\ req' = Idle /\ result' = "committed" /\ pending'
       /\ taint' = taint \union {"cut"}
    \/ req.kind # "append" /\ Moved("rollback")
Done == req' = Idle /\ result' \in {"ok", "committed"} /\ (result' = "committed" => pending')
        /\ (pending => pending')

\* What every request step keeps, and a request step that leaves the runtime,
\* the log and the certificates alone.
Runs == UNCHANGED <<up, crashes>>
Holds == Runs /\ UNCHANGED <<log, desired, head, signers, cache>>

SwitchStep ==
    /\ req.pc = "switch" /\ Runs /\ UNCHANGED <<log, signers, cache, taint>>
    /\ \/ /\ desired' = req.want /\ head' = req.new /\ pending' = pending
          /\ \/ req.kind = "apply" /\ req.new = log /\ req' = Idle /\ result' = "ok"
             \/ Moved("commit")
       \/ /\ req' = Idle /\ result' = "failed" /\ UNCHANGED <<desired, head>>
          /\ pending => pending'
CommitStep ==
    /\ req.pc = "commit" /\ Runs /\ UNCHANGED <<signers, cache, pending, taint>>
    /\ log' = req.new /\ head' = req.new
    /\ desired' = IF req.kind = "trust" THEN req.want ELSE desired
    /\ req'.pc = IF req.kind \in {"apply", "trust"} THEN "after" ELSE "trust"
    /\ Same /\ result' = "none"
CommitFailsStep ==
    /\ req.pc = "commit" /\ Runs /\ UNCHANGED <<log, signers, cache, taint>>
    /\ \/ req.kind = "apply" /\ Moved("switchback") /\ UNCHANGED <<desired, head>>
       \/ /\ req.kind = "restore" /\ req' = Idle /\ result' = "failed"
          /\ desired' = req.old.desired /\ head' = req.old.head /\ (pending => pending')
       \/ /\ req.kind \in {"trust", "append", "rejoin"}
          /\ req' = Idle /\ result' = "failed" /\ UNCHANGED <<pending, desired, head>>
SwitchBackStep ==
    /\ req.pc = "switchback" /\ Runs /\ UNCHANGED <<log, signers, cache>> /\ req' = Idle
    /\ \/ /\ result' = "failed" /\ desired' = req.old.desired /\ head' = req.old.head
          /\ UNCHANGED <<pending, taint>>
       \/ /\ result' = "unrestored" /\ (pending => pending')
          /\ taint' = taint \union {"unrestored"} /\ UNCHANGED <<desired, head>>
AfterStep == req.pc = "after" /\ Holds /\ UNCHANGED taint /\ Done
TrustStep ==
    /\ req.pc = "trust" /\ Runs /\ UNCHANGED <<log, head, signers, cache>>
    /\ desired' = WithTrust(desired, LatestTrust(log, desired.trust))
    /\ Moved("admission") \/ Fell
AdmissionStep ==
    /\ req.pc = "admission" /\ Holds
    /\ Moved("baseline") \/ Moved("refresh") \/ Fell
BaselineStep ==
    /\ req.pc = "baseline" /\ Runs /\ UNCHANGED <<desired, signers, cache>>
    /\ \/ UNCHANGED <<log, head>> /\ (Moved("refresh") \/ Fell)
       \/ /\ log' = Append(log, DesiredEvent(desired)) /\ head' = log'
          /\ req'.pc = "refresh" /\ Same /\ result' = "none"
          /\ (pending => pending') /\ UNCHANGED taint
RefreshStep == req.pc = "refresh" /\ Holds /\ (Moved("signers") \/ Fell)
SignersStep ==
    /\ req.pc = "signers" /\ Runs /\ UNCHANGED <<log, desired, head, taint>>
    /\ \/ /\ Done /\ signers' = signers \union req.used
          /\ pending' \/ cache' = signers' \/ (signers' = signers /\ cache' = cache)
       \/ req.kind = "restore" /\ Moved("rollback")
RollbackStep ==
    /\ req.pc = "rollback" /\ Runs /\ req' = Idle
    /\ \/ /\ log' = req.old.log /\ desired' = req.old.desired /\ head' = req.old.head
          /\ signers' = req.old.signers /\ taint' = taint /\ result' = "failed"
          /\ (pending => pending') /\ (pending' \/ cache' = signers')
       \/ /\ result' = "committed" /\ pending' /\ taint' = taint \union {"cut"}
          /\ UNCHANGED <<log, desired, head, signers, cache>>
ReconcileStep ==
    /\ up = "up" /\ req = Idle /\ UNCHANGED <<up, crashes, req, log, signers, taint>>
    /\ head' = log /\ desired' = WithTrust(desired, LatestTrust(log, desired.trust))
    /\ pending' \/ cache' = signers
CrashStep == up' = "down" /\ req' = Idle /\ crashes' = crashes + 1 /\ taint \subseteq taint'
LoadStep ==
    /\ up = "down" /\ UNCHANGED <<crashes, req, log, cache, pending, taint>>
    /\ signers' = cache \union {Local} /\ head' = log
    /\ up' = "up" => SignersOf(log) \subseteq signers'
    /\ desired' = LatestDesired(log, WithTrust(FileDesired, LatestTrust(log, FileDesired.trust)))
OtherStep == Holds /\ UNCHANGED <<pending, req, taint>>

\* What each kind of request knows about the log and the configuration it is
\* about to put in place.
BeginStep ==
    /\ up = "up" /\ req = Idle /\ Holds /\ UNCHANGED <<pending, taint>>
    /\ req'.kind \in Kinds
    /\ \/ req'.pc = "switch" /\ req'.kind \in {"apply", "restore"}
       \/ req'.pc = "commit" /\ req'.kind \in {"trust", "append", "rejoin"}
    /\ req'.old.log = log /\ req'.old.desired = desired /\ req'.old.head = head
    /\ req'.old.signers = signers
    /\ req'.kind \in {"apply", "restore"} => \A x \in Desired : LatestDesired(req'.new, x) = req'.want
    /\ req'.kind \in {"apply", "trust"} =>
          /\ \/ req'.want.trust = LatestTrust(req'.new, req'.want.trust)
             \/ /\ req'.want.trust = desired.trust
                /\ LatestTrust(req'.new, req'.want.trust) = LatestTrust(log, desired.trust)
          /\ SignersOf(req'.new) \subseteq SignersOf(log) \union {Local}
    /\ req'.kind = "trust" =>
          /\ req'.want.cfg = desired.cfg
          /\ LatestDesired(req'.new, FileDesired) = LatestDesired(log, FileDesired)
    /\ req'.kind = "append" => SignersOf(req'.new) \subseteq SignersOf(log) \union req'.used
    /\ req'.kind \in {"rejoin", "restore"} => SignersOf(req'.new) \subseteq req'.used

\* A step of the daemon, as the invariant sees it.
PlainStep ==
    \/ BeginStep \/ SwitchStep \/ CommitStep \/ CommitFailsStep \/ SwitchBackStep \/ AfterStep
    \/ TrustStep \/ AdmissionStep \/ BaselineStep \/ RefreshStep \/ SignersStep \/ RollbackStep
    \/ OtherStep
Step == PlainStep \/ ReconcileStep \/ CrashStep \/ LoadStep

\* What the layers use of the latest trust of a log.
TrustFacts ==
    \A l \in Log, t \in Trust :
        /\ LatestTrust(l, t) \in Trust
        /\ \A d \in Desired : LatestTrust(Append(l, DesiredEvent(d)), t) = LatestTrust(l, t)

-----------------------------------------------------------------------------
(* What the types say of a request and of the rest of the state.             *)

LEMMA EventTyped ==
    /\ Genesis \in Event
    /\ \A d \in Desired : DesiredEvent(d) \in Event
    /\ \A t \in Trust, b \in Signer : TrustEvent(t, b) \in Event
  <1>1. FileDesired \in [cfg : Cfg, trust : Trust]
    BY NodeAssumption DEF Desired
  <1>2. \A t \in Trust : [FileDesired EXCEPT !.trust = t] \in Desired
    BY <1>1 DEF Desired
  <1> QED BY <1>1, <1>2 DEF Genesis, DesiredEvent, TrustEvent, Event, Signer, Desired

LEMMA WithTrustTyped ==
    ASSUME NEW d \in Desired, NEW t \in Trust
    PROVE  /\ WithTrust(d, t) \in Desired /\ WithTrust(d, t).trust = t /\ WithTrust(d, t).cfg = d.cfg
           /\ d.trust \in Trust
  BY DEF WithTrust, Desired

\* Logs of at most one event.
LEMMA LatestOfNone ==
    ASSUME NEW x
    PROVE  /\ <<>> \in Log /\ LatestDesired(<<>>, x) = x /\ LatestTrust(<<>>, x) = x
           /\ SignersOf(<<>>) = {} /\ LocalDesired(<<>>) = {}
  <1>1. <<>> \in Log /\ 1 .. Len(<<>>) = {}
    BY DEF Log
  <1>2. LocalDesired(<<>>) = {} /\ Positions(<<>>, "trust") = {} /\ SignersOf(<<>>) = {}
    BY <1>1, Zenon DEF LocalDesired, Positions, SignersOf
  <1> QED BY <1>1, <1>2, Zenon DEF LatestDesired, LatestTrust

LEMMA IdleFacts == Idle \in ReqRec /\ Idle.pc = "idle" /\ Idle.kind = "none"
  <1>1. <<>> \in Log /\ FileDesired \in Desired
    BY LatestOfNone, NodeAssumption
  <1>2. NoState \in OldRec
    BY <1>1 DEF NoState, OldRec
  <1>3. Idle \in ReqRec
    BY <1>1, <1>2 DEF Idle, ReqRec, Pcs
  <1> QED BY <1>3 DEF Idle

LEMMA Busy ==
    ASSUME TypeInv, req.pc # "idle"
    PROVE  /\ req # Idle /\ up = "up" /\ req \in ReqRec /\ KindAt(req.pc, req.kind)
           /\ GoodLog(req.new) /\ req.new \in Log /\ req.want \in Desired /\ req.used \subseteq Signer
           /\ GoodLog(req.old.log) /\ req.old.desired \in Desired /\ req.old.head \in Log
           /\ req.old.signers \subseteq Signer
  <1>1. req \in ReqRec /\ req # Idle /\ up = "up" /\ KindAt(req.pc, req.kind)
    BY IdleFacts DEF TypeInv, TypeOK, PhaseInv
  <1>2. req.new \in Log /\ req.want \in Desired /\ req.used \subseteq Signer /\ req.old \in OldRec
    BY <1>1 DEF ReqRec
  <1> QED BY <1>1, <1>2 DEF TypeInv, LogsInv, OldRec

LEMMA RestOfType ==
    ASSUME TypeInv
    PROVE  /\ GoodLog(log) /\ log \in Log /\ (\A l \in stable : GoodLog(l))
           /\ desired \in Desired /\ head \in Log /\ signers \subseteq Signer /\ cache \subseteq Signer
           /\ pending \in BOOLEAN /\ faults \in Nat /\ taint \subseteq {"unrestored", "cut"}
  BY DEF TypeInv, TypeOK, LogsInv, GoodLog

-----------------------------------------------------------------------------
(* What the runtime and the log are at each step of a request.               *)

LEMMA PrefixSelf == ASSUME NEW l \in Log PROVE IsPrefixOf(l, l)
  <1>1. Len(l) \in Nat /\ l = SubSeq(l, 1, Len(l))
    BY DEF Log
  <1> QED BY <1>1 DEF IsPrefixOf

LEMMA PrefixAppend ==
    ASSUME NEW l \in Log, NEW p \in Log, NEW e \in Event, IsPrefixOf(l, p)
    PROVE  IsPrefixOf(l, Append(p, e))
  <1> DEFINE q == Append(p, e)
  <1> Len(l) \in Nat /\ Len(p) \in Nat /\ Len(q) = Len(p) + 1 /\ q \in Seq(Event)
      /\ \A k \in 1 .. Len(p) : q[k] = p[k]
    BY DEF Log
  <1> Len(l) <= Len(p) /\ l = SubSeq(p, 1, Len(l))
    BY DEF IsPrefixOf
  <1>3. SubSeq(q, 1, Len(l)) = SubSeq(p, 1, Len(l))
    <2>1. Len(l) <= Len(q)
      OBVIOUS
    <2>2. \A k \in 1 .. Len(l) : q[k] = p[k]
      OBVIOUS
    <2> HIDE DEF q
    <2> QED BY <2>1, <2>2 DEF Log
  <1>4. Len(l) <= Len(q)
    OBVIOUS
  <1> QED BY <1>3, <1>4 DEF IsPrefixOf

LEMMA KindFacts ==
    ASSUME TypeInv
    PROVE  /\ KindAt(req.pc, req.kind) /\ (req = Idle <=> req.pc = "idle") /\ (req # Idle => up = "up")
           /\ Idle.pc = "idle" /\ Idle.kind = "none" /\ req.kind \in AllKinds \union {"none"}
  BY IdleFacts DEF TypeInv, TypeOK, PhaseInv, ReqRec

\* The latest trust of a log, put in force.
LEMMA TrustTaken ==
    ASSUME TrustFacts, NEW l \in Log, NEW d \in Desired
    PROVE  LET e == WithTrust(d, LatestTrust(l, d.trust))
           IN  /\ e \in Desired /\ e.cfg = d.cfg /\ e.trust = LatestTrust(l, e.trust)
  <1> DEFINE t == LatestTrust(l, d.trust)
  <1>1. t \in Trust
    BY DEF Desired, TrustFacts
  <1>2. LatestTrust(l, t) = t
    BY DEF LatestTrust
  <1> HIDE DEF t
  <1>3. WithTrust(d, t) \in Desired /\ WithTrust(d, t).cfg = d.cfg /\ WithTrust(d, t).trust = t
    BY <1>1, WithTrustTyped
  <1>4. WithTrust(d, t).trust = LatestTrust(l, WithTrust(d, t).trust)
    BY <1>2, <1>3
  <1> QED BY <1>3, <1>4 DEF t

LEMMA RunStep ==
    ASSUME TrustFacts, TypeInv, RunInv, Step, TypeInv'
    PROVE  RunInv'
  <1> /\ KindAt(req.pc, req.kind) /\ (req = Idle <=> req.pc = "idle")
      /\ Idle.pc = "idle" /\ Idle.kind = "none"
    BY KindFacts
  <1> USE DEF Before, Switched, FollowUp
  <1>1. CASE req' = Idle
    BY <1>1 DEF RunInv
  <1>2. CASE PlainStep /\ req' # Idle
    <2> USE <1>2
    <2>1. CASE BeginStep
      BY <2>1 DEF BeginStep, RunInv, Holds
    <2>2. CASE SwitchStep
      BY <2>2 DEF SwitchStep, RunInv, Moved, Same, KindAt
    <2>3. CASE CommitStep
      <3>1. IsPrefixOf(req.new, req.new)
        BY <2>3, Busy, PrefixSelf DEF CommitStep
      <3> QED BY <2>3, <3>1 DEF CommitStep, RunInv, Same, KindAt, AllKinds
    <2>4. CASE CommitFailsStep
      BY <2>4 DEF CommitFailsStep, RunInv, Moved, Same
    <2>5. CASE TrustStep
      <3>1. desired'.cfg = desired.cfg
        BY <2>5, RestOfType, TrustTaken, Zenon DEF TrustStep
      <3> QED BY <2>5, <3>1 DEF TrustStep, Fell, Moved, Same, RunInv
    <2>6. CASE AdmissionStep
      BY <2>6 DEF AdmissionStep, Fell, Moved, Same, RunInv, Holds
    <2>7. CASE BaselineStep
      <3>1. req.pc = "baseline" /\ req.kind = "rejoin" /\ req'.pc \in {"refresh", "rollback"} /\ Same
        BY <2>7 DEF BaselineStep, Fell, Moved, KindAt
      <3>2. IsPrefixOf(req.new, log) /\ head = log
        BY <3>1 DEF RunInv
      <3>3. req'.pc \in FollowUp => IsPrefixOf(req.new, log') /\ head' = log'
        <4>1. req.new \in Log /\ log \in Log /\ DesiredEvent(desired) \in Event
          BY <3>1, Busy, RestOfType, EventTyped
        <4>2. IsPrefixOf(req.new, Append(log, DesiredEvent(desired)))
          BY <3>2, <4>1, PrefixAppend
        <4> QED BY <2>7, <3>2, <4>2, Zenon DEF BaselineStep
      <3> QED BY <3>1, <3>3 DEF RunInv, Same
    <2>8. CASE RefreshStep
      BY <2>8 DEF RefreshStep, Fell, Moved, Same, RunInv, Holds
    <2>9. CASE SignersStep
      BY <2>9 DEF SignersStep, Done, Moved, Same, RunInv
    <2>10. CASE OtherStep
      BY <2>10 DEF OtherStep, Holds, RunInv
    <2>11. ~SwitchBackStep /\ ~AfterStep /\ ~RollbackStep
      BY DEF SwitchBackStep, AfterStep, RollbackStep, Done
    <2> QED BY <2>1, <2>2, <2>3, <2>4, <2>5, <2>6, <2>7, <2>8, <2>9, <2>10, <2>11, Zenon
            DEF PlainStep
  <1>3. CASE ReconcileStep \/ CrashStep \/ LoadStep
    <2>1. req' = Idle
      BY <1>3, KindFacts DEF ReconcileStep, CrashStep, LoadStep
    <2> QED BY <1>1, <2>1
  <1> QED BY <1>1, <1>2, <1>3, Zenon DEF Step

-----------------------------------------------------------------------------
(* The head follows the log.                                                 *)

\* A request takes back nothing that excuses the runtime.
LEMMA RequestsKeep ==
    ASSUME PlainStep
    PROVE  UNCHANGED <<up, crashes>> /\ (Excused => Excused')
  <1>1. /\ UNCHANGED <<up, crashes>> /\ (pending => pending') /\ taint \subseteq taint'
    <2>1. CASE BeginStep \/ OtherStep \/ AfterStep
      BY <2>1 DEF BeginStep, OtherStep, AfterStep, Holds, Runs, Done
    <2>2. CASE SwitchStep \/ CommitStep \/ CommitFailsStep \/ SwitchBackStep
      BY <2>2 DEF SwitchStep, CommitStep, CommitFailsStep, SwitchBackStep, Runs, Moved
    <2>3. CASE TrustStep \/ AdmissionStep \/ RefreshStep
      BY <2>3 DEF TrustStep, AdmissionStep, RefreshStep, Holds, Runs, Moved, Fell
    <2>4. CASE BaselineStep \/ SignersStep \/ RollbackStep
      BY <2>4 DEF BaselineStep, SignersStep, RollbackStep, Runs, Moved, Fell, Done
    <2> QED BY <2>1, <2>2, <2>3, <2>4, Zenon DEF PlainStep
  <1> QED BY <1>1 DEF Excused

LEMMA HeadStep ==
    ASSUME TypeInv, RunInv, HeadInv, Step
    PROVE  HeadInv'
  <1> /\ KindAt(req.pc, req.kind) /\ (req = Idle <=> req.pc = "idle") /\ (req # Idle => up = "up")
      /\ Idle.pc = "idle"
    BY KindFacts
  <1> USE DEF Before, HeadOK
  <1>1. CASE PlainStep
    <2> up' = up /\ (Excused => Excused')
      BY <1>1, RequestsKeep
    <2>1. CASE BeginStep
      BY <2>1 DEF BeginStep, HeadInv, Holds
    <2>2. CASE SwitchStep
      BY <2>2 DEF SwitchStep, HeadInv, Moved, Same, KindAt
    <2>3. CASE CommitStep
      BY <2>3 DEF CommitStep, HeadInv, Same
    <2>4. CASE CommitFailsStep
      BY <2>4 DEF CommitFailsStep, HeadInv, RunInv, Switched, Moved, Same
    <2>5. CASE SwitchBackStep
      BY <2>5 DEF SwitchBackStep, HeadInv, RunInv, Switched, Excused
    <2>6. CASE AfterStep
      BY <2>6 DEF AfterStep, HeadInv, RunInv, Holds, Done
    <2>7. CASE TrustStep
      BY <2>7 DEF TrustStep, HeadInv, RunInv, FollowUp, Fell, Moved, Same
    <2>8. CASE AdmissionStep
      BY <2>8 DEF AdmissionStep, HeadInv, RunInv, FollowUp, Fell, Moved, Same, Holds
    <2>9. CASE BaselineStep
      BY <2>9 DEF BaselineStep, HeadInv, RunInv, FollowUp, Fell, Moved, Same
    <2>10. CASE RefreshStep
      BY <2>10 DEF RefreshStep, HeadInv, RunInv, FollowUp, Fell, Moved, Same, Holds
    <2>11. CASE SignersStep
      BY <2>11 DEF SignersStep, HeadInv, RunInv, FollowUp, Moved, Same, Done
    <2>12. CASE RollbackStep
      BY <2>12 DEF RollbackStep, HeadInv, Excused
    <2>13. CASE OtherStep
      BY <2>13 DEF OtherStep, Holds, HeadInv
    <2> QED BY <1>1, <2>1, <2>2, <2>3, <2>4, <2>5, <2>6, <2>7, <2>8, <2>9, <2>10, <2>11, <2>12, <2>13, Zenon
            DEF PlainStep
  <1>2. CASE ReconcileStep \/ CrashStep \/ LoadStep
    BY <1>2 DEF ReconcileStep, CrashStep, LoadStep, HeadInv
  <1> QED BY <1>1, <1>2, Zenon DEF Step

-----------------------------------------------------------------------------
(* The trust in force is the latest of the log.                              *)

LEMMA TrustStepInv ==
    ASSUME TrustFacts, TypeInv, RunInv, TrustInv, Step
    PROVE  TrustInv'
  <1> /\ KindAt(req.pc, req.kind) /\ (req = Idle <=> req.pc = "idle") /\ (req # Idle => up = "up")
      /\ Idle.pc = "idle" /\ Idle.kind = "none"
    BY KindFacts
  <1>0. log \in Log /\ desired \in Desired /\ desired.trust \in Trust
    BY RestOfType DEF Desired
  <1> USE DEF Before, TrustOK, FollowUp
  <1>1. CASE PlainStep
    <2> up' = up /\ crashes' = crashes /\ (Excused => Excused')
      BY <1>1, RequestsKeep
    <2>1. CASE BeginStep
      BY <2>1 DEF BeginStep, TrustInv, Holds
    <2>2. CASE SwitchStep
      BY <2>2 DEF SwitchStep, TrustInv, Moved, Same, KindAt
    <2>3. CASE CommitStep
      BY <2>3 DEF CommitStep, TrustInv, Same
    <2>4. CASE CommitFailsStep
      BY <2>4 DEF CommitFailsStep, TrustInv, RunInv, Switched, Moved, Same
    <2>5. CASE SwitchBackStep
      BY <2>5 DEF SwitchBackStep, TrustInv, RunInv, Switched, Excused
    <2>6. CASE AfterStep
      BY <2>6 DEF AfterStep, TrustInv, RunInv, Holds, Done, KindAt
    <2>7. CASE TrustStep
      <3>1. desired'.trust = LatestTrust(log, desired'.trust)
        BY <1>0, <2>7, TrustTaken DEF TrustStep
      <3> QED BY <2>7, <3>1 DEF TrustStep, TrustInv, Fell, Moved, Same
    <2>8. CASE AdmissionStep
      BY <2>8 DEF AdmissionStep, TrustInv, Fell, Moved, Same, Holds
    <2>9. CASE BaselineStep
      <3>1. LatestTrust(Append(log, DesiredEvent(desired)), desired.trust) = LatestTrust(log, desired.trust)
        BY <1>0 DEF TrustFacts
      <3> QED BY <2>9, <3>1, Zenon DEF BaselineStep, TrustInv, Fell, Moved, Same
    <2>10. CASE RefreshStep
      BY <2>10 DEF RefreshStep, TrustInv, Fell, Moved, Same, Holds
    <2>11. CASE SignersStep
      BY <2>11 DEF SignersStep, TrustInv, Moved, Same, Done
    <2>12. CASE RollbackStep
      BY <2>12 DEF RollbackStep, TrustInv, Excused
    <2>13. CASE OtherStep
      BY <2>13 DEF OtherStep, Holds, TrustInv
    <2> QED BY <1>1, <2>1, <2>2, <2>3, <2>4, <2>5, <2>6, <2>7, <2>8, <2>9, <2>10, <2>11, <2>12, <2>13, Zenon
            DEF PlainStep
  <1>2. CASE ReconcileStep
    <2>1. desired'.trust = LatestTrust(log, desired'.trust)
      BY <1>0, <1>2, TrustTaken DEF ReconcileStep
    <2> QED BY <1>2, <2>1 DEF ReconcileStep, TrustInv
  <1>3. CASE CrashStep
    BY <1>3 DEF CrashStep, TrustInv
  <1>4. CASE LoadStep
    <2>1. crashes > 0
      BY <1>4 DEF LoadStep, TypeInv, PhaseInv
    <2> QED BY <1>4, <2>1 DEF LoadStep, TrustInv
  <1> QED BY <1>1, <1>2, <1>3, <1>4, Zenon DEF Step

-----------------------------------------------------------------------------
(* The certificates verify the log.                                          *)

LEMMA BaselineSigners ==
    ASSUME NEW l \in Log, NEW d \in Desired
    PROVE  SignersOf(Append(l, DesiredEvent(d))) = SignersOf(l) \union {Local}
  <1> DEFINE e == DesiredEvent(d)
             n == Append(l, e)
  <1>1. e \in Event /\ e.by = Local /\ Local # NoSigner
    BY EventTyped, NodeAssumption, Zenon DEF DesiredEvent, Signer
  <1> HIDE DEF e
  <1>2. /\ Len(l) \in Nat /\ Len(n) = Len(l) + 1 /\ n[Len(l) + 1] = e
        /\ \A k \in 1 .. Len(l) : n[k] = l[k]
    BY <1>1 DEF Log
  <1> HIDE DEF n
  <1>3. 1 .. Len(n) = (1 .. Len(l)) \union {Len(l) + 1}
    BY <1>2
  <1>4. {n[k].by : k \in 1 .. Len(n)} = {l[k].by : k \in 1 .. Len(l)} \union {e.by}
    BY <1>2, <1>3
  <1> QED BY <1>1, <1>4 DEF SignersOf, n, e

LEMMA SignerStep ==
    ASSUME TypeInv, RunInv, SignerInv, Step
    PROVE  SignerInv'
  <1> /\ KindAt(req.pc, req.kind) /\ (req = Idle <=> req.pc = "idle") /\ (req # Idle => up = "up")
      /\ Idle.pc = "idle" /\ Idle.kind = "none" /\ req.kind \in AllKinds \union {"none"}
    BY KindFacts
  <1> SUFFICES ASSUME up' = "up", "cut" \notin taint'
               PROVE  SignerInv'
    BY DEF SignerInv
  <1> USE DEF FollowUp
  <1>1. CASE BeginStep
    BY <1>1 DEF BeginStep, SignerInv, Holds, Runs
  <1>2. CASE SwitchStep
    BY <1>2 DEF SwitchStep, SignerInv, Moved, Same, Runs
  <1>3. CASE CommitStep
    BY <1>3 DEF CommitStep, SignerInv, Same, Runs, RunInv, KindAt, AllKinds
  <1>4. CASE CommitFailsStep
    BY <1>4 DEF CommitFailsStep, SignerInv, Moved, Same, Runs
  <1>5. CASE SwitchBackStep
    BY <1>5 DEF SwitchBackStep, SignerInv, Runs
  <1>6. CASE AfterStep
    BY <1>6 DEF AfterStep, SignerInv, Holds, Runs, Done
  <1>7. CASE TrustStep
    BY <1>7 DEF TrustStep, SignerInv, Fell, Moved, Same, Runs
  <1>8. CASE AdmissionStep
    BY <1>8 DEF AdmissionStep, SignerInv, Fell, Moved, Same, Holds, Runs
  <1>9. CASE BaselineStep
    <2>1. SignersOf(Append(log, DesiredEvent(desired))) = SignersOf(log) \union {Local}
      BY RestOfType, BaselineSigners
    <2> QED BY <1>9, <2>1, Zenon DEF BaselineStep, SignerInv, Fell, Moved, Same, Runs
  <1>10. CASE RefreshStep
    BY <1>10, Zenon DEF RefreshStep, SignerInv, Fell, Moved, Same, Holds, Runs
  <1>11. CASE SignersStep
    BY <1>11 DEF SignersStep, SignerInv, Moved, Same, Done, Runs
  <1>12. CASE RollbackStep
    BY <1>12 DEF RollbackStep, SignerInv, Runs
  <1>13. CASE ReconcileStep
    BY <1>13 DEF ReconcileStep, SignerInv
  <1>14. CASE LoadStep
    BY <1>14 DEF LoadStep, SignerInv
  <1>15. CASE OtherStep
    BY <1>15 DEF OtherStep, Holds, Runs, SignerInv
  <1>16. ~CrashStep
    BY DEF CrashStep
  <1> QED BY <1>1, <1>2, <1>3, <1>4, <1>5, <1>6, <1>7, <1>8, <1>9, <1>10, <1>11, <1>12, <1>13, <1>14, <1>15,
             <1>16, Zenon DEF Step, PlainStep

-----------------------------------------------------------------------------
(* With no events from elsewhere the log records what runs.                  *)

NoForeign == Kinds \cap {"append", "rejoin"} = {}
OwnInv == req.kind \notin {"append", "rejoin"}

LEMMA LoadedIsRecorded ==
    ASSUME TrustFacts, NEW l \in Log
    PROVE  Recorded(LatestDesired(l, WithTrust(FileDesired, LatestTrust(l, FileDesired.trust))), l)
  <1> DEFINE w == WithTrust(FileDesired, LatestTrust(l, FileDesired.trust))
  <1>1. w.cfg = FileDesired.cfg
    BY NodeAssumption, TrustTaken
  <1> HIDE DEF w
  <1>2. LatestDesired(l, w).cfg = LatestDesired(l, FileDesired).cfg
    BY <1>1 DEF LatestDesired
  <1> QED BY <1>2 DEF Recorded, w

LEMMA DesiredStep ==
    ASSUME TrustFacts, NoForeign, TypeInv, RunInv, OwnInv, DesiredInv, Step
    PROVE  OwnInv' /\ DesiredInv'
  <1> /\ KindAt(req.pc, req.kind) /\ (req = Idle <=> req.pc = "idle") /\ (req # Idle => up = "up")
      /\ Idle.pc = "idle" /\ Idle.kind = "none" /\ req.kind \in AllKinds \union {"none"}
    BY KindFacts
  <1>1. FileDesired \in Desired /\ log \in Log /\ desired \in Desired
    BY NodeAssumption, RestOfType
  <1>2. req.kind \in {"apply", "restore"} => LatestDesired(req.new, FileDesired) = req.want
    BY <1>1 DEF RunInv
  <1> USE DEF Before, Recorded, FollowUp
  <1>3. CASE BeginStep
    BY <1>3 DEF BeginStep, DesiredInv, OwnInv, NoForeign, Holds, Runs
  <1>4. CASE SwitchStep
    BY <1>2, <1>4 DEF SwitchStep, DesiredInv, OwnInv, Moved, Same, KindAt, Runs
  <1>5. CASE CommitStep
    BY <1>5 DEF CommitStep, DesiredInv, OwnInv, Same, Runs
  <1>6. CASE CommitFailsStep
    BY <1>6 DEF CommitFailsStep, DesiredInv, OwnInv, RunInv, Switched, Moved, Same, Runs
  <1>7. CASE SwitchBackStep
    BY <1>7 DEF SwitchBackStep, DesiredInv, OwnInv, RunInv, Switched, Runs
  <1>8. CASE AfterStep
    BY <1>2, <1>8 DEF AfterStep, DesiredInv, OwnInv, RunInv, Holds, Runs, Done, KindAt
  <1>9. CASE TrustStep
    BY <1>9, Zenon DEF TrustStep, DesiredInv, OwnInv, Fell, Moved, Same, Runs
  <1>10. CASE AdmissionStep
    BY <1>10 DEF AdmissionStep, DesiredInv, OwnInv, Fell, Moved, Same, Holds, Runs
  <1>11. CASE BaselineStep
    BY <1>11 DEF BaselineStep, OwnInv, KindAt
  <1>12. CASE RefreshStep
    BY <1>12, Zenon DEF RefreshStep, DesiredInv, OwnInv, Fell, Moved, Same, Holds, Runs
  <1>13. CASE SignersStep
    BY <1>2, <1>13 DEF SignersStep, DesiredInv, OwnInv, RunInv, Moved, Same, Done, Runs, KindAt
  <1>14. CASE RollbackStep
    BY <1>14 DEF RollbackStep, DesiredInv, OwnInv, Runs
  <1>15. CASE ReconcileStep
    <2>1. desired'.cfg = desired.cfg
      BY <1>1, <1>15, TrustTaken DEF ReconcileStep
    <2> QED BY <1>15, <2>1 DEF ReconcileStep, DesiredInv, OwnInv
  <1>16. CASE CrashStep
    BY <1>16 DEF CrashStep, DesiredInv, OwnInv
  <1>17. CASE LoadStep
    <2>1. LatestDesired(log, FileDesired).cfg = desired'.cfg
      BY <1>1, <1>17, LoadedIsRecorded DEF LoadStep
    <2> QED BY <1>17, <2>1 DEF LoadStep, DesiredInv, OwnInv
  <1>18. CASE OtherStep
    BY <1>18, Zenon DEF OtherStep, Holds, Runs, DesiredInv, OwnInv
  <1> QED BY <1>3, <1>4, <1>5, <1>6, <1>7, <1>8, <1>9, <1>10, <1>11, <1>12, <1>13, <1>14, <1>15, <1>16,
             <1>17, <1>18, Zenon DEF Step, PlainStep

-----------------------------------------------------------------------------
(* What a request answers.                                                   *)

LEMMA OutcomeStep ==
    ASSUME TypeInv, RunInv, Step, TypeInv', req.pc # "idle", req'.pc = "idle", up' = "up"
    PROVE  /\ result' = "failed" =>
                log' = req.old.log /\ desired' = req.old.desired /\ head' = req.old.head
           /\ result' = "unrestored" => log' = req.old.log
           /\ result' = "committed" => pending'
           /\ result' = "ok" =>
                /\ IsPrefixOf(req.new, log') /\ head' = log'
                /\ req.kind = "apply" => LatestDesired(log', desired') = desired'
                /\ req.kind = "restore" => LatestDesired(log', desired').cfg = desired'.cfg
  <1> DEFINE Goal ==
           /\ result' = "failed" =>
                log' = req.old.log /\ desired' = req.old.desired /\ head' = req.old.head
           /\ result' = "unrestored" => log' = req.old.log
           /\ result' = "committed" => pending'
           /\ result' = "ok" =>
                /\ IsPrefixOf(req.new, log') /\ head' = log'
                /\ req.kind = "apply" => LatestDesired(log', desired') = desired'
                /\ req.kind = "restore" => LatestDesired(log', desired').cfg = desired'.cfg
  <1> /\ KindAt(req.pc, req.kind) /\ (req = Idle <=> req.pc = "idle")
      /\ Idle.pc = "idle" /\ Idle.kind = "none" /\ req.kind \in AllKinds \union {"none"}
    BY KindFacts
  <1>1. req.new \in Log /\ desired' \in Desired
    BY Busy DEF TypeInv, TypeOK
  <1>2. IsPrefixOf(req.new, req.new)
    BY <1>1, PrefixSelf
  <1>3. req.kind \in {"apply", "restore"} => LatestDesired(req.new, desired') = req.want
    BY <1>1 DEF RunInv
  <1>4. CASE SwitchStep
    BY <1>2, <1>3, <1>4 DEF SwitchStep, RunInv, Before, Moved
  <1>5. CASE CommitFailsStep
    BY <1>5 DEF CommitFailsStep, RunInv, Before, Switched, Moved
  <1>6. CASE SwitchBackStep
    BY <1>6 DEF SwitchBackStep, RunInv, Switched
  <1>7. CASE AfterStep
    BY <1>2, <1>3, <1>7 DEF AfterStep, RunInv, Holds, Done, KindAt
  <1>8. CASE TrustStep \/ AdmissionStep \/ BaselineStep \/ RefreshStep
    BY <1>8 DEF TrustStep, AdmissionStep, BaselineStep, RefreshStep, Fell, Moved
  <1>9. CASE SignersStep
    BY <1>3, <1>9 DEF SignersStep, RunInv, FollowUp, Moved, Done, KindAt
  <1>10. CASE RollbackStep
    BY <1>10 DEF RollbackStep
  <1>11. CASE CommitStep \/ BeginStep \/ ReconcileStep \/ CrashStep \/ LoadStep \/ OtherStep
    BY <1>11, Zenon DEF CommitStep, BeginStep, ReconcileStep, CrashStep, LoadStep, OtherStep
  <1> HIDE DEF Goal
  <1>12. Goal
    BY <1>4, <1>5, <1>6, <1>7, <1>8, <1>9, <1>10, <1>11, Zenon DEF Step, PlainStep, Goal
  <1> QED BY <1>12 DEF Goal

-----------------------------------------------------------------------------
(* The actions that do not look at what is latest in a log are plain steps,  *)
(* and keep the types.                                                       *)

Results == {"none", "ok", "failed", "unrestored", "committed"}

ReqOK ==
    /\ req' \in ReqRec /\ PhaseInv' /\ result' \in Results
    /\ req' # Idle => GoodLog(req'.new) /\ GoodLog(req'.old.log)

RestOK ==
    /\ GoodLog(log') /\ \A l \in stable' : GoodLog(l)
    /\ desired' \in Desired /\ head' \in Log
    /\ signers' \subseteq Signer /\ cache' \subseteq Signer
    /\ pending' \in BOOLEAN /\ faults' \in Nat /\ taint' \subseteq {"unrestored", "cut"}

LEMMA MovesTo ==
    ASSUME req \in ReqRec, NEW p \in Pcs, NEW b \in BOOLEAN,
           req' = [req EXCEPT !.pc = p, !.unsure = b]
    PROVE  req' \in ReqRec /\ req'.pc = p /\ Same
  BY Zenon DEF ReqRec, Same

LEMMA Moves ==
    ASSUME req \in ReqRec, NEW p \in Pcs, Goto(p)
    PROVE  req' \in ReqRec /\ req'.pc = p /\ Same /\ result' = "none"
  BY DEF ReqRec, Same, Goto, Continue

LEMMA KeepsPhase ==
    ASSUME TypeInv, req.pc # "idle", UNCHANGED <<up, crashes>>, req' \in ReqRec, Same, req'.pc # "idle",
           KindAt(req'.pc, req.kind), result' = "none"
    PROVE  ReqOK
  <1>1. req # Idle /\ up = "up" /\ GoodLog(req.new) /\ GoodLog(req.old.log)
    BY DEF TypeInv, PhaseInv, LogsInv
  <1>2. req' # Idle
    BY IdleFacts
  <1>3. PhaseInv'
    BY <1>1, <1>2, IdleFacts DEF PhaseInv, Same, TypeInv
  <1>4. GoodLog(req'.new) /\ GoodLog(req'.old.log)
    BY <1>1, Zenon DEF Same
  <1> QED BY <1>3, <1>4, Zenon DEF ReqOK, Results

LEMMA GoesTo ==
    ASSUME TypeInv, req.pc # "idle", UNCHANGED <<up, crashes>>, NEW p \in Pcs \ {"idle"}, Goto(p), KindAt(p, req.kind)
    PROVE  ReqOK
  <1>1. req \in ReqRec
    BY DEF TypeInv, TypeOK
  <1>2. req' \in ReqRec /\ req'.pc = p /\ Same /\ result' = "none"
    BY <1>1, Moves
  <1> QED BY <1>2, KeepsPhase

LEMMA Ends ==
    ASSUME req' = Idle, result' \in Results, TypeInv, UNCHANGED <<up, crashes>>
    PROVE  ReqOK
  <1>1. KindAt(Idle.pc, Idle.kind)
    BY IdleFacts DEF KindAt, FollowUp
  <1> QED BY <1>1, IdleFacts DEF ReqOK, PhaseInv, TypeInv

LEMMA Typed ==
    ASSUME TypeInv, ReqOK, RestOK, UNCHANGED envVars
    PROVE  TypeInv'
  <1>1. TypeOK'
    BY DEF TypeInv, TypeOK, ReqOK, RestOK, envVars, GoodLog, Results
  <1>2. LogsInv'
    <2>1. peer' = peer /\ archive' = archive
      BY DEF envVars
    <2> QED BY <2>1 DEF TypeInv, LogsInv, ReqOK, RestOK
  <1> QED BY <1>1, <1>2 DEF TypeInv, ReqOK

LEMMA Begins ==
    ASSUME TypeInv, NEW kind \in AllKinds, NEW pc \in {"switch", "commit"}, NEW STATE new, NEW STATE want,
           NEW STATE used, NEW preserve \in BOOLEAN, GoodLog(new), want \in Desired, used \subseteq Signer,
           KindAt(pc, kind), Begin(kind, pc, new, want, used, preserve)
    PROVE  TypeInv' /\ Started(kind, pc, new, want, used)
  <1> /\ up = "up" /\ req = Idle /\ result' = "none" /\ kind \in Kinds
      /\ UNCHANGED <<up, log, stable, desired, head, signers, cache, pending, peer, archive, faults, crashes, taint>>
      /\ req' = [Idle EXCEPT !.pc = pc, !.kind = kind, !.new = new, !.want = want,
                             !.used = used, !.preserve = preserve, !.old = Old]
    BY DEF Begin, Continue, diskVars, runVars, envVars
  <1>2. Old \in OldRec /\ Old.log = log /\ Old.desired = desired /\ Old.head = head /\ Old.signers = signers
    BY DEF TypeInv, TypeOK, Old, OldRec
  <1>3. new \in Log /\ pc \in Pcs
    BY DEF GoodLog, Pcs
  <1> /\ req' \in ReqRec /\ req'.pc = pc /\ req'.kind = kind /\ req'.new = new /\ req'.want = want
      /\ req'.used = used /\ req'.old = Old
    <2> HIDE DEF Old
    <2> QED BY <1>2, <1>3, IdleFacts, Zenon DEF ReqRec
  <1>5. req' # Idle
    BY IdleFacts, Zenon
  <1>6. GoodLog(log)
    BY DEF TypeInv, TypeOK, GoodLog
  <1>7. PhaseInv'
    BY <1>5, IdleFacts DEF PhaseInv, TypeInv
  <1>8. TypeOK'
    BY DEF TypeInv, TypeOK, GoodLog
  <1>9. LogsInv'
    BY <1>2, <1>6 DEF TypeInv, LogsInv
  <1> QED BY <1>2, <1>7, <1>8, <1>9 DEF TypeInv, Started

LEMMA FaultTyped ==
    ASSUME TypeInv, Fault \/ NoFault PROVE faults' \in Nat
  BY RestOfType DEF Fault, NoFault

LEMMA StaysPending ==
    ASSUME TypeInv, pending' \in {pending, TRUE} PROVE (pending => pending') /\ pending' \in BOOLEAN
  <1>1. pending \in BOOLEAN
    BY RestOfType
  <1>2. CASE pending' = pending
    BY <1>1, <1>2, Zenon
  <1>3. CASE pending' = TRUE
    BY <1>3, Zenon
  <1> QED BY <1>2, <1>3, Zenon

LEMMA SwitchType ==
    ASSUME TypeInv, SwitchDesiredRuntime
    PROVE  TypeInv' /\ SwitchStep
  <1> USE DEF runVars, diskVars, envVars
  <1> req.pc = "switch" /\ UNCHANGED <<up, crashes, peer, archive, log, stable, signers, cache, taint>>
    BY DEF SwitchDesiredRuntime
  <1> req.new \in Log /\ req.want \in Desired /\ KindAt(req.pc, req.kind) /\ req \in ReqRec
    BY Busy
  <1>3. KindAt("commit", req.kind)
    BY DEF KindAt, AllKinds, FollowUp
  <1>4. CASE /\ NoFault /\ desired' = req.want /\ head' = req.new /\ pending' = pending
             /\ req.kind = "apply" /\ req.new = log /\ End("ok")
    <2> USE <1>4
    <2>1. ReqOK
      BY Ends DEF End, Results
    <2>2. RestOK
      BY RestOfType, FaultTyped DEF RestOK
    <2> QED BY <2>1, <2>2, Typed DEF SwitchStep, Runs, End
  <1>5. CASE NoFault /\ desired' = req.want /\ head' = req.new /\ pending' = pending /\ Goto("commit")
    <2> USE <1>5
    <2>1. "commit" \in Pcs \ {"idle"}
      BY DEF Pcs
    <2>2. ReqOK
      BY <1>3, <2>1, GoesTo
    <2>3. RestOK
      BY RestOfType, FaultTyped DEF RestOK
    <2>4. Moved("commit")
      BY <2>1, Moves DEF Moved
    <2> QED BY <2>2, <2>3, <2>4, Typed DEF SwitchStep, Runs
  <1>6. CASE Fault /\ End("failed") /\ pending' \in {pending, TRUE} /\ UNCHANGED <<desired, head>>
    <2> USE <1>6
    <2>1. ReqOK
      BY Ends DEF End, Results
    <2>2. RestOK
      BY RestOfType, FaultTyped, Zenon DEF RestOK
    <2>3. pending => pending'
      BY StaysPending, Zenon
    <2>4. TypeInv'
      BY <2>1, <2>2, Typed
    <2> QED BY <2>3, <2>4, Zenon DEF SwitchStep, Runs, End
  <1> QED BY <1>4, <1>5, <1>6, Zenon DEF SwitchDesiredRuntime

LEMMA CommitType ==
    ASSUME TypeInv, NEW durable \in BOOLEAN, Commit(durable)
    PROVE  TypeInv' /\ CommitStep
  <1> DEFINE p == IF req.kind \in {"apply", "trust"} THEN "after" ELSE "trust"
             b == ~durable
  <1> /\ req.pc = "commit" /\ UNCHANGED envVars /\ UNCHANGED <<signers, cache, pending, taint>>
      /\ (Fault \/ NoFault) /\ log' = req.new /\ head' = req.new
      /\ desired' = IF req.kind = "trust" THEN req.want ELSE desired
      /\ req' = [req EXCEPT !.pc = p, !.unsure = b] /\ result' = "none"
    BY DEF Commit, Continue
  <1>2. stable' = {req.new} \/ stable' = stable \union {req.new}
    BY DEF Commit
  <1>3. /\ GoodLog(req.new) /\ req.new \in Log /\ req.want \in Desired /\ KindAt(req.pc, req.kind)
        /\ req \in ReqRec
    BY Busy
  <1>4. p \in Pcs /\ b \in BOOLEAN /\ p # "idle" /\ KindAt(p, req.kind)
    BY <1>3 DEF Pcs, KindAt, AllKinds, FollowUp
  <1>5. p = IF req.kind \in {"apply", "trust"} THEN "after" ELSE "trust"
    OBVIOUS
  <1> HIDE DEF p, b
  <1>6. req' \in ReqRec /\ req'.pc = p /\ Same
    BY <1>3, <1>4, MovesTo, Zenon
  <1>7. UNCHANGED <<up, crashes>>
    BY DEF envVars
  <1>8. ReqOK
    BY <1>4, <1>6, <1>7, KeepsPhase
  <1>9. RestOK
    BY <1>2, <1>3, RestOfType, FaultTyped DEF RestOK
  <1>10. TypeInv'
    BY <1>8, <1>9, Typed
  <1> QED BY <1>5, <1>6, <1>7, <1>10 DEF CommitStep, Runs

LEMMA CommitFailsType ==
    ASSUME TypeInv, CommitFails
    PROVE  TypeInv' /\ CommitFailsStep
  <1> USE DEF runVars, diskVars, envVars
  <1> /\ req.pc = "commit" /\ UNCHANGED <<up, crashes, peer, archive, log, stable, signers, cache, taint>>
      /\ Fault
    BY DEF CommitFails
  <1>2. /\ KindAt(req.pc, req.kind) /\ req \in ReqRec
        /\ req.old.desired \in Desired /\ req.old.head \in Log
    BY Busy
  <1>3. CASE req.kind = "apply" /\ Goto("switchback") /\ UNCHANGED <<pending, desired, head>>
    <2> USE <1>3
    <2>1. "switchback" \in Pcs \ {"idle"} /\ KindAt("switchback", req.kind)
      BY DEF Pcs, KindAt, FollowUp
    <2>2. ReqOK
      BY <2>1, GoesTo
    <2>3. RestOK
      BY RestOfType, FaultTyped DEF RestOK
    <2>4. Moved("switchback")
      BY <1>2, <2>1, Moves DEF Moved
    <2> QED BY <2>2, <2>3, <2>4, Typed DEF CommitFailsStep, Runs
  <1>4. CASE /\ req.kind = "restore" /\ End("failed")
             /\ desired' = req.old.desired /\ head' = req.old.head /\ pending' \in {pending, TRUE}
    <2> USE <1>4
    <2>1. ReqOK
      BY Ends DEF End, Results
    <2>2. RestOK
      BY <1>2, RestOfType, FaultTyped, Zenon DEF RestOK
    <2>3. pending => pending'
      BY StaysPending, Zenon
    <2>4. TypeInv'
      BY <2>1, <2>2, Typed
    <2> QED BY <2>3, <2>4, Zenon DEF CommitFailsStep, Runs, End
  <1>5. CASE /\ req.kind \in {"trust", "append", "rejoin"}
             /\ End("failed") /\ UNCHANGED <<pending, desired, head>>
    <2> USE <1>5
    <2>1. ReqOK
      BY Ends DEF End, Results
    <2>2. RestOK
      BY RestOfType, FaultTyped DEF RestOK
    <2> QED BY <2>1, <2>2, Typed DEF CommitFailsStep, Runs, End
  <1> QED BY <1>3, <1>4, <1>5, Zenon DEF CommitFails

LEMMA SwitchBackType ==
    ASSUME TypeInv, SwitchBack
    PROVE  TypeInv' /\ SwitchBackStep
  <1> USE DEF runVars, diskVars, envVars
  <1> /\ req.pc = "switchback" /\ UNCHANGED <<up, crashes, peer, archive, log, stable, signers, cache>>
      /\ (Fault \/ NoFault) /\ req' = Idle /\ result' \in Results
    BY Zenon DEF SwitchBack, End, Results
  <1>2. req.old.desired \in Desired /\ req.old.head \in Log
    BY Busy
  <1>3. ReqOK
    BY Ends
  <1>4. RestOK
    BY <1>2, RestOfType, FaultTyped, Zenon DEF RestOK, SwitchBack
  <1>5. TypeInv'
    BY <1>3, <1>4, Typed
  <1>6. pending => pending'
    BY StaysPending, Zenon DEF SwitchBack
  <1> QED BY <1>5, <1>6, Zenon DEF SwitchBack, SwitchBackStep, Runs, End

LEMMA EndOkDone ==
    ASSUME TypeInv, EndOk
    PROVE  Done /\ pending' \in BOOLEAN /\ req' = Idle /\ result' \in Results
  BY RestOfType, Zenon DEF EndOk, EndCommitted, End, Done, Results

LEMMA AfterType ==
    ASSUME TypeInv, AfterMutation
    PROVE  TypeInv' /\ AfterStep
  <1> USE DEF runVars, diskVars, envVars
  <1> /\ req.pc = "after" /\ (Fault \/ NoFault)
      /\ UNCHANGED <<up, crashes, peer, archive, log, stable, signers, cache, desired, head, taint>>
    BY DEF AfterMutation
  <1>2. Done /\ pending' \in BOOLEAN /\ req' = Idle /\ result' \in Results
    BY EndOkDone, Zenon DEF AfterMutation, EndCommitted, End, Done, Results
  <1>3. ReqOK
    BY <1>2, Ends
  <1>4. RestOK
    BY <1>2, RestOfType, FaultTyped DEF RestOK
  <1>5. TypeInv'
    BY <1>3, <1>4, Typed
  <1> QED BY <1>2, <1>5 DEF AfterStep, Holds, Runs

LEMMA FollowUpFailsType ==
    ASSUME TypeInv, req.pc \in FollowUp, UNCHANGED <<up, crashes>>, FollowUpFails
    PROVE  ReqOK /\ Fell /\ faults' \in Nat /\ pending' \in BOOLEAN /\ taint' \subseteq {"unrestored", "cut"}
  <1>1. req.pc # "idle" /\ Fault
    BY DEF FollowUp, FollowUpFails
  <1>2. faults' \in Nat /\ pending \in BOOLEAN /\ taint \subseteq {"unrestored", "cut"}
    BY <1>1, FaultTyped, RestOfType
  <1>3. CASE req.kind = "append"
    <2>1. req' = Idle /\ result' = "committed" /\ pending' = TRUE /\ taint' = taint \union {"cut"}
      BY <1>3 DEF FollowUpFails, EndCommitted, End
    <2>2. ReqOK
      BY <2>1, Ends DEF Results
    <2>3. taint' \subseteq {"unrestored", "cut"}
      BY <1>2, <2>1
    <2>4. Fell /\ pending' \in BOOLEAN
      BY <1>3, <2>1 DEF Fell
    <2> QED BY <1>2, <2>2, <2>3, <2>4
  <1>4. CASE req.kind # "append"
    <2> USE <1>4
    <2>1. Goto("rollback") /\ UNCHANGED <<pending, taint>>
      BY DEF FollowUpFails
    <2>2. req \in ReqRec /\ KindAt(req.pc, req.kind)
      BY <1>1, Busy
    <2>3. "rollback" \in Pcs \ {"idle"} /\ KindAt("rollback", req.kind)
      BY <2>2 DEF Pcs, KindAt, FollowUp
    <2>4. ReqOK
      BY <1>1, <2>1, <2>3, GoesTo
    <2>5. Moved("rollback")
      BY <2>1, <2>2, <2>3, Moves DEF Moved
    <2> QED BY <1>2, <2>1, <2>4, <2>5 DEF Fell
  <1> QED BY <1>3, <1>4

LEMMA MovesOn ==
    ASSUME TypeInv, req.pc \in FollowUp, NEW p \in {"admission", "refresh", "signers"}, UNCHANGED <<up, crashes>>,
           NoFault, Goto(p), UNCHANGED <<pending, taint>>
    PROVE  ReqOK /\ Moved(p) /\ faults' \in Nat /\ pending' \in BOOLEAN /\ taint' \subseteq {"unrestored", "cut"}
  <1>1. req.pc # "idle"
    BY DEF FollowUp
  <1>2. req \in ReqRec /\ KindAt(req.pc, req.kind)
    BY <1>1, Busy, Zenon
  <1>3. p \in Pcs \ {"idle"} /\ KindAt(p, req.kind)
    BY <1>2 DEF Pcs, KindAt, FollowUp
  <1>4. ReqOK
    BY <1>1, <1>3, GoesTo
  <1>5. Moved(p)
    BY <1>2, <1>3, Moves DEF Moved
  <1> QED BY <1>4, <1>5, RestOfType, FaultTyped

LEMMA AdmissionType ==
    ASSUME TypeInv, AfterAdmission
    PROVE  TypeInv' /\ AdmissionStep
  <1> /\ req.pc = "admission" /\ UNCHANGED envVars /\ UNCHANGED <<up, crashes>>
      /\ UNCHANGED <<log, stable, desired, head, signers, cache>>
    BY DEF AfterAdmission, diskVars, envVars, runVars
  <1> req.pc \in FollowUp /\ req.pc # "idle"
    BY DEF FollowUp
  <1>3. req \in ReqRec
    BY Busy
  <1>4. /\ ReqOK /\ (Moved("baseline") \/ Moved("refresh") \/ Fell)
        /\ faults' \in Nat /\ pending' \in BOOLEAN /\ taint' \subseteq {"unrestored", "cut"}
    <2>1. CASE NoFault /\ Goto("baseline") /\ req.kind = "rejoin" /\ UNCHANGED <<pending, taint>>
      <3> USE <2>1
      <3>1. "baseline" \in Pcs \ {"idle"} /\ KindAt("baseline", req.kind)
        BY DEF Pcs, KindAt, FollowUp
      <3>2. ReqOK
        BY <3>1, GoesTo
      <3>3. Moved("baseline")
        BY <1>3, <3>1, Moves DEF Moved
      <3> QED BY <3>2, <3>3, RestOfType, FaultTyped
    <2>2. CASE NoFault /\ Goto("refresh") /\ UNCHANGED <<pending, taint>>
      BY <2>2, MovesOn
    <2>3. CASE FollowUpFails
      BY <2>3, FollowUpFailsType
    <2> QED BY <2>1, <2>2, <2>3 DEF AfterAdmission
  <1>5. RestOK
    BY <1>4, RestOfType DEF RestOK
  <1>6. TypeInv'
    BY <1>4, <1>5, Typed
  <1> QED BY <1>4, <1>6, Zenon DEF AdmissionStep, Holds, Runs

LEMMA RefreshType ==
    ASSUME TypeInv, RefreshLocalAdvertisement
    PROVE  TypeInv' /\ RefreshStep
  <1> /\ req.pc = "refresh" /\ UNCHANGED envVars /\ UNCHANGED <<up, crashes>>
      /\ UNCHANGED <<log, stable, desired, head, signers, cache>>
    BY DEF RefreshLocalAdvertisement, diskVars, envVars, runVars
  <1>2. req.pc \in FollowUp
    BY DEF FollowUp
  <1>3. /\ ReqOK /\ (Moved("signers") \/ Fell)
        /\ faults' \in Nat /\ pending' \in BOOLEAN /\ taint' \subseteq {"unrestored", "cut"}
    BY <1>2, MovesOn, FollowUpFailsType DEF RefreshLocalAdvertisement
  <1>4. RestOK
    BY <1>3, RestOfType DEF RestOK
  <1>5. TypeInv'
    BY <1>3, <1>4, Typed
  <1> QED BY <1>3, <1>5, Zenon DEF RefreshStep, Holds, Runs

LEMMA SignersType ==
    ASSUME TypeInv, CommitSignerCertificates
    PROVE  TypeInv' /\ SignersStep
  <1> DEFINE next == signers \union req.used
  <1> /\ req.pc = "signers" /\ UNCHANGED envVars /\ UNCHANGED <<up, crashes>>
      /\ UNCHANGED <<log, stable, desired, head, taint>>
    BY DEF CommitSignerCertificates, envVars, diskVars, runVars
  <1>2. req.pc \in FollowUp /\ req.pc # "idle"
    BY DEF FollowUp
  <1>3. req \in ReqRec /\ req.used \subseteq Signer /\ KindAt(req.pc, req.kind)
    BY <1>2, Busy
  <1>4. next \subseteq Signer /\ signers \subseteq Signer /\ cache \subseteq Signer
    BY <1>3, RestOfType
  <1>5. \/ NoFault /\ EndOk /\ signers' = next /\ cache' = IF next = signers THEN cache ELSE next
        \/ /\ Fault /\ cache' \in {cache, next} /\ req.kind = "restore"
           /\ Goto("rollback") /\ UNCHANGED pending /\ signers' \in {signers, next}
        \/ /\ Fault /\ cache' \in {cache, next} /\ EndCommitted /\ signers' = next
    BY DEF CommitSignerCertificates
  <1>6. next = signers \union req.used
    OBVIOUS
  <1> HIDE DEF next
  <1>7. cache' \subseteq Signer /\ signers' \subseteq Signer
    BY <1>4, <1>5
  <1>8. faults' \in Nat
    BY <1>5, FaultTyped
  <1>9. CASE NoFault /\ EndOk /\ signers' = next /\ cache' = IF next = signers THEN cache ELSE next
    <2> USE <1>9
    <2>1. Done /\ pending' \in BOOLEAN /\ req' = Idle /\ result' \in Results
      BY EndOkDone
    <2>2. ReqOK
      BY <2>1, Ends
    <2>3. RestOK
      BY <1>7, <1>8, <2>1, RestOfType DEF RestOK
    <2>4. TypeInv'
      BY <2>2, <2>3, Typed
    <2>5. cache' = signers' \/ (signers' = signers /\ cache' = cache)
      <3>1. CASE next = signers
        BY <3>1
      <3>2. CASE next # signers
        BY <3>2
      <3> QED BY <3>1, <3>2
    <2> QED BY <1>6, <2>1, <2>4, <2>5, Zenon DEF SignersStep, Runs
  <1>10. CASE req.kind = "restore" /\ Goto("rollback") /\ UNCHANGED pending
    <2> USE <1>10
    <2>1. "rollback" \in Pcs \ {"idle"} /\ KindAt("rollback", req.kind)
      BY DEF Pcs, KindAt, FollowUp
    <2>2. ReqOK
      BY <1>2, <2>1, GoesTo
    <2>3. Moved("rollback")
      BY <1>3, <2>1, Moves DEF Moved
    <2>4. RestOK
      BY <1>7, <1>8, RestOfType DEF RestOK
    <2>5. TypeInv'
      BY <2>2, <2>4, Typed
    <2> QED BY <2>3, <2>5, Zenon DEF SignersStep, Runs
  <1>11. CASE EndCommitted /\ signers' = next
    <2>1. req' = Idle /\ result' = "committed" /\ pending' = TRUE
      BY <1>11 DEF EndCommitted, End
    <2>2. Done
      BY <2>1 DEF Done
    <2>3. ReqOK
      BY <2>1, Ends DEF Results
    <2>4. RestOK
      BY <1>7, <1>8, <2>1, RestOfType DEF RestOK
    <2>5. TypeInv'
      BY <2>3, <2>4, Typed
    <2>6. signers' = signers \union req.used /\ pending'
      BY <1>6, <1>11, <2>1
    <2> QED BY <2>2, <2>5, <2>6, Zenon DEF SignersStep, Runs
  <1> QED BY <1>5, <1>9, <1>10, <1>11

LEMMA RollbackType ==
    ASSUME TypeInv, Rollback
    PROVE  TypeInv' /\ RollbackStep
  <1> req.pc = "rollback" /\ UNCHANGED envVars /\ UNCHANGED <<up, crashes>>
    BY DEF Rollback, envVars
  <1>2. /\ GoodLog(req.old.log) /\ req.old.desired \in Desired /\ req.old.head \in Log
        /\ req.old.signers \subseteq Signer
    BY Busy
  <1>3. pending \in BOOLEAN
    BY RestOfType
  <1>4. CASE \E clean \in BOOLEAN :
             /\ IF clean THEN NoFault ELSE Fault
             /\ log' = req.old.log
             /\ stable' \in IF clean THEN {{log'}} ELSE {{log'}, stable \union {log'}}
             /\ signers' = req.old.signers
             /\ cache' \in IF clean THEN {signers'} ELSE {cache, signers'}
             /\ desired' = req.old.desired /\ head' = req.old.head
             /\ pending' = (pending \/ ~clean)
             /\ End("failed")
             /\ UNCHANGED taint
    <2>1. PICK clean \in BOOLEAN :
             /\ IF clean THEN NoFault ELSE Fault
             /\ log' = req.old.log
             /\ stable' \in IF clean THEN {{log'}} ELSE {{log'}, stable \union {log'}}
             /\ signers' = req.old.signers
             /\ cache' \in IF clean THEN {signers'} ELSE {cache, signers'}
             /\ desired' = req.old.desired /\ head' = req.old.head
             /\ pending' = (pending \/ ~clean)
             /\ End("failed")
             /\ UNCHANGED taint
      BY <1>4
    <2>2. req' = Idle /\ result' = "failed" /\ (Fault \/ NoFault)
      BY <2>1 DEF End
    <2>3. ReqOK
      BY <2>2, Ends DEF Results
    <2>4. \A l \in stable' : GoodLog(l)
      <3>1. stable' = {log'} \/ stable' = stable \union {log'}
        BY <2>1
      <3> QED BY <1>2, <2>1, <3>1, RestOfType
    <2>5. cache' = cache \/ cache' = signers'
      BY <2>1
    <2>6. pending' \in BOOLEAN /\ (pending => pending')
      BY <1>3, <2>1, Zenon
    <2>7. pending' \/ cache' = signers'
      <3>1. CASE clean
        BY <2>1, <3>1
      <3>2. CASE ~clean
        BY <2>1, <3>2, Zenon
      <3> QED BY <3>1, <3>2
    <2>8. RestOK
      BY <1>2, <2>1, <2>2, <2>4, <2>5, <2>6, RestOfType, FaultTyped DEF RestOK
    <2>9. TypeInv'
      BY <2>3, <2>8, Typed
    <2> QED BY <2>1, <2>2, <2>6, <2>7, <2>9, Zenon DEF RollbackStep, Runs
  <1>5. CASE /\ Fault /\ EndCommitted /\ taint' = taint \union {"cut"}
             /\ UNCHANGED <<log, stable, desired, head, signers, cache>>
    <2> USE <1>5
    <2>1. req' = Idle /\ result' = "committed" /\ pending' = TRUE
      BY DEF EndCommitted, End
    <2>2. ReqOK
      BY <2>1, Ends DEF Results
    <2>3. RestOK
      BY <2>1, RestOfType, FaultTyped DEF RestOK
    <2>4. TypeInv'
      BY <2>2, <2>3, Typed
    <2> QED BY <2>1, <2>4 DEF RollbackStep, Runs
  <1> QED BY <1>4, <1>5 DEF Rollback, diskVars, runVars

LEMMA CrashType ==
    ASSUME TypeInv, Crash
    PROVE  TypeInv' /\ CrashStep
  <1> /\ up' = "down" /\ crashes' = crashes + 1 /\ log' \in stable \union {log} /\ stable' = {log'}
      /\ req' = Idle /\ result' = "none" /\ pending' = FALSE /\ desired' = FileDesired /\ head' = <<>>
      /\ signers' = {} /\ UNCHANGED <<cache, peer, archive, faults>>
      /\ (taint' = taint \/ taint' = taint \union {"cut"})
    BY DEF Crash
  <1>2. GoodLog(log') /\ \A l \in stable' : GoodLog(l)
    BY RestOfType
  <1>3. <<>> \in Log /\ FileDesired \in Desired /\ crashes \in Nat
    BY LatestOfNone, NodeAssumption DEF TypeInv, TypeOK
  <1>4. KindAt(Idle.pc, Idle.kind)
    BY IdleFacts DEF KindAt, FollowUp
  <1>5. PhaseInv'
    BY <1>3, <1>4, IdleFacts, SMTT(30) DEF PhaseInv
  <1>6. TypeOK'
    <2>1. /\ peer \in Log /\ archive \in Log /\ cache \subseteq Signer /\ faults \in Nat
          /\ taint' \subseteq {"unrestored", "cut"}
      BY RestOfType, Zenon DEF TypeInv, TypeOK
    <2>2. log' \in Log /\ stable' \subseteq Log /\ Len(log') > 0 /\ log'[1] = Genesis
      BY <1>2 DEF GoodLog
    <2>3. /\ peer' \in Log /\ archive' \in Log /\ cache' \subseteq Signer /\ faults' \in Nat
          /\ crashes' \in Nat /\ head' \in Log /\ desired' \in Desired /\ req' \in ReqRec
      BY <1>3, <2>1, IdleFacts
    <2>4. /\ up' \in {"up", "down", "refused"} /\ signers' \subseteq Signer /\ pending' \in BOOLEAN
          /\ result' \in {"none", "ok", "failed", "unrestored", "committed"}
      BY Zenon
    <2> QED BY <2>1, <2>2, <2>3, <2>4, Zenon DEF TypeOK
  <1>7. LogsInv'
    BY <1>2, Zenon DEF TypeInv, LogsInv
  <1> QED BY <1>5, <1>6, <1>7 DEF TypeInv, CrashStep

LEMMA PeerPullsType ==
    ASSUME TypeInv, PeerPulls \/ Export
    PROVE  TypeInv' /\ OtherStep
  <1> /\ result' = "none"
      /\ UNCHANGED <<up, crashes, log, stable, desired, head, signers, cache, pending, req, faults, taint>>
      /\ (peer' = log \/ peer' = peer) /\ (archive' = log \/ archive' = archive)
    BY DEF PeerPulls, Export, diskVars, runVars
  <1>2. TypeOK'
    BY DEF TypeInv, TypeOK
  <1>3. GoodLog(log)
    BY RestOfType
  <1>4. GoodLog(peer') /\ (archive' = <<>> \/ GoodLog(archive'))
    BY <1>3 DEF TypeInv, LogsInv
  <1>5. LogsInv' /\ PhaseInv'
    BY <1>4 DEF TypeInv, LogsInv, PhaseInv
  <1> QED BY <1>2, <1>5 DEF TypeInv, OtherStep, Holds, Runs

LEMMA StutterType ==
    ASSUME TypeInv, UNCHANGED vars
    PROVE  TypeInv' /\ OtherStep
  <1>1. UNCHANGED <<up, log, stable, desired, head, signers, cache, pending, req, result,
                    peer, archive, faults, crashes, taint>>
    BY DEF vars
  <1>2. TypeOK'
    BY <1>1 DEF TypeInv, TypeOK
  <1>3. LogsInv' /\ PhaseInv'
    BY <1>1 DEF TypeInv, LogsInv, PhaseInv
  <1> QED BY <1>1, <1>2, <1>3 DEF TypeInv, OtherStep, Holds, Runs

-----------------------------------------------------------------------------
(* The inductive invariant.                                                  *)

IInv == TypeInv /\ RunInv /\ HeadInv /\ TrustInv /\ SignerInv

LEMMA InitInv == ASSUME Init PROVE IInv /\ OwnInv /\ DesiredInv
  <1> DEFINE g == <<Genesis>>
  <1>1. Genesis \in Event /\ FileDesired \in Desired /\ NoSigner \notin Signer
    BY EventTyped, NodeAssumption
  <1>2. g \in Log /\ Len(g) = 1 /\ g[1] = Genesis /\ Genesis.resource = "genesis" /\ Genesis.by = NoSigner
    BY <1>1 DEF Log, Genesis
  <1>3. GoodLog(g)
    BY <1>2 DEF GoodLog
  <1>4. SignersOf(g) = {} /\ Positions(g, "trust") = {} /\ LocalDesired(g) = {}
    <2>1. 1 .. Len(g) = {1}
      BY <1>2
    <2> HIDE DEF g
    <2> QED BY <1>2, <2>1 DEF SignersOf, Positions, LocalDesired
  <1> HIDE DEF g
  <1> /\ up = "up" /\ log = g /\ stable = {g} /\ desired = FileDesired /\ head = g
      /\ signers = {Local} /\ cache = {} /\ pending = FALSE /\ req = Idle /\ result = "none"
      /\ peer = g /\ archive = <<>> /\ faults = 0 /\ crashes = 0 /\ taint = {}
    BY DEF Init, g
  <1>6. <<>> \in Log /\ Local \in Signer
    BY LatestOfNone DEF Signer
  <1>7. TypeOK
    <2>1. log \in Log /\ stable \subseteq Log /\ Len(log) > 0 /\ log[1] = Genesis
      BY <1>2
    <2>2. /\ desired \in Desired /\ head \in Log /\ signers \subseteq Signer /\ cache \subseteq Signer
          /\ peer \in Log /\ archive \in Log /\ req \in ReqRec
      BY <1>1, <1>2, <1>6, IdleFacts
    <2>3. /\ up \in {"up", "down", "refused"} /\ pending \in BOOLEAN /\ faults \in Nat /\ crashes \in Nat
          /\ result \in {"none", "ok", "failed", "unrestored", "committed"}
          /\ taint \subseteq {"unrestored", "cut"}
      BY Zenon
    <2> QED BY <2>1, <2>2, <2>3, Zenon DEF TypeOK
  <1>8. KindAt(Idle.pc, Idle.kind)
    BY IdleFacts DEF KindAt, FollowUp
  <1>9. PhaseInv /\ LogsInv
    BY <1>3, <1>8, IdleFacts DEF PhaseInv, LogsInv
  <1>10. RunInv /\ HeadInv /\ OwnInv
    BY IdleFacts, Zenon DEF RunInv, HeadInv, OwnInv, HeadOK, Before, Switched, FollowUp
  <1>11. TrustInv
    BY <1>4, IdleFacts, Zenon DEF TrustInv, TrustOK, Before, FollowUp, LatestTrust
  <1>12. SignerInv
    BY <1>4, IdleFacts, Zenon DEF SignerInv, FollowUp
  <1>13. DesiredInv
    BY <1>4, IdleFacts, Zenon DEF DesiredInv, Recorded, Before, LatestDesired
  <1> QED BY <1>7, <1>9, <1>10, <1>11, <1>12, <1>13 DEF IInv, TypeInv
=============================================================================
