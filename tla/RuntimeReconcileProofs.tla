----------------------- MODULE RuntimeReconcileProofs -----------------------
(***************************************************************************)
(* No request for a reconcile is ever forgotten, for any number of callers *)
(* and any list of steps.  NothingForgotten is not inductive: when a pass  *)
(* ends and pending is dropped one has to know that every aspect was       *)
(* covered.  PassInv says what the pass owes: as long as it has not failed *)
(* and the generation is the one it serves, whatever is out of date is     *)
(* ahead of it, or is about to be reported by the caller that caused it.   *)
(***************************************************************************)
EXTENDS RuntimeReconcile, TLAPS

About(a) == \E c \in Callers : caller[c] = [pc |-> "request", aspect |-> a]

Ahead(a) == \E k \in 1 .. Len(Steps) : k >= worker.next /\ Steps[k] = a

\* The pass under way serves a generation that exists, for a request that is
\* still pending, and has everything that is out of date ahead of it.
PassInv ==
    worker.pc \in {"pass", "finish"} =>
        /\ pending
        /\ worker.generation <= generation
        /\ worker.pc = "finish" => worker.next = Len(Steps) + 1
        /\ ~worker.failed /\ worker.generation = generation
           => \A a \in stale : About(a) \/ Ahead(a)

IInv == TypeOK /\ NothingForgotten /\ PassInv

\* The records the actions build are well typed.
LEMMA Records ==
  /\ Len(Steps) \in Nat /\ 1 \in 1 .. Len(Steps) /\ 1 \in 1 .. Len(Steps) + 1
  /\ Waiting \in WorkerRec /\ Waiting.pc = "wait" /\ Waiting.next = 1
  /\ Quiet \in CallerRec
  /\ \A a \in Aspect : [pc |-> "request", aspect |-> a] \in CallerRec
  /\ [pc |-> "wake", aspect |-> None] \in CallerRec
  BY ReconcileAssumption DEF Waiting, WorkerRec, Quiet, CallerRec

\* A daemon that starts has nothing to reconcile.
LEMMA InitInv == Init => IInv
  <1> SUFFICES ASSUME Init PROVE IInv
    OBVIOUS
  <1>1. TypeOK
    BY Records DEF Init, TypeOK
  <1>2. NothingForgotten /\ PassInv
    BY DEF Init, NothingForgotten, PassInv, Waiting
  <1> QED BY <1>1, <1>2 DEF IInv

\* What a step of a pass makes of the worker's record.
LEMMA StepRecord ==
  ASSUME TypeOK, NEW ok \in BOOLEAN, ReconcileStep(ok)
  PROVE  /\ worker' \in WorkerRec /\ worker'.next = worker.next + 1
         /\ worker'.pc = IF worker.next = Len(Steps) THEN "finish" ELSE "pass"
  <1> DEFINE pc == IF worker.next = Len(Steps) THEN "finish" ELSE "pass"
             next == worker.next + 1
             failed == worker.failed \/ ~ok
  <1>1. failed \in BOOLEAN
    <2>1. CASE failed
      BY <2>1
    <2>2. CASE ~failed
      BY <2>2
    <2> QED BY <2>1, <2>2
  <1>2. pc \in {"finish", "pass"} /\ next \in Nat /\ worker \in WorkerRec
    BY DEF TypeOK
  <1>3. worker' = [worker EXCEPT !.pc = pc, !.next = next, !.failed = failed]
    BY DEF ReconcileStep
  <1> HIDE DEF pc, next, failed
  <1>4. worker' \in WorkerRec /\ worker'.next = next /\ worker'.pc = pc
    BY <1>1, <1>2, <1>3 DEF WorkerRec
  <1> QED BY <1>4 DEF pc, next

\* Every step keeps the types.
LEMMA NextType == TypeOK /\ [Next]_vars => TypeOK'
  <1> SUFFICES ASSUME TypeOK, [Next]_vars PROVE TypeOK'
    OBVIOUS
  <1> USE Records DEF TypeOK
  <1>1. ASSUME NEW c \in Callers, NEW a \in Aspect, FollowUpFails(c, a) PROVE TypeOK'
    BY <1>1 DEF FollowUpFails
  <1>2. ASSUME NEW c \in Callers, RequestRuntimeReconcile(c) PROVE TypeOK'
    BY <1>2 DEF RequestRuntimeReconcile
  <1>3. ASSUME NEW c \in Callers, Wake(c) PROVE TypeOK'
    BY <1>3 DEF Wake
  <1>4. CASE WakeUp
    <2>1. worker' \in WorkerRec /\ worker'.pc = "retry" /\ worker'.next = worker.next
      BY <1>4 DEF WakeUp, WorkerRec
    <2> QED BY <1>4, <2>1 DEF WakeUp
  <1>5. CASE BeginAttempt
    <2>1. worker' \in WorkerRec /\ worker'.next = 1
      BY <1>5 DEF BeginAttempt, Waiting, WorkerRec
    <2> QED BY <1>5, <2>1 DEF BeginAttempt
  <1>6. ASSUME NEW ok \in BOOLEAN, ReconcileStep(ok) PROVE TypeOK'
    <2>1. worker.next \in 1 .. Len(Steps)
      BY <1>6 DEF ReconcileStep
    <2>2. /\ worker' \in WorkerRec /\ worker'.next = worker.next + 1
          /\ worker'.pc = IF worker.next = Len(Steps) THEN "finish" ELSE "pass"
      BY <1>6, StepRecord
    <2>3. faults' \in Nat /\ stale' \subseteq Aspect
      BY <1>6 DEF ReconcileStep
    <2> QED BY <1>6, <2>1, <2>2, <2>3 DEF ReconcileStep
  <1>7. CASE FinishAttempt
    BY <1>7 DEF FinishAttempt
  <1>8. CASE UNCHANGED vars
    BY <1>8 DEF vars
  <1> QED
    BY <1>1, <1>2, <1>3, <1>4, <1>5, <1>6, <1>7, <1>8 DEF Next, CallerStep, WorkerStep

\* A caller that fails leaves something out of date, and is the one about to
\* report it.
LEMMA FollowUpInv ==
  ASSUME IInv, NEW c \in Callers, NEW a \in Aspect, FollowUpFails(c, a)
  PROVE  NothingForgotten' /\ PassInv'
  <1> USE DEF IInv, FollowUpFails
  <1>1. About(a)'
    BY DEF TypeOK, About
  <1>2. \A b \in stale : About(b) => About(b)'
    BY DEF TypeOK, About, Quiet
  <1>3. NothingForgotten'
    BY <1>1, <1>2 DEF NothingForgotten, About
  <1>4. PassInv'
    BY <1>1, <1>2 DEF PassInv, Ahead
  <1> QED BY <1>3, <1>4

\* A request makes a new generation, which no pass under way serves.
LEMMA RequestInv ==
  ASSUME IInv, NEW c \in Callers, RequestRuntimeReconcile(c)
  PROVE  NothingForgotten' /\ PassInv'
  <1> USE DEF IInv, RequestRuntimeReconcile
  <1>1. worker' = worker /\ generation' = generation + 1 /\ pending'
    OBVIOUS
  <1>2. worker.pc \in {"pass", "finish"} => worker.generation # generation'
    BY <1>1 DEF PassInv, TypeOK, WorkerRec
  <1>3. worker.pc \in {"pass", "finish"} => worker.generation <= generation'
    BY <1>1 DEF PassInv, TypeOK, WorkerRec
  <1> QED BY <1>1, <1>2, <1>3 DEF NothingForgotten, PassInv

\* The send changes nothing that is owed.
LEMMA WakeInv ==
  ASSUME IInv, NEW c \in Callers, Wake(c)
  PROVE  NothingForgotten' /\ PassInv'
  <1> USE DEF IInv, Wake
  <1>1. \A b \in stale : About(b) => About(b)'
    BY DEF TypeOK, About
  <1> QED BY <1>1 DEF NothingForgotten, PassInv, About, Ahead

\* An attempt that begins has all its steps ahead.
LEMMA BeginInv ==
  ASSUME IInv, BeginAttempt
  PROVE  NothingForgotten' /\ PassInv'
  <1> USE DEF IInv, BeginAttempt
  <1>1. NothingForgotten'
    BY DEF NothingForgotten
  <1>2. CASE pending
    <2>1. /\ worker'.pc = "pass" /\ worker'.next = 1
          /\ worker'.generation = generation /\ pending' /\ generation' = generation
      BY <1>2 DEF Waiting
    <2>2. ASSUME NEW a \in stale PROVE Ahead(a)'
      <3>1. PICK k \in 1 .. Len(Steps) : Steps[k] = a
        BY DEF TypeOK, Aspect
      <3>2. k >= worker'.next
        BY <2>1, Records
      <3> QED BY <3>1, <3>2 DEF Ahead
    <2>3. stale' = stale /\ worker'.generation <= generation'
      BY <2>1 DEF TypeOK
    <2> QED BY <1>1, <2>1, <2>2, <2>3 DEF PassInv
  <1>3. CASE ~pending
    BY <1>1, <1>3 DEF PassInv, Waiting
  <1> QED BY <1>2, <1>3

\* A step that succeeds settles the aspect it is about and leaves the others
\* ahead; one that fails marks the pass.
LEMMA StepInv ==
  ASSUME IInv, NEW ok \in BOOLEAN, ReconcileStep(ok)
  PROVE  NothingForgotten' /\ PassInv'
  <1> USE DEF IInv
  <1>1. /\ worker.next \in 1 .. Len(Steps) /\ worker'.next = worker.next + 1
        /\ worker'.pc = IF worker.next = Len(Steps) THEN "finish" ELSE "pass"
        /\ worker'.generation = worker.generation
        /\ worker'.failed = (worker.failed \/ ~ok)
        /\ stale' = IF ok THEN stale \ {Steps[worker.next]} ELSE stale
        /\ caller' = caller /\ pending' = pending /\ generation' = generation
    BY DEF ReconcileStep, TypeOK
  <1>2. NothingForgotten'
    BY <1>1 DEF NothingForgotten
  <1>3. pending /\ worker.generation <= generation
    BY DEF PassInv, ReconcileStep
  <1>4. ASSUME ~worker'.failed, worker'.generation = generation', NEW a \in stale'
        PROVE  About(a)' \/ Ahead(a)'
    <2>1. ok /\ ~worker.failed /\ a \in stale /\ a # Steps[worker.next]
      BY <1>1, <1>4
    <2>2. About(a) \/ Ahead(a)
      BY <1>1, <1>4, <2>1 DEF PassInv, ReconcileStep
    <2>3. CASE About(a)
      BY <1>1, <2>3 DEF About
    <2>4. CASE Ahead(a)
      BY <1>1, <2>1, <2>4, ReconcileAssumption DEF Ahead
    <2> QED BY <2>2, <2>3, <2>4
  <1>5. worker'.pc = "finish" => worker'.next = Len(Steps) + 1
    BY <1>1
  <1> QED BY <1>1, <1>2, <1>3, <1>4, <1>5 DEF PassInv

\* The pass drops what is pending only when nothing is left ahead of it.
LEMMA FinishInv ==
  ASSUME IInv, FinishAttempt
  PROVE  NothingForgotten' /\ PassInv'
  <1> USE DEF IInv, FinishAttempt
  <1>1. PassInv'
    BY DEF PassInv, Waiting
  <1>2. CASE worker.failed \/ generation # worker.generation
    BY <1>1, <1>2 DEF NothingForgotten, PassInv
  <1>3. CASE ~worker.failed /\ generation = worker.generation
    <2>1. \A a \in stale : About(a) \/ Ahead(a)
      BY <1>3 DEF PassInv
    <2>2. \A a \in stale : ~Ahead(a)
      BY ReconcileAssumption DEF PassInv, Ahead
    <2> QED BY <1>1, <2>1, <2>2 DEF NothingForgotten, About
  <1> QED BY <1>2, <1>3

\* The invariant is inductive.
LEMMA NextInv == IInv /\ [Next]_vars => IInv'
  <1> SUFFICES ASSUME IInv, [Next]_vars PROVE IInv'
    OBVIOUS
  <1>1. TypeOK'
    BY NextType DEF IInv
  <1>2. ASSUME WakeUp PROVE NothingForgotten' /\ PassInv'
    <2>1. worker'.pc = "retry"
      BY <1>2 DEF WakeUp, IInv, TypeOK, WorkerRec
    <2> QED BY <1>2, <2>1 DEF IInv, WakeUp, NothingForgotten, PassInv
  <1>3. ASSUME UNCHANGED vars PROVE NothingForgotten' /\ PassInv'
    BY <1>3 DEF IInv, vars, NothingForgotten, PassInv, About, Ahead
  <1>4. NothingForgotten' /\ PassInv'
    BY <1>2, <1>3, FollowUpInv, RequestInv, WakeInv, BeginInv, StepInv, FinishInv,
       Zenon DEF Next, CallerStep, WorkerStep
  <1> QED BY <1>1, <1>4 DEF IInv

\* The inductive invariant holds in every reachable state.
THEOREM Invariance == Spec => []IInv
  BY InitInv, NextInv, PTL DEF Spec

\* The worker and its callers stay well typed, and a pass within its steps.
THEOREM TypeCorrect == Spec => []TypeOK
  <1>1. IInv => TypeOK
    BY DEF IInv
  <1> QED BY <1>1, Invariance, PTL

\* Whatever is out of date has a reconcile pending or a caller about to ask
\* for one (retryPendingRuntimeReconcile compares generations before it drops
\* what is pending).
THEOREM NothingForgottenTheorem == Spec => []NothingForgotten
  <1>1. IInv => NothingForgotten
    BY DEF IInv
  <1> QED BY <1>1, Invariance, PTL
=============================================================================
