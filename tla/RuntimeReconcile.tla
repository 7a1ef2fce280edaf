-------------------------- MODULE RuntimeReconcile --------------------------
(***************************************************************************)
(* The reconcile worker of internal/daemon/runtime_reconcile.go.  Any part *)
(* of the daemon that committed a change and could not carry it through    *)
(* asks for a reconcile; one worker, woken by the request or by a ticker,  *)
(* goes over the whole runtime state and drops the request if everything   *)
(* went well and nothing was asked for in the meantime.                    *)
(*                                                                         *)
(* The runtime state is a sequence of aspects (head, trust, admissions,    *)
(* grants, sessions, persisted members, signer cache, dataplane,           *)
(* advertisement); stale are those that do not follow what was committed.  *)
(* A pass holds configMu, but the callers that do not (membership, the     *)
(* data path, the reapers) may leave an aspect stale while it runs.        *)
(***************************************************************************)
EXTENDS Naturals, Sequences

CONSTANTS
    Callers,      \* goroutines that may ask for a reconcile
    Steps,        \* the aspects, in the order a pass goes over them
    None,         \* a caller with nothing to report
    MaxRequests,  \* bound: failures of callers
    MaxFaults     \* bound: failures of the worker's steps

Aspect == {Steps[k] : k \in 1 .. Len(Steps)}

ASSUME ReconcileAssumption ==
    /\ Steps \in Seq(Aspect) /\ Len(Steps) > 0 /\ None \notin Aspect
    /\ MaxRequests \in Nat /\ MaxFaults \in Nat

VARIABLES
    stale,        \* the aspects that are out of date
    caller,       \* caller[c]: what c has to report, or has reported
    pending,      \* reconcileState.Pending
    generation,   \* reconcileGeneration
    wake,         \* the channel reconcileWake, of capacity one
    worker,       \* where the worker is
    requests,     \* history: failures of callers
    faults        \* history: failures of the worker

vars == <<stale, caller, pending, generation, wake, worker, requests, faults>>

Waiting == [pc |-> "wait", generation |-> 0, next |-> 1, failed |-> FALSE]
Quiet == [pc |-> "idle", aspect |-> None]

Init ==
    /\ stale = {}
    /\ caller = [c \in Callers |-> Quiet]
    /\ pending = FALSE /\ generation = 0 /\ wake = FALSE
    /\ worker = Waiting
    /\ requests = 0 /\ faults = 0

\* Something a caller does is committed and its follow-up fails.
FollowUpFails(c, a) ==
    /\ caller[c] = Quiet
    /\ requests < MaxRequests /\ requests' = requests + 1
    /\ stale' = stale \union {a}
    /\ caller' = [caller EXCEPT ![c] = [pc |-> "request", aspect |-> a]]
    /\ UNCHANGED <<pending, generation, wake, worker, faults>>

\* requestRuntimeReconcile, under reconcileMu.
RequestRuntimeReconcile(c) ==
    /\ caller[c].pc = "request"
    /\ generation' = generation + 1
    /\ pending' = TRUE
    /\ caller' = [caller EXCEPT ![c] = [pc |-> "wake", aspect |-> None]]
    /\ UNCHANGED <<stale, wake, worker, requests, faults>>

\* And then the send that does not block.
Wake(c) ==
    /\ caller[c].pc = "wake"
    /\ wake' = TRUE
    /\ caller' = [caller EXCEPT ![c] = Quiet]
    /\ UNCHANGED <<stale, pending, generation, worker, requests, faults>>

\* Mutant: the worker has no ticker.
WakeUpNoTicker ==
    /\ worker.pc = "wait"
    /\ wake /\ wake' = FALSE
    /\ worker' = [worker EXCEPT !.pc = "retry"]
    /\ UNCHANGED <<stale, caller, pending, generation, requests, faults>>

\* runtimeReconcileWorker: woken, or the ticker fires.
WakeUp ==
    /\ worker.pc = "wait"
    /\ wake' \in {wake, FALSE}
    /\ worker' = [worker EXCEPT !.pc = "retry"]
    /\ UNCHANGED <<stale, caller, pending, generation, requests, faults>>

\* Mutant: the attempt does not note the generation it serves.
BeginAttemptNoGeneration ==
    /\ worker.pc = "retry"
    /\ worker' = IF pending THEN [Waiting EXCEPT !.pc = "pass"] ELSE Waiting
    /\ UNCHANGED <<stale, caller, pending, generation, wake, requests, faults>>

\* retryPendingRuntimeReconcile up to the unlock of reconcileMu.
BeginAttempt ==
    /\ worker.pc = "retry"
    /\ worker' = IF pending THEN [Waiting EXCEPT !.pc = "pass", !.generation = generation]
                 ELSE Waiting
    /\ UNCHANGED <<stale, caller, pending, generation, wake, requests, faults>>

\* Mutant: the pass goes one step too far.
ReconcileStepTooFar(ok) ==
    /\ worker.pc = "pass"
    /\ ok \/ faults < MaxFaults
    /\ faults' = IF ok THEN faults ELSE faults + 1
    /\ stale' = IF ok THEN stale \ {Steps[worker.next]} ELSE stale
    /\ worker' = [worker EXCEPT !.pc = IF worker.next > Len(Steps) THEN "finish" ELSE "pass",
                                !.next = worker.next + 1,
                                !.failed = worker.failed \/ ~ok]
    /\ UNCHANGED <<caller, pending, generation, wake, requests>>

\* One step of reconcileRuntimeState; the steps after it are taken whether it
\* fails or not.
ReconcileStep(ok) ==
    /\ worker.pc = "pass"
    /\ ok \/ faults < MaxFaults
    /\ faults' = IF ok THEN faults ELSE faults + 1
    /\ stale' = IF ok THEN stale \ {Steps[worker.next]} ELSE stale
    /\ worker' = [worker EXCEPT !.pc = IF worker.next = Len(Steps) THEN "finish" ELSE "pass",
                                !.next = worker.next + 1,
                                !.failed = worker.failed \/ ~ok]
    /\ UNCHANGED <<caller, pending, generation, wake, requests>>

\* Mutant: a pass that went well clears whatever is pending by then.
FinishAttemptBlindly ==
    /\ worker.pc = "finish"
    /\ pending' = (pending /\ worker.failed)
    /\ worker' = Waiting
    /\ UNCHANGED <<stale, caller, generation, wake, requests, faults>>

\* The rest of retryPendingRuntimeReconcile, under reconcileMu again.
FinishAttempt ==
    /\ worker.pc = "finish"
    /\ pending' = (pending /\ (worker.failed \/ generation # worker.generation))
    /\ worker' = Waiting
    /\ UNCHANGED <<stale, caller, generation, wake, requests, faults>>

CallerStep(c) == RequestRuntimeReconcile(c) \/ Wake(c)
WorkerStep == WakeUp \/ BeginAttempt \/ FinishAttempt \/ \E ok \in BOOLEAN : ReconcileStep(ok)

Next ==
    \/ \E c \in Callers : CallerStep(c) \/ \E a \in Aspect : FollowUpFails(c, a)
    \/ WorkerStep

Spec == Init /\ [][Next]_vars

\* A goroutine that runs goes on, and the worker's select is always ready
\* within a tick.  No step is assumed to succeed; faults are finite.
Fairness == WF_vars(WorkerStep) /\ \A c \in Callers : WF_vars(CallerStep(c))
FairSpec == Spec /\ Fairness

-----------------------------------------------------------------------------
CallerRec == [pc : {"idle", "request", "wake"}, aspect : Aspect \union {None}]
WorkerRec == [pc : {"wait", "retry", "pass", "finish"}, generation : Nat, next : Nat,
              failed : BOOLEAN]

\* The state of the worker and its callers is well typed, and a pass stays
\* within its steps.
TypeOK ==
    /\ stale \subseteq Aspect
    /\ caller \in [Callers -> CallerRec]
    /\ pending \in BOOLEAN /\ generation \in Nat /\ wake \in BOOLEAN
    /\ worker \in WorkerRec
    /\ requests \in Nat /\ faults \in Nat
    /\ worker.next \in 1 .. Len(Steps) + 1
    /\ worker.pc = "pass" => worker.next <= Len(Steps)

\* Nothing is forgotten: an aspect that is out of date has a reconcile
\* pending, or a caller that is about to ask for one.  "runtime state is
\* reconciled" (runtimeReconcileDoctorCheck) is never said too early.
NothingForgotten ==
    \A a \in stale : pending \/ \E c \in Callers : caller[c] = [pc |-> "request", aspect |-> a]

\* Whatever goes out of date is brought up to date: a request that arrives in
\* the middle of a pass, or whose pass fails, is served by a later one.
EventuallyReconciled == \A a \in Aspect : a \in stale ~> a \notin stale

\* And the daemon is not degraded for ever.
EventuallyQuiet == <>[](~pending)
=============================================================================
