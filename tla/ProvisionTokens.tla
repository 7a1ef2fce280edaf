--------------------------- MODULE ProvisionTokens --------------------------
(***************************************************************************)
(* One-time provision tokens: issuing one stores it, approves the new IX   *)
(* and answers; a download consumes the token and then writes the script.  *)
(* The tokens are a map in memory and a state file that is replaced by a   *)
(* rename followed by a sync of the directory.  When the sync fails the    *)
(* new file is in place but a crash of the host may undo the rename.       *)
(* Without a data directory the tokens are in memory only.                 *)
(***************************************************************************)
EXTENDS Naturals

CONSTANTS
    Tokens,        \* provision tokens
    MaxFaults,     \* bound: failed writes and syncs of the state file, failed deliveries
    MaxCrashes     \* bound: crashes

ASSUME ProvisionAssumption == MaxFaults \in Nat /\ MaxCrashes \in Nat

VARIABLES
    mem,        \* provisionTokens: "none", "fresh" or "used"
    loaded,     \* provisionLoaded
    dataDir,    \* whether cfg.DataDir is set
    disk,       \* what the state file says
    undone,     \* what else it may say after a crash of the host: renames not synced
    issue,      \* where the request that issues a token is
    expired,    \* tokens past their expiry
    writing,    \* downloads that have consumed the token and write the script
    delivered,  \* history: scripts written whole
    taken,      \* history: tokens a download has marked used
    faults, crashes

vars == <<mem, loaded, dataDir, disk, undone, issue, expired, writing, delivered, taken, faults, crashes>>

NoTokens == [t \in Tokens |-> "none"]

Init ==
    /\ mem = NoTokens /\ disk = NoTokens /\ undone = {} /\ loaded = FALSE /\ dataDir \in BOOLEAN
    /\ issue = [t \in Tokens |-> "new"]
    /\ expired = {} /\ writing = [t \in Tokens |-> 0] /\ delivered = [t \in Tokens |-> 0]
    /\ taken = {} /\ faults = 0 /\ crashes = 0

\* loadIXProvisionTokensLocked: the file, if there is to be one, is read once.
Loaded == IF loaded THEN mem ELSE IF dataDir THEN disk ELSE NoTokens

\* cloneIXProvisionTokens, pruneIXProvisionTokens.
Pruned(m) == [t \in Tokens |-> IF t \in expired THEN "none" ELSE m[t]]

\* persistIXProvisionTokensLocked with writeStateFileAtomic, and what the callers
\* make of its outcome: the map is replaced unless the rename did not happen.
Persist(m, outcome) ==
    /\ loaded' = TRUE
    /\ CASE outcome = "ok"      -> /\ mem' = m /\ faults' = faults
                                  /\ IF dataDir THEN disk' = Pruned(m) /\ undone' = {}
                                     ELSE UNCHANGED <<disk, undone>>
         [] outcome = "unknown" -> /\ mem' = m /\ disk' = Pruned(m) /\ undone' = undone \union {disk}
                                  /\ dataDir /\ faults < MaxFaults /\ faults' = faults + 1
         [] outcome = "fails"   -> /\ mem' = Loaded /\ UNCHANGED <<disk, undone>>
                                  /\ dataDir /\ faults < MaxFaults /\ faults' = faults + 1

Outcomes == {"ok", "unknown", "fails"}

\* Mutant: an unknown outcome is taken for success.
AfterStoreTrusting(outcome) == IF outcome = "fails" THEN "refused" ELSE "admit"

\* issueIXProvisionToken after storeIXProvisionToken.
AfterStore(outcome) ==
    CASE outcome = "ok" -> "admit" [] outcome = "unknown" -> "delete" [] outcome = "fails" -> "refused"

\* storeIXProvisionToken.
Store(t) ==
    /\ issue[t] = "new"
    /\ \E o \in Outcomes :
         Persist([Pruned(Loaded) EXCEPT ![t] = "fresh"], o) /\ issue' = [issue EXCEPT ![t] = AfterStore(o)]
    /\ UNCHANGED <<dataDir, expired, writing, delivered, taken, crashes>>

\* applyAdmissionConfig: approved, or refused and the token is taken back.
Admit(t) ==
    /\ issue[t] = "admit"
    /\ \E next \in {"answered", "delete"} : issue' = [issue EXCEPT ![t] = next]
    /\ UNCHANGED <<mem, loaded, dataDir, disk, undone, expired, writing, delivered, taken, faults, crashes>>

\* deleteIXProvisionToken.
Delete(t) ==
    /\ issue[t] = "delete"
    /\ \E o \in Outcomes : Persist([Loaded EXCEPT ![t] = "none"], o)
    /\ issue' = [issue EXCEPT ![t] = "refused"]
    /\ UNCHANGED <<dataDir, expired, writing, delivered, taken, crashes>>

\* Mutant: the script is sent although the file may not survive a crash.
GivenTrusting(outcome) == outcome # "fails"

\* consumeIXProvisionToken returns the record only when the file is durable.
Given(outcome) == outcome = "ok"

\* serveIXProvisionIfRequest up to consumeIXProvisionToken; the token is known
\* to the outside once issuing has answered.
Consume(t) ==
    LET next == Pruned(Loaded) IN
    /\ issue[t] = "answered"
    /\ \/ /\ next[t] = "none"
          /\ \E o \in Outcomes : Persist(next, o)
          /\ UNCHANGED <<writing, taken>>
       \/ /\ next[t] = "used" /\ mem' = Loaded /\ loaded' = TRUE
          /\ UNCHANGED <<disk, undone, faults, writing, taken>>
       \/ /\ next[t] = "fresh"
          /\ \E o \in Outcomes :
               /\ Persist([next EXCEPT ![t] = "used"], o)
               /\ taken' = IF o = "fails" THEN taken ELSE taken \union {t}
               /\ writing' = IF Given(o) THEN [writing EXCEPT ![t] = @ + 1] ELSE writing
    /\ UNCHANGED <<dataDir, issue, expired, delivered, crashes>>

\* The script is written, or the connection fails and only an error is recorded.
Deliver(t) ==
    /\ writing[t] > 0 /\ writing' = [writing EXCEPT ![t] = @ - 1]
    /\ \/ delivered' = [delivered EXCEPT ![t] = @ + 1] /\ faults' = faults
       \/ faults < MaxFaults /\ faults' = faults + 1 /\ delivered' = delivered
    /\ UNCHANGED <<mem, loaded, dataDir, disk, undone, issue, expired, taken, crashes>>

Expire(t) ==
    /\ t \notin expired /\ issue[t] # "new" /\ expired' = expired \union {t}
    /\ UNCHANGED <<mem, loaded, dataDir, disk, undone, issue, writing, delivered, taken, faults, crashes>>

\* The daemon stops and starts again, or the host does, and the file is as it was
\* at any point since the directory was last synced.
Crash ==
    /\ crashes < MaxCrashes /\ crashes' = crashes + 1
    /\ \/ UNCHANGED <<disk, undone>>
       \/ undone' = {} /\ disk' \in {disk} \union undone
    /\ mem' = NoTokens /\ loaded' = FALSE
    /\ issue' = [t \in Tokens |-> IF issue[t] \in {"admit", "delete"} THEN "refused" ELSE issue[t]]
    /\ writing' = [t \in Tokens |-> 0]
    /\ UNCHANGED <<dataDir, expired, delivered, taken, faults>>

Next ==
    \/ \E t \in Tokens : Store(t) \/ Admit(t) \/ Delete(t) \/ Consume(t) \/ Deliver(t) \/ Expire(t)
    \/ Crash

Spec == Init /\ [][Next]_vars

-----------------------------------------------------------------------------

\* A token gives its script away at most once, whatever fails and whenever the
\* daemon crashes (consumeIXProvisionToken, serveIXProvisionIfRequest).
AtMostOnce == \A t \in Tokens : writing[t] + delivered[t] <= 1

\* A token that was answered and that no download has marked used can be
\* consumed until it expires, after any failed write and, when there is a data
\* directory, after any crash (issueIXProvisionToken, storeIXProvisionToken).
IssuedUsable ==
    dataDir \/ crashes = 0 => \A t \in Tokens :
        issue[t] = "answered" /\ t \notin expired /\ t \notin taken => Loaded[t] = "fresh"

\* A used token has given its script away, or is about to.
UsedIsDelivered ==
    \A t \in Tokens : Loaded[t] = "used" => writing[t] + delivered[t] > 0

=============================================================================
