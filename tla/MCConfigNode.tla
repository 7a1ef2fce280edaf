---------------------------- MODULE MCConfigNode ----------------------------
(***************************************************************************)
(* ConfigNode for two configurations and two trust sections, with applies, *)
(* appends of peers' events and rejoins (part "requests"), or with applies,*)
(* trust mutations and restores ("restores"), each with at most two faults *)
(* and crashes; and TrustMutations with two requests at once ("trust") or  *)
(* one at a time ("serial").                                               *)
(*                                                                         *)
(* A behaviour is one of part's component; the other one stays in its      *)
(* initial state.                                                          *)
(***************************************************************************)
EXTENDS ConfigNode

CONSTANTS c1, c2, t1, t2

VARIABLES part, arrays, trust, lastTrust, past, stale, handler, asked, requests, pulls, restarts, failures

trustVars == <<arrays, trust, lastTrust, past, stale, handler, asked, requests, pulls, restarts, failures>>

MCFileDesired == [cfg |-> c1, trust |-> t1]
MCWanted == {[cfg |-> c2, trust |-> t1], [cfg |-> c1, trust |-> t2]}

Restores == INSTANCE ConfigNode WITH Kinds <- {"apply", "trust", "restore"}

Concurrent == INSTANCE TrustMutations WITH
    mem <- arrays, desired <- trust, log <- lastTrust,
    Roots <- {1, 2}, Certs <- {"c1"}, Policies <- {1, 2}, Handlers <- {"h1", "h2"},
    Pulled <- {[roots |-> <<2>>, revoked |-> {"c1"}, policy |-> 1]},
    MaxRequests <- 2, MaxPulls <- 1, MaxRestarts <- 1, MaxFailures <- 1

Serial == INSTANCE TrustMutations WITH
    mem <- arrays, desired <- trust, log <- lastTrust,
    Roots <- {1, 2, 3}, Certs <- {"c1"}, Policies <- {1, 2}, Handlers <- {"h1"},
    Pulled <- {}, MaxRequests <- 4, MaxPulls <- 0, MaxRestarts <- 1, MaxFailures <- 1

MCInit ==
    /\ Init
    /\ \/ part \in {"requests", "restores"} /\ Concurrent!Init /\ trust.policy = 1 /\ Len(arrays[1]) = 2
       \/ part = "trust" /\ Concurrent!Init
       \/ part = "serial" /\ Serial!Init

MCNext ==
    /\ UNCHANGED part
    /\ \/ part = "requests" /\ Next /\ faults' + crashes' <= 2 /\ UNCHANGED trustVars
       \/ part = "restores" /\ Restores!Next /\ faults' + crashes' <= 2 /\ UNCHANGED trustVars
       \/ part = "trust" /\ Concurrent!Next /\ UNCHANGED vars
       \/ part = "serial" /\ Serial!Next /\ UNCHANGED vars

MCSpec == MCInit /\ [][MCNext]_<<vars, part, trustVars>>

-----------------------------------------------------------------------------
\* With applies, trust mutations and restores, the settings that run (everything
\* of the desired configuration but its trust section) are those a restart would
\* load (switchDesiredRuntime, applyTrustConfigLocked, restoreConfigSnapshot and
\* their rollbacks).
RestoreKeepsSettings == part = "restores" => RestartKeepsSettings

\* The revocations and the policy in force are those of the last trust event,
\* whatever other requests, failed appends and pulls came between the copy and
\* its application (applyTrustConfigLocked, NormalizeTrust), until a restart puts
\* an older trust in force (restoreLatestLocalDesiredFromLogLocked), which the
\* next trust event ends; and with one request at a time an acknowledged
\* revocation stays in force until it is taken back or such a restart.
RevocationsInForce ==
    /\ Concurrent!RevocationsFollowLog
    /\ part = "serial" => Serial!RevocationsKept
=============================================================================
