------------------------------ MODULE MCTables ------------------------------
(***************************************************************************)
(* Two tables of the daemon that are mirrored elsewhere: ProvisionTokens,  *)
(* whose mirror, if any, is a state file ("tokens"), and NATTable, whose mirror is  *)
(* the binding map of the dataplane, with three flows of two hosts over    *)
(* two bindings ("nat") and with hot configurations ("config").            *)
(*                                                                         *)
(* A behaviour is one of part's component; the other one stays in its      *)
(* initial state.                                                          *)
(***************************************************************************)
EXTENDS ProvisionTokens, TLC

CONSTANTS Keys, FewKeys, Hosts, w1

VARIABLES part, now, cfg, bindings, dp, worker, used, refused, reconfigs, failures

natVars == <<now, cfg, bindings, dp, worker, used, refused, reconfigs, failures>>

Bindings == INSTANCE NATTable WITH
    table <- bindings, Workers <- {w1}, Operators <- {}, Settings <- {[limit |-> 2, ttl |-> 2]},
    MaxTime <- 3, MaxReconfigs <- 0, MaxFailures <- 1

Configured == INSTANCE NATTable WITH
    table <- bindings, Keys <- FewKeys, Workers <- {w1}, Operators <- {w1},
    Settings <- {[limit |-> 2, ttl |-> 4], [limit |-> 1, ttl |-> 4], [limit |-> 2, ttl |-> 2]},
    MaxTime <- 4, MaxReconfigs <- 2, MaxFailures <- 2

MCInit ==
    /\ Init
    /\ \/ part = "tokens" /\ Bindings!Init
       \/ part = "nat" /\ dataDir /\ Bindings!Init
       \/ part = "config" /\ dataDir /\ Configured!Init

MCNext ==
    /\ UNCHANGED part
    /\ \/ part = "tokens" /\ Next /\ UNCHANGED natVars
       \/ part = "nat" /\ Bindings!Next /\ UNCHANGED vars
       \/ part = "config" /\ Configured!Next /\ UNCHANGED vars

MCSpec == MCInit /\ [][MCNext]_<<part, vars, natVars>>

Symmetry ==
    Permutations(Tokens) \union Permutations(Keys) \union Permutations(FewKeys) \union Permutations(Hosts)

-----------------------------------------------------------------------------
\* A flow used within the TTL keeps its binding and its host while fewer other
\* flows than the limit allows were used since.  As long as one worker
\* synchronises, every binding the egress program would still use is one of the
\* table and names the same host, whenever no synchronisation is under way and
\* the dataplane did not refuse the last one (upsert, evictOldestLocked,
\* configure, syncNATBindingsToDataplane, applyRuntimeDataplaneSnapshot).
BindingsAgree ==
    /\ part = "nat" => Bindings!FlowKept
    /\ part = "config" => Configured!DataplaneAgrees
=============================================================================
