----------------------------- MODULE TLSHandoff -----------------------------
(***************************************************************************)
(* Client and Server of a secure session over a TLS stream that is used    *)
(* for the handshake only: after the hellos both sides agree in three      *)
(* controls to leave TLS, detach, and confirm over the bare stream with    *)
(* packets sealed by the session's own key.  The stream is in order; the   *)
(* client's retransmitter may have repeated its hello, and what a side     *)
(* reads must have been written in the layer it reads with.                *)
(***************************************************************************)
EXTENDS Naturals, Sequences

CONSTANT MaxHellos  \* bound: hellos of the client

VARIABLES
    c, s,      \* where the client and the server are
    detached,  \* the sides that have left TLS
    c2s, s2c,  \* the stream: what was written, and in which layer
    hellos,    \* hellos the client has sent
    broken     \* the connection is lost

vars == <<c, s, detached, c2s, s2c, hellos, broken>>

Layer(side) == IF side \in detached THEN "raw" ELSE "tls"

\* Writes of the two sides, in the layer the side is in.
Wrote(side, msgs) == [i \in DOMAIN msgs |-> [layer |-> Layer(side), msg |-> msgs[i]]]

Init ==
    /\ c = "hello" /\ s = "hello" /\ detached = {} /\ s2c = <<>>
    /\ c2s = <<[layer |-> "tls", msg |-> "clientHello"]>> /\ hellos = 1 /\ broken = FALSE

\* A side reads the next packet, if it was written in the side's layer.
Reads(side, msg) ==
    LET q == IF side = "c" THEN s2c ELSE c2s IN
    /\ q # <<>> /\ Head(q) = [layer |-> Layer(side), msg |-> msg]

\* retransmitHandshake, until the server hello is there and Stop has returned.
Retransmit ==
    /\ ~broken /\ c = "hello" /\ hellos < MaxHellos /\ hellos' = hellos + 1
    /\ c2s' = c2s \o Wrote("c", <<"clientHello">>)
    /\ UNCHANGED <<c, s, detached, s2c, broken>>

\* A step of the client: what it reads, where it goes and what it writes.
ClientStep(at, msg, to, writes, detaches) ==
    /\ ~broken /\ c = at /\ Reads("c", msg)
    /\ c' = to /\ s2c' = Tail(s2c)
    /\ detached' = IF detaches THEN detached \union {"c"} ELSE detached
    /\ c2s' = c2s \o [i \in DOMAIN writes |-> [layer |-> IF detaches THEN "raw" ELSE Layer("c"), msg |-> writes[i]]]
    /\ UNCHANGED <<s, hellos, broken>>

\* Mutant: the client leaves TLS when it is ready, before the server has committed.
ClientEager ==
    \/ ClientStep("hello", "serverHello", "ready", <<>>, FALSE)
    \/ ClientStep("ready", "serverReady", "raw", <<"clientReady", "clientRaw">>, TRUE)
    \/ ClientStep("raw", "serverRaw", "done", <<>>, FALSE)

\* Client, then completeClientTLSDataPlaneHandoff.
Client ==
    \/ ClientStep("hello", "serverHello", "ready", <<>>, FALSE)
    \/ ClientStep("ready", "serverReady", "commit", <<"clientReady">>, FALSE)
    \/ ClientStep("commit", "serverCommit", "raw", <<"clientRaw">>, TRUE)
    \/ ClientStep("raw", "serverRaw", "done", <<>>, FALSE)

\* handleDuplicateHandshake on the client: a repeated server hello is taken.
ClientDuplicate ==
    \E at \in {"ready", "commit", "raw", "done"} : ClientStep(at, "serverHello", at, <<>>, FALSE)

ServerStep(at, msg, to, writes, detaches) ==
    /\ ~broken /\ s = at /\ Reads("s", msg)
    /\ s' = to /\ c2s' = Tail(c2s)
    /\ detached' = IF detaches THEN detached \union {"s"} ELSE detached
    /\ s2c' = s2c \o Wrote("s", writes)
    /\ UNCHANGED <<c, hellos, broken>>

\* Server, then completeServerTLSDataPlaneHandoff.
Server ==
    \/ ServerStep("hello", "clientHello", "ready", <<"serverHello", "serverReady">>, FALSE)
    \/ ServerStep("ready", "clientReady", "raw", <<"serverCommit">>, TRUE)
    \/ ServerStep("raw", "clientRaw", "done", <<"serverRaw">>, FALSE)

\* Mutant: a repeated hello is not expected once the handoff has begun.
ServerDuplicateLate ==
    ServerStep("done", "clientHello", "done", <<"serverHello">>, FALSE)

\* handleDuplicateHandshake on the server: the server hello is sent again.
ServerDuplicate ==
    \E at \in {"ready", "raw", "done"} : ServerStep(at, "clientHello", at, <<"serverHello">>, FALSE)

\* The connection is lost, or a side gives up and closes it.
Break ==
    /\ ~broken /\ ~(c = "done" /\ s = "done") /\ broken' = TRUE
    /\ UNCHANGED <<c, s, detached, c2s, s2c, hellos>>

Next == Retransmit \/ Client \/ ClientDuplicate \/ Server \/ ServerDuplicate \/ Break

Spec == Init /\ [][Next]_vars

FairSpec ==
    Spec /\ WF_vars(Client) /\ WF_vars(ClientDuplicate) /\ WF_vars(Server) /\ WF_vars(ServerDuplicate)

-----------------------------------------------------------------------------
\* No side ever has before it a packet of the layer it is not in: nothing is
\* written bare to a side that is still in TLS, or in TLS to one that has left.
LayersAgree ==
    /\ s2c # <<>> => Head(s2c).layer = Layer("c")
    /\ c2s # <<>> => Head(c2s).layer = Layer("s")

\* Unless the connection is lost both sides complete the handoff, however often
\* the hello was repeated: no repeated hello is read where a control is due.
BothComplete == <>(broken \/ (c = "done" /\ s = "done"))
=============================================================================
