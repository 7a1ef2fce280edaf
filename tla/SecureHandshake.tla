--------------------------- MODULE SecureHandshake ---------------------------
(***************************************************************************)
(* The handshake of a secure session over datagrams and what follows it: a *)
(* client that repeats its hello until an answer comes, a server that      *)
(* answers a repeated hello with the hello it sent, a reset to whoever     *)
(* speaks to a server that knows no session, and a client that dials again *)
(* when its session ends.  Each dial has its own address.  A key stands    *)
(* for the pair of hellos it is derived from: every server hello is new.   *)
(***************************************************************************)
EXTENDS Naturals, Sequences, SequencesExt

CONSTANTS
    MaxDials,    \* bound: dials of the client
    MaxQueue,    \* bound: packets under way in one direction; more are lost
    MaxFaults,   \* bound: packets lost, repeated or overtaken
    MaxRestarts  \* bound: restarts of the server

VARIABLES
    cl,       \* per dial: the client's side
    ckey,     \* per dial: the key the client took, 0 if none
    srv,      \* per address: the key of the server's session, 0 if none
    hellos,   \* server hellos made so far
    up, down, \* per dial: the packets under way to and from the server
    faults, restarts

vars == <<cl, ckey, srv, hellos, up, down, faults, restarts>>

Dials == 1..MaxDials

ClientHello == [kind |-> "hello", key |-> 0]
ServerHello(k) == [kind |-> "hello", key |-> k]
Reset == [kind |-> "reset", key |-> 0]
Data(k) == [kind |-> "data", key |-> k]

\* A packet goes under way; one for a closed socket goes nowhere.
Up(d, m) == [up EXCEPT ![d] = IF Len(@) < MaxQueue THEN Append(@, m) ELSE @]
Down(d, m) == [down EXCEPT ![d] = IF Len(@) < MaxQueue /\ cl[d] # "failed" THEN Append(@, m) ELSE @]

Init ==
    /\ cl = [d \in Dials |-> "none"] /\ ckey = [d \in Dials |-> 0]
    /\ srv = [d \in Dials |-> 0] /\ hellos = 0
    /\ up = [d \in Dials |-> <<>>] /\ down = [d \in Dials |-> <<>>]
    /\ faults = 0 /\ restarts = 0

-----------------------------------------------------------------------------
\* Client: send the hello; the data session layer dials when it has no session.
Dial(d) ==
    /\ cl[d] = "none" /\ \A e \in Dials : e < d => cl[e] = "failed"
    /\ cl' = [cl EXCEPT ![d] = "hello"]
    /\ up' = Up(d, ClientHello)
    /\ UNCHANGED <<ckey, srv, hellos, down, faults, restarts>>

\* The ticker of retransmitHandshake; the hello that is repeated has been taken.
Retransmit(d) ==
    /\ cl[d] = "hello" /\ ~Contains(up[d], ClientHello)
    /\ up' = Up(d, ClientHello)
    /\ UNCHANGED <<cl, ckey, srv, hellos, down, faults, restarts>>

\* Either side sends, at the latest when its heartbeat is due.
ClientSends(d) ==
    /\ cl[d] = "open" /\ ~Contains(up[d], Data(ckey[d]))
    /\ up' = Up(d, Data(ckey[d]))
    /\ UNCHANGED <<cl, ckey, srv, hellos, down, faults, restarts>>

ServerSends(d) ==
    /\ srv[d] # 0 /\ ~Contains(down[d], Data(srv[d]))
    /\ down' = Down(d, Data(srv[d]))
    /\ UNCHANGED <<cl, ckey, srv, hellos, up, faults, restarts>>

\* Mutant: an established client takes a repeated server hello for a bad packet.
OutcomeStrict(d, m) ==
    CASE cl[d] = "hello" -> IF m.kind = "hello" THEN "open" ELSE "failed"
      [] cl[d] = "open"  -> IF m = Data(ckey[d]) THEN "open" ELSE "failed"
      [] OTHER           -> cl[d]

\* What the next packet makes of the client: the answer it waits for, a packet
\* that is no hello (parseHello fails), a repeated hello (handleDuplicateHandshake),
\* a packet its key opens, a reset or a packet of another key.
Outcome(d, m) ==
    CASE cl[d] = "hello" -> IF m.kind = "hello" THEN "open" ELSE "failed"
      [] cl[d] = "open"  -> IF m \in {ServerHello(ckey[d]), Data(ckey[d])} THEN "open" ELSE "failed"
      [] OTHER           -> cl[d]

\* Client up to newSession, RecvPacket after it; an error closes the session.
ClientReceives(d) ==
    /\ down[d] # <<>>
    /\ LET m == Head(down[d]) IN
       /\ cl' = [cl EXCEPT ![d] = Outcome(d, m)]
       /\ ckey' = [ckey EXCEPT ![d] = IF cl[d] = "hello" /\ m.kind = "hello" THEN m.key ELSE @]
    /\ down' = [down EXCEPT ![d] = IF cl'[d] = "failed" THEN <<>> ELSE Tail(@)]
    /\ UNCHANGED <<srv, hellos, up, faults, restarts>>

\* Mutant: a server that has no session drops what is no hello.
AcceptSilent(d, m) ==
    IF m = ClientHello
    THEN /\ hellos' = hellos + 1 /\ srv' = [srv EXCEPT ![d] = hellos + 1]
         /\ down' = Down(d, ServerHello(hellos + 1))
    ELSE UNCHANGED <<srv, hellos, down>>

\* Server on the first packet of an address: a hello opens a session, anything
\* else is answered with a reset and the session is closed again.
Accept(d, m) ==
    IF m = ClientHello
    THEN /\ hellos' = hellos + 1 /\ srv' = [srv EXCEPT ![d] = hellos + 1]
         /\ down' = Down(d, ServerHello(hellos + 1))
    ELSE down' = Down(d, Reset) /\ UNCHANGED <<srv, hellos>>

\* Mutant: a repeated hello is answered with a new hello.
RecvRehandshakes(d, m) ==
    IF m = ClientHello
    THEN /\ hellos' = hellos + 1 /\ srv' = [srv EXCEPT ![d] = hellos + 1]
         /\ down' = Down(d, ServerHello(hellos + 1))
    ELSE UNCHANGED <<srv, hellos, down>>

\* RecvPacket of an established server: the hello it answered is answered as
\* before, a packet its key opens is taken, anything else ends the session.
Recv(d, m) ==
    /\ down' = IF m = ClientHello THEN Down(d, ServerHello(srv[d])) ELSE down
    /\ srv' = [srv EXCEPT ![d] = IF m \in {ClientHello, Data(@)} THEN @ ELSE 0]
    /\ UNCHANGED hellos

ServerReceives(d) ==
    /\ up[d] # <<>>
    /\ IF srv[d] = 0 THEN Accept(d, Head(up[d])) ELSE Recv(d, Head(up[d]))
    /\ up' = [up EXCEPT ![d] = Tail(@)]
    /\ UNCHANGED <<cl, ckey, faults, restarts>>

ServerRestarts ==
    /\ restarts < MaxRestarts /\ restarts' = restarts + 1
    /\ srv' = [d \in Dials |-> 0]
    /\ UNCHANGED <<cl, ckey, hellos, up, down, faults>>

\* The network loses the first packet of a queue, repeats it, or lets the
\* second overtake it.
Disturbed(q) ==
    {Tail(q), Append(q, Head(q))} \union
    (IF Len(q) > 1 THEN {<<q[2], q[1]>> \o SubSeq(q, 3, Len(q))} ELSE {})

Disturb(d) ==
    /\ faults < MaxFaults /\ faults' = faults + 1
    /\ \/ up[d] # <<>> /\ up' \in {[up EXCEPT ![d] = q] : q \in Disturbed(up[d])} /\ UNCHANGED down
       \/ down[d] # <<>> /\ down' \in {[down EXCEPT ![d] = q] : q \in Disturbed(down[d])} /\ UNCHANGED up
    /\ UNCHANGED <<cl, ckey, srv, hellos, restarts>>

Step(d) ==
    \/ Dial(d) \/ Retransmit(d) \/ ClientSends(d) \/ ServerSends(d)
    \/ ClientReceives(d) \/ ServerReceives(d)

Next == (\E d \in Dials : Step(d) \/ Disturb(d)) \/ ServerRestarts

Spec == Init /\ [][Next]_vars

FairSpec ==
    /\ Spec
    /\ \A d \in Dials :
        /\ WF_vars(Dial(d)) /\ WF_vars(Retransmit(d)) /\ WF_vars(ClientSends(d))
        /\ WF_vars(ServerSends(d)) /\ WF_vars(ClientReceives(d)) /\ WF_vars(ServerReceives(d))

-----------------------------------------------------------------------------
Matched(d) == cl[d] = "open" /\ srv[d] = ckey[d]

\* While the server has not restarted, a client and a server that both have a
\* session on an address have derived the same key: hellos that are lost,
\* repeated or overtaken make no second key.
SameKey ==
    restarts = 0 => \A d \in Dials : cl[d] = "open" /\ srv[d] # 0 => srv[d] = ckey[d]

\* While the server stays up, no packet that is lost, repeated or overtaken
\* takes down a session the client has opened.
StaysUp ==
    [][\A d \in Dials : cl[d] = "open" /\ restarts = 0 => cl'[d] = "open"]_vars

\* Once faults and restarts are over, the client has a session whose key the
\* server has, for good; a session of before a restart is reset and replaced.
Recovers == <>[](\E d \in Dials : Matched(d))
=============================================================================
