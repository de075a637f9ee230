-------------------------------- MODULE Path --------------------------------
(***************************************************************************)
(* A client whose address changes under an open connection, and the server *)
(* following it: Role for Server and Role for Client in connection.rs,     *)
(* with the two destinations drain_transmits gives a packet.               *)
(*                                                                         *)
(* A datagram is its address and the path token it carries, if any: a      *)
(* challenge on its way down, a response on its way up.  The network loses *)
(* and delays at will; duplicates fall to the replay window.  What is sent *)
(* to an address the client has left is lost.  Neither challenge nor       *)
(* response is ever sent again.                                            *)
(***************************************************************************)
EXTENDS Naturals, FiniteSets

CONSTANTS
    Addrs,       \* addresses the client may appear from
    Home,        \* the one it connected from
    Tokens,      \* path tokens; one not in use is as good as a new one
    None,        \* Option::None
    MaxRebinds,  \* bound: times the client's address changes
    MaxTransit   \* bound: datagrams on their way in each direction

VARIABLES
    client,     \* where the client is
    response,   \* the client's control.path_response, if owed
    addr,       \* the server's addr
    probe,      \* the server's role.probe
    challenge,  \* the server's control.path_challenge, if owed
    up,         \* datagrams on their way to the server
    down,       \* datagrams on their way to the client
    rebinds

vars == <<client, response, addr, probe, challenge, up, down, rebinds>>

Init ==
    /\ client = Home
    /\ addr = Home
    /\ response = None
    /\ probe = None
    /\ challenge = None
    /\ up = {}
    /\ down = {}
    /\ rebinds = 0

\* A NAT rebinds, or a host moves.
Rebind(a) ==
    /\ rebinds < MaxRebinds
    /\ a # client
    /\ client' = a
    /\ rebinds' = rebinds + 1
    /\ UNCHANGED <<response, addr, probe, challenge, up, down>>

\* poll_transmit at the client: a keepalive, or anything else.
ClientSend ==
    /\ Cardinality(up) < MaxTransit
    /\ up' = up \cup {[addr |-> client, token |-> response]}
    /\ response' = None
    /\ UNCHANGED <<client, addr, probe, challenge, down, rebinds>>

\* handle_datagram at the client: a challenge is to be echoed.
ClientReceive(d) ==
    /\ d \in down /\ d.addr = client
    /\ response' = IF d.token = None THEN response ELSE d.token
    /\ down' = down \ {d}
    /\ UNCHANGED <<client, addr, probe, challenge, up, rebinds>>

\* poll_transmit at the server, to the primary and to the probed address.
Destinations == {addr} \cup (IF probe = None THEN {} ELSE {probe.addr})

ServerSend ==
    /\ down' = down \cup [addr : Destinations, token : {challenge}]
    /\ Cardinality(down') <= MaxTransit
    /\ challenge' = None
    /\ UNCHANGED <<client, response, addr, probe, up, rebinds>>

\* The token a response must carry.
Expected == IF probe = None THEN None ELSE probe.token

InTransit == {d.token : d \in up \cup down}

InUse == InTransit \cup {response, challenge, Expected}

\* on_address_change leaves a probe of the same address alone.
Probing(from, pending) == pending # None /\ pending.addr = from

\* handle_datagram at the server: read_control, then on_address_change.
ServerReceive(d) ==
    LET answered == d.token # None /\ d.token = Expected
        primary == IF answered THEN probe.addr ELSE addr
        pending == IF answered THEN None ELSE probe
    IN  /\ d \in up
        /\ up' = up \ {d}
        /\ addr' = primary
        /\ IF d.addr = primary \/ Probing(d.addr, pending)
           THEN probe' = pending /\ UNCHANGED challenge
           ELSE \E token \in Tokens \ InUse :
                    /\ probe' = [addr |-> d.addr, token |-> token]
                    /\ challenge' = token
        /\ UNCHANGED <<client, response, down, rebinds>>

\* The probe's challenge can still be answered.
Answerable ==
    \/ Expected \in {response, challenge}
    \/ \E d \in up : d.token = Expected
    \/ \E d \in down : d.token = Expected /\ d.addr = client

\* Mutant: a probe is never given up.
ExpireNever == FALSE /\ UNCHANGED vars

\* on_timeout at the server.  PATH_TIMEOUT outlasts a round trip, so it comes
\* when the challenge or its response has been lost.
Expire ==
    /\ probe # None
    /\ ~Answerable
    /\ probe' = None
    /\ UNCHANGED <<client, response, addr, challenge, up, down, rebinds>>

LoseUp(d) ==
    /\ d \in up
    /\ up' = up \ {d}
    /\ UNCHANGED <<client, response, addr, probe, challenge, down, rebinds>>

LoseDown(d) ==
    /\ d \in down
    /\ down' = down \ {d}
    /\ UNCHANGED <<client, response, addr, probe, challenge, up, rebinds>>

Next ==
    \/ \E a \in Addrs : Rebind(a)
    \/ ClientSend
    \/ \E d \in down : ClientReceive(d)
    \/ ServerSend
    \/ \E d \in up : ServerReceive(d)
    \/ Expire
    \/ \E d \in up : LoseUp(d)
    \/ \E d \in down : LoseDown(d)

Spec == Init /\ [][Next]_vars

\* A datagram between the server and the client where it is: one without a
\* token, and one with the token of the probe.
Plain == [addr |-> client, token |-> None]
Marked == [addr |-> client, token |-> Expected]

\* Both ends go on sending (keepalives), a timeout comes, and a network that
\* is given a datagram, a challenge or its response again and again does not
\* lose it every time; nor does it keep one for ever.
Fairness ==
    /\ WF_vars(ClientSend)
    /\ WF_vars(ServerSend)
    /\ WF_vars(Expire)
    /\ WF_vars(\E d \in up : LoseUp(d))
    /\ WF_vars(\E d \in up : d.addr # client /\ LoseUp(d))
    /\ WF_vars(\E d \in down : LoseDown(d))
    /\ SF_vars(ServerReceive(Plain))
    /\ SF_vars(probe # None /\ ServerReceive(Marked))
    /\ SF_vars(probe # None /\ ClientReceive(Marked))

-----------------------------------------------------------------------------
(* Properties                                                              *)

\* Once the client stays where it is the server comes to send there and stays
\* so: lost challenges and responses, datagrams from earlier addresses that
\* arrive late and answers to earlier challenges do not keep it away.
FollowsClient == Fairness => <>[](addr = client)

=============================================================================
