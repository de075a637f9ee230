----------------------------- MODULE Handshake ------------------------------
(***************************************************************************)
(* Connecting: the attempts of one client (connector.rs) against the       *)
(* handshake of a server (endpoint.rs, handshake.rs).                      *)
(*                                                                         *)
(* A datagram arrives at the instant it is sent, or is held back and then  *)
(* counts as lost; held back or not, copies may arrive at any later time.  *)
(* Sealing is perfect: a cookie or packet opens only as it was sealed, and *)
(* a packet only under the key it was sealed with.  The client keeps its   *)
(* address (Path moves it), the tickets do not expire and the server has   *)
(* room (Endpoint has both); a datagram the limiter refuses is lost.  All  *)
(* tickets are of one session, the first and those that resume it, which   *)
(* reuse its keys.                                                         *)
(***************************************************************************)
EXTENDS Integers, Sequences

CONSTANTS
    Tickets,       \* tickets the client may present
    First,         \* the one it presents first
    Retry,         \* RETRY_INTERVAL
    Timeout,       \* HANDSHAKE_TIMEOUT
    CookieLife,    \* COOKIE_LIFETIME
    Idle,          \* idle timeout of the server's connections
    MaxLoss,       \* bound: datagrams held back
    MaxAttempts,   \* bound: connectors started
    MaxCopies      \* bound: challenges sent before copies stop arriving

VARIABLES
    now,
    client,      \* the Connector
    attempts,    \* connectors started: the nonce of the newest
    redeemed,    \* per ticket: whether spent, and the connection it produced
    challenges,  \* challenges sent: the newest server nonce
    accepted,    \* connections accepted: the newest connection id
    sent,        \* every datagram sent: copies of it may still arrive
    due,         \* those that arrive at this instant
    losses,      \* datagrams held back
    made         \* history: keys of each Connection the client created

vars == <<now, client, attempts, redeemed, challenges, accepted, sent, due,
          losses, made>>

server == <<redeemed, challenges, accepted>>

-----------------------------------------------------------------------------

\* Mutant: the client's nonce is left out of the keys.
ForConnectionOneSided(id, nonce, server_nonce) == <<id, server_nonce>>

\* Keys::for_connection: the session's keys, bound to the id and both nonces.
ForConnection(id, nonce, server_nonce) == <<id, nonce, server_nonce>>

\* Connector::connect.  No attempt yet is one that is long past.
Connect(ticket, nonce) ==
    [state |-> "Requesting", ticket |-> ticket, nonce |-> nonce,
     challenge |-> << >>, started |-> now,
     last_attempt |-> now - Retry]

Handshaking == client.state \in {"Requesting", "Responding"}

\* write_handshake.
HandshakeOf(c) ==
    IF c.state = "Requesting"
    THEN [kind |-> "Request", ticket |-> c.ticket, nonce |-> c.nonce]
    ELSE [kind |-> "Response", cookie |-> c.challenge]

Init ==
    /\ now = 0
    /\ client = Connect(First, 1)
    /\ attempts = 1
    /\ redeemed = [t \in Tickets |-> [state |-> "Unspent"]]
    /\ challenges = 0
    /\ accepted = 0
    /\ sent = {}
    /\ due = {}
    /\ losses = 0
    /\ made = << >>

-----------------------------------------------------------------------------
(* The client.                                                             *)

\* next_timeout of the connector.
RetryDue == now - client.last_attempt >= Retry

ClientDue == Handshaking /\ (RetryDue \/ now - client.started >= Timeout)

\* A step of the driver: handle_timeout, then poll_transmit.
ClientStep ==
    /\ ClientDue
    /\ IF now - client.started >= Timeout
       THEN /\ client' = [client EXCEPT !.state = "Failed"]
            /\ UNCHANGED <<sent, due>>
       ELSE /\ client' = [client EXCEPT !.last_attempt = now]
            /\ sent' = sent \cup {HandshakeOf(client)}
            /\ due' = due \cup {HandshakeOf(client)}
    /\ UNCHANGED <<now, attempts, server, losses, made>>

\* A datagram that its reader drops.
Dropped(d) ==
    /\ due' = due \ {d}
    /\ UNCHANGED <<now, client, attempts, server, sent, losses, made>>

\* It is answered by another, which leaves at once.
Answer(d, answer) ==
    /\ sent' = sent \cup {answer}
    /\ due' = (due \ {d}) \cup {answer}

\* Mutant: a later challenge replaces the one being answered.
WantsChallengeStill == Handshaking

\* Only a client that has no challenge yet takes one.
WantsChallenge == client.state = "Requesting"

\* on_challenge: answered at once.
OnChallenge(d) ==
    LET responding == [client EXCEPT !.state = "Responding",
                                     !.challenge = d.cookie,
                                     !.last_attempt = now]
    IN  IF WantsChallenge
        THEN /\ client' = responding
             /\ Answer(d, HandshakeOf(responding))
             /\ UNCHANGED <<now, attempts, server, losses, made>>
        ELSE Dropped(d)

\* The keys a responding client expects of a connection with this id.
KeysExpected(id) ==
    ForConnection(id, client.nonce, client.challenge.server_nonce)

\* on_accepted: any packet that opens under those keys.
OnAccepted(d) ==
    IF client.state = "Responding" /\ d.keys = KeysExpected(d.id)
    THEN /\ client' = [client EXCEPT !.state = "Connected"]
         /\ made' = Append(made, d.keys)
         /\ due' = due \ {d}
         /\ UNCHANGED <<now, attempts, server, sent, losses>>
    ELSE Dropped(d)

\* The application gives an attempt or a connection up and connects again,
\* with the ticket it has or another.
Reconnect(t) ==
    /\ ~Handshaking
    /\ attempts < MaxAttempts
    /\ attempts' = attempts + 1
    /\ client' = Connect(t, attempts + 1)
    /\ UNCHANGED <<now, server, sent, due, losses, made>>

-----------------------------------------------------------------------------
(* The server.                                                             *)

\* handle_request: a cookie that seals both nonces, for a ticket not spent.
HandleRequest(d) ==
    LET cookie == [ticket |-> d.ticket, nonce |-> d.nonce,
                   server_nonce |-> challenges + 1, issued_at |-> now]
    IN  IF redeemed[d.ticket].state = "Ended" THEN Dropped(d)
        ELSE /\ challenges' = challenges + 1
             /\ Answer(d, [kind |-> "Challenge", cookie |-> cookie])
             /\ UNCHANGED <<now, client, attempts, redeemed, accepted, losses,
                            made>>

Acceptance(conn) == [kind |-> "Payload", id |-> conn.id, keys |-> conn.keys]

\* Connection::accept, for the id of the slot it takes.
Accept(cookie, id) ==
    [state |-> "Live", id |-> id, since |-> now,
     keys |-> ForConnection(id, cookie.nonce, cookie.server_nonce)]

\* handle_response: an unspent ticket produces a connection; for one whose
\* connection lives the acceptance goes out again.
HandleResponse(d) ==
    LET cookie == d.cookie
        record == redeemed[cookie.ticket]
        conn == Accept(cookie, accepted + 1)
    IN  IF now - cookie.issued_at > CookieLife \/ record.state = "Ended"
        THEN Dropped(d)
        ELSE IF record.state = "Live"
        THEN /\ Answer(d, Acceptance(record))
             /\ UNCHANGED <<now, client, attempts, server, losses, made>>
        ELSE /\ redeemed' = [redeemed EXCEPT ![cookie.ticket] = conn]
             /\ accepted' = accepted + 1
             /\ Answer(d, Acceptance(conn))
             /\ UNCHANGED <<now, client, attempts, challenges, losses, made>>

\* A connection of the server ends and is retired.
Retire(t) ==
    /\ redeemed[t].state = "Live"
    /\ now - redeemed[t].since >= Idle \/ ~Handshaking
    /\ redeemed' = [redeemed EXCEPT ![t] = [state |-> "Ended"]]
    /\ UNCHANGED <<now, client, attempts, challenges, accepted, sent, due,
                   losses, made>>

-----------------------------------------------------------------------------
(* The network and the clock.                                              *)

\* handle_datagram of the client and of the server.
Arrive(d) ==
    \/ d.kind = "Request" /\ HandleRequest(d)
    \/ d.kind = "Challenge" /\ OnChallenge(d)
    \/ d.kind = "Response" /\ HandleResponse(d)
    \/ d.kind = "Payload" /\ OnAccepted(d)

\* A copy of a datagram arrives later.
ArriveLate(d) == challenges < MaxCopies /\ Arrive(d)

HoldBack(d) ==
    /\ losses < MaxLoss
    /\ losses' = losses + 1
    /\ due' = due \ {d}
    /\ UNCHANGED <<now, client, attempts, server, sent, made>>

Tick ==
    /\ Handshaking
    /\ due = {}
    /\ ~ClientDue
    /\ now' = now + 1
    /\ UNCHANGED <<client, attempts, server, sent, due, losses, made>>

Next ==
    \/ ClientStep
    \/ \E t \in Tickets : Reconnect(t)
    \/ \E t \in Tickets : Retire(t)
    \/ \E d \in due : Arrive(d)
    \/ \E d \in sent \ due : ArriveLate(d)
    \/ \E d \in due : HoldBack(d)
    \/ Tick

Spec == Init /\ [][Next]_vars

-----------------------------------------------------------------------------
(* Properties                                                              *)

\* No two connections the client creates have keys in common, whichever of
\* its attempts they belong to and whatever copies the network keeps: with
\* the same keys both would number their packets from the start, and seal
\* two packets under one nonce.
KeysUsedOnce ==
    \A i, j \in DOMAIN made : i # j => made[i] # made[j]

\* "Resent on this interval until answered": a client's first attempt fails
\* only if every one of its tries lost a datagram, of either direction and
\* any step, the acceptance included.
SurvivesLoss ==
    attempts = 1 /\ client.state = "Failed" => losses >= Timeout \div Retry

=============================================================================
