-------------------------- MODULE HandshakeProofs ---------------------------
(***************************************************************************)
(* Keys are used once, for any number of attempts, losses and copies, any  *)
(* timing and any tickets.  The client's nonce carries the argument: each  *)
(* attempt has its own, the keys of a connection contain it, and an        *)
(* attempt that has made a connection makes no other.                      *)
(***************************************************************************)
EXTENDS Handshake, TLAPS

\* The fields of the Connector.
Connector(c) ==
    c = [state |-> c.state, ticket |-> c.ticket, nonce |-> c.nonce,
         challenge |-> c.challenge, started |-> c.started,
         last_attempt |-> c.last_attempt]

\* The attempts whose keys are in use are the first ones, the present one
\* among them only if it is over.
Bound == IF Handshaking THEN attempts - 1 ELSE attempts

\* The inductive invariant: keys contain the nonce of the attempt that made
\* them, no two the same, and a handshake under way has made none.
IInv ==
    /\ attempts \in Nat \ {0}
    /\ Connector(client)
    /\ client.nonce = attempts
    /\ \E S : made \in Seq(S)
    /\ \A i \in DOMAIN made : made[i][2] \in 1..Bound
    /\ \A i, j \in DOMAIN made : i # j => made[i][2] # made[j][2]

\* A step that makes no connection and neither begins nor resumes an attempt.
LEMMA Quiet ==
    ASSUME IInv, UNCHANGED <<attempts, made>>, Connector(client'),
           client'.nonce = client.nonce, Handshaking' => Handshaking
    PROVE  IInv'
  BY DEF IInv, Bound

\* The first attempt has made no connection.
LEMMA Start == Init => IInv
  <1> SUFFICES ASSUME Init PROVE IInv
      OBVIOUS
  <1>1. made \in Seq({}) /\ DOMAIN made = {}
      BY DEF Init
  <1>2. Connector(client) /\ client.nonce = attempts /\ attempts \in Nat \ {0}
      BY DEF Init, Connect, Connector
  <1> QED
      BY <1>1, <1>2 DEF IInv

\* A datagram that is ignored.
LEMMA DroppedKeeps == ASSUME IInv, NEW d, Dropped(d) PROVE IInv'
  BY Quiet DEF Dropped, IInv, Handshaking, Connector

\* What reaches the client or the server, on time or late.
LEMMA ArriveKeeps == ASSUME IInv, NEW d, Arrive(d) PROVE IInv'
  <1>1. CASE HandleRequest(d)
      BY <1>1, DroppedKeeps, Quiet
      DEF HandleRequest, IInv, Handshaking, Connector
  <1>2. CASE HandleResponse(d)
      BY <1>2, DroppedKeeps, Quiet
      DEF HandleResponse, server, IInv, Handshaking, Connector
  <1>3. CASE OnChallenge(d)
      <2>1. CASE WantsChallenge
          <3>1. client' = [client EXCEPT !.state = "Responding",
                                         !.challenge = d.cookie,
                                         !.last_attempt = now]
                /\ UNCHANGED <<attempts, made>>
              BY <1>3, <2>1 DEF OnChallenge
          <3>2. Connector(client') /\ client'.nonce = client.nonce
              BY <3>1 DEF IInv, Connector
          <3>3. Handshaking
              BY <2>1 DEF WantsChallenge, Handshaking
          <3> QED
              BY <3>1, <3>2, <3>3, Quiet
      <2>2. CASE ~WantsChallenge
          BY <1>3, <2>2, DroppedKeeps DEF OnChallenge
      <2> QED
          BY <2>1, <2>2
  <1>4. CASE OnAccepted(d)
      <2>1. CASE client.state = "Responding" /\ d.keys = KeysExpected(d.id)
          <3>1. /\ client' = [client EXCEPT !.state = "Connected"]
                /\ made' = Append(made, d.keys)
                /\ attempts' = attempts
              BY <1>4, <2>1 DEF OnAccepted
          <3>2. d.keys[2] = attempts
              BY <2>1 DEF KeysExpected, ForConnection, IInv
          <3>3. /\ Connector(client')
                /\ client'.nonce = attempts'
                /\ ~Handshaking'
              BY <3>1 DEF IInv, Connector, Handshaking
          <3>4. \A i \in DOMAIN made : made[i][2] \in 1..(attempts - 1)
              BY <2>1 DEF IInv, Bound, Handshaking
          <3>5. PICK S : made \in Seq(S)
              BY DEF IInv
          <3>6. made' \in Seq(S \cup {d.keys})
              BY <3>1, <3>5
          <3>7. /\ DOMAIN made' = DOMAIN made \cup {Len(made) + 1}
                /\ \A i \in DOMAIN made : made'[i] = made[i]
                /\ made'[Len(made) + 1] = d.keys
                /\ Len(made) + 1 \notin DOMAIN made
              BY <3>1, <3>5
          <3>8. /\ attempts \in Nat \ {0}
                /\ \A i, j \in DOMAIN made : i # j => made[i][2] # made[j][2]
              BY DEF IInv
          <3>9. \A i \in DOMAIN made' : made'[i][2] \in 1..attempts
              BY <3>2, <3>4, <3>7, <3>8
          <3>10. \A i, j \in DOMAIN made' : i # j => made'[i][2] # made'[j][2]
              BY <3>2, <3>4, <3>7, <3>8
          <3>11. Bound' = attempts
              BY <3>1, <3>3 DEF Bound
          <3> QED
              BY <3>1, <3>3, <3>6, <3>8, <3>9, <3>10, <3>11 DEF IInv
      <2>2. CASE ~(client.state = "Responding" /\ d.keys = KeysExpected(d.id))
          BY <1>4, <2>2, DroppedKeeps DEF OnAccepted
      <2> QED
          BY <2>1, <2>2
  <1> QED
      BY <1>1, <1>2, <1>3, <1>4 DEF Arrive

\* Every step keeps the invariant.
LEMMA StepKeeps == IInv /\ [Next]_vars => IInv'
  <1> SUFFICES ASSUME IInv, [Next]_vars PROVE IInv'
      OBVIOUS
  <1>1. CASE ClientStep
      <2>1. UNCHANGED <<attempts, made>>
          BY <1>1 DEF ClientStep
      <2>2. Connector(client') /\ client'.nonce = client.nonce
          BY <1>1 DEF ClientStep, IInv, Connector
      <2>3. Handshaking
          BY <1>1 DEF ClientStep, ClientDue
      <2> QED
          BY <2>1, <2>2, <2>3, Quiet
  <1>2. ASSUME NEW t \in Tickets, Reconnect(t) PROVE IInv'
      <2>1. /\ attempts' = attempts + 1
            /\ client' = Connect(t, attempts + 1)
            /\ made' = made
            /\ ~Handshaking
          BY <1>2 DEF Reconnect
      <2>2. Connector(client') /\ client'.nonce = attempts'
          BY <2>1 DEF Connect, Connector
      <2>3. Handshaking'
          BY <2>1 DEF Connect, Handshaking
      <2> QED
          BY <2>1, <2>2, <2>3 DEF IInv, Bound
  <1>3. ASSUME NEW t \in Tickets, Retire(t) PROVE IInv'
      BY <1>3, Quiet DEF Retire, IInv, Handshaking, Connector
  <1>4. ASSUME NEW d, Arrive(d) PROVE IInv'
      BY <1>4, ArriveKeeps
  <1>5. ASSUME NEW d, HoldBack(d) PROVE IInv'
      BY <1>5, Quiet DEF HoldBack, IInv, Handshaking, Connector
  <1>6. CASE Tick
      BY <1>6, Quiet DEF Tick, IInv, Handshaking, Connector
  <1>7. CASE UNCHANGED vars
      BY <1>7, Quiet DEF vars, IInv, Handshaking, Connector
  <1> QED
      BY <1>1, <1>2, <1>3, <1>4, <1>5, <1>6, <1>7 DEF Next, ArriveLate

\* No two connections that a client creates share keys, however many attempts
\* it makes, with whichever tickets, and whatever the network loses or
\* repeats (connector.rs, handshake.rs).
THEOREM KeysNeverRepeat == Spec => []KeysUsedOnce
  <1>1. IInv => KeysUsedOnce
      BY DEF IInv, KeysUsedOnce
  <1> QED
      BY <1>1, Start, StepKeeps, PTL DEF Spec

=============================================================================
