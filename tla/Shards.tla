------------------------------- MODULE Shards -------------------------------
(***************************************************************************)
(* A group of endpoints on one address (shard.rs): which of them answers a *)
(* request, completes a handshake, holds a session and owns a connection,  *)
(* by the bits of the ids (wire.rs, handshake.rs), the group's cookies     *)
(* (endpoint.rs) and the kernel's steering (linux.rs).                     *)
(*                                                                         *)
(* Each endpoint is reduced to its slab, its sessions and its redeemed     *)
(* tickets (Endpoint has one in full, with the times that are choices      *)
(* here, and with tickets that expire, which none does here).  Requests    *)
(* and responses may be repeated at will, and may reach any member: a      *)
(* group may be run without steering.                                      *)
(***************************************************************************)
EXTENDS Integers, Functions

CONSTANTS
    ShardBits, SlotBits, GenerationBits,  \* of a connection id
    Count,        \* ShardCount of the group
    Issued,       \* by TicketId: the session each first ticket names
    Resumes,      \* TicketIds of the resume tickets
    None,         \* Option::None
    MaxSessions,  \* bound: sessions a member creates
    MaxUses       \* bound: occupancies of a slot

VARIABLES
    tickets,       \* by TicketId: the session a sealed ticket names
    cookies,       \* cookies sent: the home in the clear, and the ticket
    connections,   \* each member's slab, by slot
    uses,          \* occupancies of each slot
    sessions,      \* each member's sessions: the slot attached, or None
    redeemed,      \* each member's redeemed tickets, and whether still live
    next_session,  \* next_session_sequence of each member
    yielded        \* history: connections each ticket made

vars == <<tickets, cookies, connections, uses, sessions, redeemed,
          next_session, yielded>>

Ids == DOMAIN Issued \cup Resumes
Members == 0..(Count - 1)
Slots == 0..(2 ^ SlotBits - 1)

\* HashMap::insert.
With(map, key, value) ==
    [k \in DOMAIN map \cup {key} |-> IF k = key THEN value ELSE map[k]]

Init ==
    /\ tickets = Issued
    /\ cookies = {}
    /\ connections = [m \in Members |-> [s \in Slots |-> None]]
    /\ uses = [m \in Members |-> [s \in Slots |-> 0]]
    /\ sessions = [m \in Members |-> << >>]
    /\ redeemed = [m \in Members |-> [t \in Ids |-> "Unspent"]]
    /\ next_session = [m \in Members |-> 1]
    /\ yielded = [t \in Ids |-> 0]

-----------------------------------------------------------------------------
(* Ids, and what can be read from them.                                    *)

\* SessionId::new, ConnectionId::new.
SessionId(sequence, shard) == sequence * 2 ^ ShardBits + shard

ConnectionId(slot, generation, shard) ==
    (generation % 2 ^ GenerationBits) * 2 ^ (ShardBits + SlotBits)
    + (slot % 2 ^ SlotBits) * 2 ^ ShardBits
    + shard

\* SessionId::shard, ConnectionId::shard: the low bits.
ShardOf(id) == id % 2 ^ ShardBits

SlotOf(id) == (id \div 2 ^ ShardBits) % 2 ^ SlotBits

\* ShardCount::home: where a handshake with this ticket is completed.
Home(t) ==
    IF tickets[t] = None THEN t % Count
    ELSE IF ShardOf(tickets[t]) \in Members THEN ShardOf(tickets[t])
    ELSE None

\* owner_shard: the one member that may handle a datagram, if only one may.
OwnerShard(d) ==
    IF d.kind = "Payload" THEN ShardOf(d.id)
    ELSE IF d.kind = "Response" THEN d.home
    ELSE None

\* steering_program, and the kernel, which takes a position outside the group
\* for any member: where a datagram arrives.
Steered(d) ==
    LET position == IF d.kind = "Payload" THEN d.id % 2 ^ ShardBits
                    ELSE IF d.kind = "Response" THEN d.home
                    ELSE None
    IN  IF position \in Members THEN {position} ELSE Members

\* handle_datagram refuses what another shard owns.
Misrouted(d, m) == OwnerShard(d) # None /\ OwnerShard(d) # m

-----------------------------------------------------------------------------
(* The members.                                                            *)

\* check_ticket.
CheckTicket(t, m) == tickets[t] = None \/ tickets[t] \in DOMAIN sessions[m]

\* Mutant: the cookie is addressed to the member that answers.
EncryptCookieHere(t, m) == [kind |-> "Response", home |-> m, ticket |-> t]

\* encrypt_cookie: addressed to the ticket's home, whoever answers.
EncryptCookie(t, m) ==
    [kind |-> "Response", home |-> Home(t), ticket |-> t]

\* handle_request at any member.  The ticket's home also looks it up.
HandleRequest(t, m) ==
    /\ t \in DOMAIN tickets
    /\ Home(t) # None
    /\ Home(t) = m => CheckTicket(t, m) /\ redeemed[m][t] # "Ended"
    /\ cookies' = cookies \cup {EncryptCookie(t, m)}
    /\ UNCHANGED <<tickets, connections, uses, sessions, redeemed,
                   next_session, yielded>>

\* The connection that ticket t makes in slot s, in its n-th occupancy.  A
\* slab generation is odd while occupied and advances twice per occupancy.
Accept(t, m, s, n) ==
    [id |-> ConnectionId(s, (2 * n - 1) \div 2, m),
     ticket |-> t,
     session |-> IF tickets[t] = None THEN SessionId(next_session[m], m)
                 ELSE tickets[t]]

\* handle_response.  A ticket already spent here makes nothing new.
HandleResponse(d, m, s) ==
    LET t == d.ticket
        n == uses[m][s] + 1
        conn == Accept(t, m, s, n)
    IN  /\ ~Misrouted(d, m)
        /\ redeemed[m][t] = "Unspent"
        /\ CheckTicket(t, m)
        /\ connections[m][s] = None /\ n <= MaxUses
        /\ tickets[t] = None => next_session[m] <= MaxSessions
        /\ connections' = [connections EXCEPT ![m][s] = conn]
        /\ uses' = [uses EXCEPT ![m][s] = n]
        /\ sessions' = [sessions EXCEPT ![m] = With(@, conn.session, s)]
        /\ redeemed' = [redeemed EXCEPT ![m][t] = "Live"]
        /\ next_session' = IF tickets[t] # None THEN next_session
                           ELSE [next_session EXCEPT ![m] = @ + 1]
        /\ yielded' = [yielded EXCEPT ![t] = @ + 1]
        /\ UNCHANGED <<tickets, cookies>>

\* issue_resume_ticket: sealed under the group's key, with an identity that
\* no other ticket has.
IssueResumeTicket(t, m, s) ==
    /\ t \in Resumes \ DOMAIN tickets
    /\ connections[m][s] # None
    /\ tickets' = With(tickets, t, connections[m][s].session)
    /\ UNCHANGED <<cookies, connections, uses, sessions, redeemed,
                   next_session, yielded>>

Without(m, session) ==
    [sessions EXCEPT ![m] = Restrict(@, DOMAIN @ \ {session})]

\* retire: the ticket stays spent.  A session that another connection took
\* over is left alone; of the others, a player who left on purpose keeps none.
Retire(m, s, requested) ==
    LET conn == connections[m][s]
        attached == /\ conn.session \in DOMAIN sessions[m]
                    /\ sessions[m][conn.session] = s
    IN  /\ conn # None
        /\ connections' = [connections EXCEPT ![m][s] = None]
        /\ redeemed' = [redeemed EXCEPT ![m][conn.ticket] = "Ended"]
        /\ sessions' = IF ~attached THEN sessions
                       ELSE IF requested THEN Without(m, conn.session)
                       ELSE [sessions EXCEPT ![m][conn.session] = None]
        /\ UNCHANGED <<tickets, cookies, uses, next_session, yielded>>

\* expire_sessions.
ExpireSession(m, session) ==
    /\ sessions[m][session] = None
    /\ sessions' = Without(m, session)
    /\ UNCHANGED <<tickets, cookies, connections, uses, redeemed,
                   next_session, yielded>>

Next ==
    \E m \in Members :
        \/ \E t \in Ids : HandleRequest(t, m)
        \/ \E d \in cookies, s \in Slots : HandleResponse(d, m, s)
        \/ \E t \in Resumes, s \in Slots : IssueResumeTicket(t, m, s)
        \/ \E s \in Slots, requested \in BOOLEAN : Retire(m, s, requested)
        \/ \E session \in DOMAIN sessions[m] : ExpireSession(m, session)

Spec == Init /\ [][Next]_vars

-----------------------------------------------------------------------------
(* Properties                                                              *)

\* The members share nothing and agree all the same, "however the kernel
\* spreads the requests": no ticket makes two connections in the whole group,
\* no two members hold one session, a cookie for a session that is held is
\* addressed to its holder, and a packet of a connection is steered to the
\* member and the slot that hold it and is no other connection's.
OneHome ==
    /\ \A t \in Ids : yielded[t] <= 1
    /\ \A m, n \in Members :
          m # n => DOMAIN sessions[m] \cap DOMAIN sessions[n] = {}
    /\ \A d \in cookies, m \in Members :
          tickets[d.ticket] \in DOMAIN sessions[m] => Steered(d) = {m}
    /\ \A m \in Members, s \in Slots :
          LET conn == connections[m][s]
              packet == [kind |-> "Payload", id |-> conn.id]
          IN  conn # None => /\ Steered(packet) = {m}
                             /\ ~Misrouted(packet, m)
                             /\ SlotOf(conn.id) = s

=============================================================================
