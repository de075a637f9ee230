------------------------------ MODULE Endpoint ------------------------------
(***************************************************************************)
(* The server's bookkeeping for all its connections: Endpoint in           *)
(* endpoint.rs.  Handshakes and spent tickets, sessions and their          *)
(* suspension, the queues that decide which connection is served next, and *)
(* the retirement of closed ones.                                          *)
(*                                                                         *)
(* A connection is reduced to what the endpoint sees of it: its lifecycle, *)
(* its session and ticket, and the Closed event it may hold.  When its     *)
(* timer is due, whether it is idle and what a datagram does to it are     *)
(* choices.  A handle is a slot and the occupancy it was issued for; which *)
(* free slot a connection gets is the slab's choice.  Only datagrams that  *)
(* authenticate appear, and a response comes from the address its cookie   *)
(* names; the others change nothing, like those the rate limiter drops.    *)
(*                                                                         *)
(* A datagram is judged at its arrival time.  It may be ahead of the clock *)
(* of the step, which is read before the step receives, and trails it by   *)
(* up to Lag: a step that leaves a backlog unread runs its timeouts at a   *)
(* later time than that of the datagrams it left.                          *)
(***************************************************************************)
EXTENDS Integers, Sequences, FiniteSets, SequencesExt

CONSTANTS
    Slots,        \* slots of the slab
    Tickets,      \* sealed tickets, by TicketId
    Players,      \* client ids
    CookieLife,   \* COOKIE_LIFETIME
    Grace,        \* RESUME_GRACE
    ResumeLife,   \* RESUME_TICKET_LIFETIME
    BackendLives, \* lifetimes the backend gives tickets
    ReapBatch,    \* REAP_BATCH
    CloseSends,   \* CLOSE_SENDS
    Lag,          \* how far an arrival may trail the clock
    Lead,         \* how far it may be ahead
    Shards,       \* whether other shards answer requests
    MaxTime,      \* bound: the clock
    MaxSessions,  \* bound: sessions created
    MaxUses       \* bound: occupancies of a slot

NoTicket == 0

ASSUME EndpointAssumption ==
    /\ IsFiniteSet(Slots)
    /\ Tickets \subseteq Nat \ {NoTicket}
    /\ CookieLife \in Nat
    /\ Grace \in Nat \ {0}
    /\ ResumeLife \in Nat
    /\ BackendLives \subseteq Nat
    /\ ReapBatch \in Nat \ {0}
    /\ CloseSends \in Nat \ {0}
    /\ Lag \in Nat
    /\ Lead \in Nat
    /\ Shards \in BOOLEAN
    /\ {MaxTime, MaxSessions, MaxUses} \subseteq Nat

VARIABLES
    now,             \* the clock of the step
    connections,     \* the slab: what each slot holds
    uses,            \* occupancies of each slot so far
    schedules,       \* Schedule of each slot
    timers,          \* slots with a deadline
    ready,           \* handles queued to transmit
    retiring,        \* handles of closed connections awaiting removal
    redeemed,        \* per ticket: Unspent, NoConnection, or a handle
    sessions,        \* Session of each session id
    suspended,       \* (since, session), in order of suspension
    next_session,    \* next_session_sequence
    tickets,         \* tickets in circulation: expiry, session, client id
    cookies,         \* challenges sent: ticket and time of issue
    yielded,         \* history: connections each ticket produced
    attached         \* history: Connected less Disconnected events, by session

vars == <<now, connections, uses, schedules, timers, ready, retiring,
          redeemed, sessions, suspended, next_session, tickets, cookies,
          yielded, attached>>

SessionIds == 1..MaxSessions
NoSession == 0

Handles == Slots \X (1..MaxUses)
Unspent == <<-1, 0>>
NoConnection == <<-1, 1>>

\* left: close notices still to send.  why: the reason of the close.
\* told: the Closed event is still in the connection's own queue.
Vacant == [life |-> "Vacant", left |-> 0, why |-> "TimedOut", told |-> FALSE,
           session |-> NoSession, ticket |-> NoTicket]

DefaultSchedule ==
    [ready |-> FALSE, retiring |-> FALSE, closed_with |-> "TimedOut"]

NoRecord == [state |-> "None"]

Occupied == {s \in Slots : connections[s] # Vacant}

HandleAt(s) == <<s, uses[s]>>

\* connections.contains.
IsCurrent(h) == h \in Handles /\ h[1] \in Occupied /\ uses[h[1]] = h[2]

-----------------------------------------------------------------------------
(* Pieces of the handlers.                                                 *)

\* touch, for a set of current handles in whatever order the caller takes
\* them: those not yet queued go to the back.
Touched(hs) ==
    {ready \o new : new \in SetToSeqs({h \in hs : ~schedules[h[1]].ready})}

MarkReady(scheds, hs) ==
    [s \in Slots |-> IF \E h \in hs : h[1] = s
                     THEN [scheds[s] EXCEPT !.ready = TRUE] ELSE scheds[s]]

\* Connection::close.
CloseConn(conn, reason) ==
    IF conn.life = "Open"
    THEN [conn EXCEPT !.life = "Closing", !.left = CloseSends, !.why = reason]
    ELSE conn

\* A connection reaches Closed and raises its Closed event.
EndConn(conn, reason) ==
    [conn EXCEPT !.life = "Closed", !.why = reason, !.told = TRUE]

\* pump_events: the reason of a Closed event is kept in the slot's schedule.
Pumped(conn) == [conn EXCEPT !.told = FALSE]

PumpInto(sched, conn) ==
    IF conn.told THEN [sched EXCEPT !.closed_with = conn.why] ELSE sched

\* Mutant: a session that no longer exists is no obstacle.
CheckTicketLenient(t, at) ==
    LET s == tickets[t].session
        record == sessions[s]
    IN  /\ at <= tickets[t].expires_at
        /\ s # NoSession /\ record.state # "None" =>
             /\ record.owner = tickets[t].client_id
             /\ record.state = "Suspended" => at - record.since < Grace

\* check_ticket.
CheckTicket(t, at) ==
    LET s == tickets[t].session
        record == sessions[s]
    IN  /\ at <= tickets[t].expires_at
        /\ s # NoSession =>
             /\ record.state # "None"
             /\ record.owner = tickets[t].client_id
             /\ record.state = "Suspended" => at - record.since < Grace

Arrivals == {at \in 0..(now + Lead) : now - Lag <= at}

-----------------------------------------------------------------------------

Init ==
    /\ now = 0
    /\ connections = [s \in Slots |-> Vacant]
    /\ uses = [s \in Slots |-> 0]
    /\ schedules = [s \in Slots |-> DefaultSchedule]
    /\ timers = {}
    /\ ready = << >>
    /\ retiring = << >>
    /\ redeemed = [t \in Tickets |-> Unspent]
    /\ sessions = [s \in SessionIds |-> NoRecord]
    /\ suspended = << >>
    /\ next_session = 1
    /\ tickets = << >>
    /\ cookies = {}
    /\ yielded = [t \in Tickets |-> 0]
    /\ attached = [s \in SessionIds |-> 0]

Tick ==
    /\ now < MaxTime
    /\ now' = now + 1
    /\ UNCHANGED <<connections, uses, schedules, timers, ready, retiring,
                   redeemed, sessions, suspended, next_session, tickets,
                   cookies, yielded, attached>>

-----------------------------------------------------------------------------
(* Handshakes.                                                             *)

\* A ticket is sealed.  Whoever seals it names the player.
Issue(t, expires_at, session) ==
    /\ t \in Tickets \ DOMAIN tickets
    /\ \E p \in Players :
          tickets' = [u \in DOMAIN tickets \cup {t} |->
                        IF u = t THEN [expires_at |-> expires_at,
                                       session |-> session, client_id |-> p]
                        ELSE tickets[u]]

\* The backend seals a ticket for a new player.
IssueTicket(t) ==
    /\ \E life \in BackendLives : Issue(t, now + life, NoSession)
    /\ UNCHANGED <<now, connections, uses, schedules, timers, ready, retiring,
                   redeemed, sessions, suspended, next_session, cookies,
                   yielded, attached>>

\* issue_resume_ticket for the session of a connection.
IssueResumeTicket(h, t) ==
    /\ IsCurrent(h)
    /\ Issue(t, now + ResumeLife, connections[h[1]].session)
    /\ ready' \in Touched({h})
    /\ schedules' = MarkReady(schedules, {h})
    /\ UNCHANGED <<now, connections, uses, timers, retiring, redeemed,
                   sessions, suspended, next_session, cookies, yielded,
                   attached>>

Challenge(t, at) ==
    /\ cookies' = cookies \cup {[ticket |-> t, issued_at |-> at]}
    /\ UNCHANGED <<now, connections, uses, schedules, timers, ready, retiring,
                   redeemed, sessions, suspended, next_session, tickets,
                   yielded, attached>>

\* handle_request at the ticket's home shard.
HandleRequest(t, at) ==
    /\ CheckTicket(t, at)
    /\ redeemed[t] # NoConnection
    /\ Challenge(t, at)

\* handle_request at another shard, which knows only the ticket's expiry.
HandleRequestElsewhere(t, at) ==
    /\ Shards
    /\ at <= tickets[t].expires_at
    /\ Challenge(t, at)

\* The cookie of a response still counts.
CookieValid(c, at) == at - c.issued_at <= CookieLife

\* handle_response for a ticket that has produced a connection: while the
\* connection lives, its acceptance is queued again.
HandleResponseSpent(c, at) ==
    LET h == redeemed[c.ticket]
    IN  /\ CookieValid(c, at)
        /\ IsCurrent(h)
        /\ ready' \in Touched({h})
        /\ schedules' = MarkReady(schedules, {h})
        /\ UNCHANGED <<now, connections, uses, timers, retiring, redeemed,
                       sessions, suspended, next_session, tickets, cookies,
                       yielded, attached>>

\* Mutant: the holder is left alone.
DisplacedNever(session) == {}

\* The connection a takeover closes: the holder of the session, if any.
Displaced(session) ==
    IF sessions[session].state = "Live"
       /\ IsCurrent(sessions[session].holder)
    THEN {sessions[session].holder} ELSE {}

\* The ticket has no record of having been spent.
Fresh(t) == redeemed[t] = Unspent

\* handle_response for an unspent ticket, accepted into slot s.
HandleResponse(c, at, s) ==
    LET t == c.ticket
        resumed == tickets[t].session # NoSession
        session == IF resumed THEN tickets[t].session ELSE next_session
        h == <<s, uses[s] + 1>>
        prev == Displaced(session)
        conn == [life |-> "Open", left |-> 0, why |-> "TimedOut",
                 told |-> FALSE, session |-> session, ticket |-> t]
    IN  /\ CookieValid(c, at)
        /\ Fresh(t)
        /\ CheckTicket(t, at)
        /\ s \in Slots \ Occupied
        /\ uses[s] < MaxUses
        /\ session <= MaxSessions
        /\ next_session' = IF resumed THEN next_session ELSE next_session + 1
        /\ connections' =
             [x \in Slots |->
                 IF x = s THEN conn
                 ELSE IF \E g \in prev : g[1] = x
                 THEN CloseConn(connections[x], "Replaced")
                 ELSE connections[x]]
        /\ uses' = [uses EXCEPT ![s] = @ + 1]
        /\ \E queue \in Touched(prev) : ready' = Append(queue, h)
        /\ schedules' =
             [MarkReady(schedules, prev) EXCEPT
                 ![s] = [DefaultSchedule EXCEPT !.ready = TRUE]]
        /\ sessions' = [sessions EXCEPT ![session] =
                           [state |-> "Live", owner |-> tickets[t].client_id,
                            holder |-> h]]
        /\ redeemed' = [redeemed EXCEPT ![t] = h]
        /\ yielded' = [yielded EXCEPT ![t] = @ + 1]
        /\ attached' = [attached EXCEPT ![session] = @ + 1]
        /\ UNCHANGED <<now, timers, retiring, suspended, tickets, cookies>>

-----------------------------------------------------------------------------
(* Traffic and the application.                                            *)

\* A connection becomes conn and is queued to transmit; its events are moved
\* out.
Serve(h, conn) ==
    /\ connections' = [connections EXCEPT ![h[1]] = Pumped(conn)]
    /\ ready' \in Touched({h})
    /\ schedules' = [MarkReady(schedules, {h}) EXCEPT
                        ![h[1]] = PumpInto(@, conn)]
    /\ UNCHANGED <<now, uses, timers, retiring, redeemed, sessions,
                   suspended, next_session, tickets, cookies, yielded,
                   attached>>

\* What a datagram, or its contents, may do to an open or closing
\* connection: nothing here, close it for a violation, or end it.
Heard(conn) ==
    {conn, CloseConn(conn, "ProtocolViolation")}
    \cup {EndConn(conn, reason) : reason \in {"Requested",
                                              "ProtocolViolation"}}

\* route_payload to a connection that has not closed; a closed one drops it.
RoutePayload(h) ==
    /\ IsCurrent(h)
    /\ connections[h[1]].life # "Closed"
    /\ \E conn \in Heard(connections[h[1]]) : Serve(h, conn)

\* connection_mut, for sending or for closing.
ConnectionMut(h) ==
    /\ IsCurrent(h)
    /\ ready' \in Touched({h})
    /\ schedules' = MarkReady(schedules, {h})
    /\ \E conn \in {connections[h[1]],
                     CloseConn(connections[h[1]], "Requested")} :
          connections' = [connections EXCEPT ![h[1]] = conn]
    /\ UNCHANGED <<now, uses, timers, retiring, redeemed, sessions,
                   suspended, next_session, tickets, cookies, yielded,
                   attached>>

\* shutdown: every connection, in the order the slab lists them.
Shutdown ==
    /\ ready' \in Touched({HandleAt(s) : s \in Occupied})
    /\ schedules' = MarkReady(schedules, {HandleAt(s) : s \in Occupied})
    /\ connections' =
         [s \in Slots |-> CloseConn(connections[s], "ServerShutdown")]
    /\ UNCHANGED <<now, uses, timers, retiring, redeemed, sessions,
                   suspended, next_session, tickets, cookies, yielded,
                   attached>>

-----------------------------------------------------------------------------
(* Passes of the driver.                                                   *)

\* Mutant: the countdown stops at zero and nothing follows.
PolledForever(conn) ==
    IF conn.life # "Closing" THEN conn
    ELSE [conn EXCEPT !.left = IF @ = 0 THEN 0 ELSE @ - 1]

\* poll_transmit, as far as the lifecycle goes: a closing connection sends
\* its notice, and is closed by the last one.
Polled(conn) ==
    IF conn.life # "Closing" THEN conn
    ELSE IF conn.left <= 1 THEN EndConn([conn EXCEPT !.left = 0], conn.why)
    ELSE [conn EXCEPT !.left = @ - 1]

\* Mutant: the flag is cleared whoever occupies the slot by now.
ClearedAlways(h) == [schedules EXCEPT ![h[1]].ready = FALSE]

\* The flags once h has left the ready queue.  A retired connection's handle
\* can still be queued; its slot's flags belong to the next occupant.
Cleared(h) == IF IsCurrent(h) THEN [schedules EXCEPT ![h[1]].ready = FALSE]
              ELSE schedules

\* drain_transmits into a sink with room for one packet; a larger sink takes
\* several of these in a row.  The connection's timer is rearmed, or the
\* connection queued for removal once it has closed.
DrainTransmits ==
    LET h == Head(ready)
        s == h[1]
        conn == Polled(connections[s])
        closed == conn.life = "Closed"
    IN  /\ ready # << >>
        /\ ready' = Tail(ready)
        /\ IF IsCurrent(h)
           THEN /\ connections' = [connections EXCEPT ![s] = conn]
                /\ timers' = IF closed THEN timers \ {s} ELSE timers \cup {s}
                /\ retiring' = IF closed /\ ~schedules[s].retiring
                               THEN Append(retiring, h) ELSE retiring
                /\ schedules' = [Cleared(h) EXCEPT ![s].retiring = @ \/ closed]
           ELSE /\ schedules' = Cleared(h)
                /\ UNCHANGED <<connections, timers, retiring>>
        /\ UNCHANGED <<now, uses, redeemed, sessions, suspended,
                       next_session, tickets, cookies, yielded, attached>>

\* The session of h is still its own.
Holds(h) ==
    LET session == connections[h[1]].session
    IN  sessions[session].state = "Live" /\ sessions[session].holder = h

\* Mutant: the reason is read before the last events are moved out.
ReasonOfUnpumped(h) == schedules[h[1]].closed_with

\* The reason retire finds for h: the pump before it may still bring one.
ReasonOf(h) ==
    PumpInto(schedules[h[1]], connections[h[1]]).closed_with

\* The player left on purpose; nothing is held for them.
Deliberate == {"Requested", "ServerShutdown"}

\* The handles one pass retires.
Batch == SubSeq(retiring, 1, IF Len(retiring) < ReapBatch
                             THEN Len(retiring) ELSE ReapBatch)

Gone == {h \in ToSet(Batch) : IsCurrent(h)}

\* retire, on the session table and the queue of suspensions.
SessionsReaped ==
    [s \in SessionIds |->
        IF \E h \in Gone : connections[h[1]].session = s /\ Holds(h)
        THEN IF ReasonOf(sessions[s].holder) \in Deliberate THEN NoRecord
             ELSE [state |-> "Suspended", owner |-> sessions[s].owner,
                   since |-> now]
        ELSE sessions[s]]

\* The places in the batch of the connections whose sessions are suspended.
Dropped ==
    {i \in DOMAIN Batch : /\ Batch[i] \in Gone
                          /\ Holds(Batch[i])
                          /\ ReasonOf(Batch[i]) \notin Deliberate}

\* Their sessions, queued in the order of the batch.
Suspending(places) ==
    {[i \in DOMAIN order |-> <<now, connections[Batch[order[i]][1]].session>>] :
        order \in {o \in SetToSeqs(places) :
                     \A i, j \in DOMAIN o : i < j => o[i] < o[j]}}

\* Mutant: a session already in the queue is not queued again.
SuspendedReapedOnce ==
    {suspended \o new : new \in Suspending(
        {i \in Dropped : \A e \in ToSet(suspended) :
                             e[2] # connections[Batch[i][1]].session})}

SuspendedReaped == {suspended \o new : new \in Suspending(Dropped)}

\* The entry i of a queue of suspensions is its session's current one.
Matches(records, queue, i) ==
    LET record == records[queue[i][2]]
    IN  /\ record.state = "Suspended"
        /\ record.since = queue[i][1]
        /\ \A j \in 1..(i - 1) : queue[j] # queue[i]

\* expire_sessions: the entries it takes off the front, all lapsed, with no
\* more than a batch of sessions removed.
Lapsed(records, queue) ==
    {i \in DOMAIN queue :
        \A j \in 1..i :
            /\ now - queue[j][1] >= Grace
            /\ Cardinality({k \in 1..(j - 1) : Matches(records, queue, k)})
                 < ReapBatch}

Expired(records, queue) ==
    {queue[i][2] : i \in {j \in Lapsed(records, queue) :
                              Matches(records, queue, j)}}

\* Mutant: a ticket is forgotten while it can still be presented.
ForgottenEarly ==
    {t \in DOMAIN tickets : tickets[t].expires_at <= now}

\* forget_expired_tickets.
Forgotten ==
    {t \in DOMAIN tickets : tickets[t].expires_at < now}

\* Mutant: a connection that lost its session leaves in silence.
DepartedHolders(session) ==
    {h \in Gone : connections[h[1]].session = session /\ Holds(h)}

\* The connections whose Disconnected event names the session.
Departed(session) == {h \in Gone : connections[h[1]].session = session}

\* A closing connection that has sent and was not touched since has a packet
\* due at once.
Urgent == {s \in timers : /\ connections[s].life = "Closing"
                          /\ ~schedules[s].ready}

\* handle_timeout: the connections that are due, of which the idle ones end;
\* then reap, expire_sessions and forget_expired_tickets.
HandleTimeout(due, idle) ==
    LET hs == {HandleAt(s) : s \in due}
        gone == {h[1] : h \in Gone}
        served == [s \in Slots |->
                     IF s \in idle THEN EndConn(connections[s], "TimedOut")
                     ELSE connections[s]]
    IN  /\ Urgent \subseteq due
        /\ connections' =
             [s \in Slots |->
                 IF s \in gone THEN Vacant
                 ELSE IF s \in due THEN Pumped(served[s])
                 ELSE connections[s]]
        /\ schedules' =
             [s \in Slots |->
                 IF s \in gone THEN DefaultSchedule
                 ELSE IF s \in due
                 THEN PumpInto(MarkReady(schedules, hs)[s], served[s])
                 ELSE schedules[s]]
        /\ ready' \in Touched(hs)
        /\ timers' = timers \ (due \cup gone)
        /\ retiring' = SubSeq(retiring, Len(Batch) + 1, Len(retiring))
        /\ redeemed' =
             [t \in Tickets |->
                 IF t \in Forgotten THEN Unspent
                 ELSE IF redeemed[t] # Unspent
                         /\ \E s \in gone : connections[s].ticket = t
                 THEN NoConnection
                 ELSE redeemed[t]]
        /\ \E queue \in SuspendedReaped :
              /\ sessions' =
                   [s \in SessionIds |->
                       IF s \in Expired(SessionsReaped, queue) THEN NoRecord
                       ELSE SessionsReaped[s]]
              /\ suspended' =
                   SubSeq(queue, Cardinality(Lapsed(SessionsReaped, queue)) + 1,
                          Len(queue))
        /\ attached' =
             [s \in SessionIds |->
                 attached[s] - Cardinality(Departed(s))]
        /\ UNCHANGED <<now, uses, next_session, tickets, cookies, yielded>>

Timeout ==
    \E due \in SUBSET timers :
    \E idle \in SUBSET {s \in due : connections[s].life # "Closed"} :
        HandleTimeout(due, idle)

Next ==
    \/ Tick
    \/ \E t \in Tickets : IssueTicket(t)
    \/ \E s \in Occupied, t \in Tickets : IssueResumeTicket(HandleAt(s), t)
    \/ \E t \in DOMAIN tickets, at \in Arrivals : HandleRequest(t, at)
    \/ \E t \in DOMAIN tickets, at \in Arrivals : HandleRequestElsewhere(t, at)
    \/ \E c \in cookies, at \in Arrivals : HandleResponseSpent(c, at)
    \/ \E c \in cookies, at \in Arrivals, s \in Slots : HandleResponse(c, at, s)
    \/ \E s \in Occupied : RoutePayload(HandleAt(s))
    \/ \E s \in Occupied : ConnectionMut(HandleAt(s))
    \/ Shutdown
    \/ DrainTransmits
    \/ Timeout

Spec == Init /\ [][Next]_vars

\* The driver steps at once while next_timeout is ZERO, which it is while
\* anything is queued to transmit or to retire, and otherwise at the earliest
\* deadline; every step runs a timeout pass and then drains.
FairSpec == Spec /\ WF_vars(Timeout) /\ WF_vars(DrainTransmits)

-----------------------------------------------------------------------------
(* Properties                                                              *)

\* Every connection is on its way to being served: queued to transmit, timed,
\* or, once closed, queued for removal; and a slot's flags say which.  Were a
\* flag set without its queue entry, touch would never queue the connection
\* again, and nothing would ever send, time out or retire it.
Scheduled ==
    /\ \A s \in Occupied :
          LET h == HandleAt(s)
          IN  /\ schedules[s].ready <=> h \in ToSet(ready)
              /\ schedules[s].retiring <=> h \in ToSet(retiring)
              /\ connections[s].life = "Closed" =>
                    schedules[s].ready \/ schedules[s].retiring
              /\ schedules[s].ready \/ schedules[s].retiring \/ s \in timers
    /\ \A s \in timers : s \in Occupied /\ ~schedules[s].retiring
    /\ \A h \in ToSet(retiring) : IsCurrent(h)

\* The session table and the slab agree: a live session's holder is a current
\* connection that serves it, and a connection that is still open holds its
\* session, so no two open connections ever serve one player.
SessionsAgree ==
    /\ \A s \in SessionIds : sessions[s].state = "Live" =>
          /\ IsCurrent(sessions[s].holder)
          /\ connections[sessions[s].holder[1]].session = s
    /\ \A s \in Occupied : connections[s].life = "Open" => Holds(HandleAt(s))

\* A suspended session has the entry that will expire it, however often it
\* was resumed and suspended before.
SuspensionsExpire ==
    \A s \in SessionIds : sessions[s].state = "Suspended" =>
        <<sessions[s].since, s>> \in ToSet(suspended)

\* Every Connected event is answered by one Disconnected event, no sooner
\* and no later than its connection leaves the slab.
EveryArrivalDeparts ==
    \A s \in SessionIds :
        attached[s] = Cardinality({x \in Occupied : connections[x].session = s})

\* "Kept until the ticket expires, so it can never produce another": a ticket
\* produces at most one connection.
TicketOnce == \A t \in Tickets : yielded[t] <= 1

\* A session that has ended stays ended, whatever cookies and tickets for it
\* are still about, and a session never changes its player.
NoResurrection ==
    [][\A s \in SessionIds :
          /\ s < next_session /\ sessions[s] = NoRecord =>
                sessions'[s] = NoRecord
          /\ sessions[s] # NoRecord /\ sessions'[s] # NoRecord =>
                sessions'[s].owner = sessions[s].owner]_vars

\* "A player who disconnected on purpose is gone.  One who dropped may be
\* reconnecting already, so their place is held": what retirement does to the
\* session follows the connection's true reason, and a session another
\* connection has taken over is left alone.
PlaceHeld ==
    [][\A s \in SessionIds :
          LET leaving == {x \in Occupied : /\ connections'[x] = Vacant
                                           /\ connections[x].session = s}
              holders == {x \in leaving : Holds(HandleAt(x))}
          IN  /\ leaving # {} /\ holders = {} =>
                    \/ sessions'[s].state = sessions[s].state
                    \/ sessions[s].state = "Suspended"
              /\ \A x \in holders :
                    IF connections[x].why \in Deliberate
                    THEN sessions'[s] = NoRecord
                    ELSE sessions'[s].state = "Suspended"]_vars

\* A connection that has begun to close is removed in the end.
ClosesComplete ==
    \A s \in Slots : \A n \in 1..MaxUses :
        (uses[s] = n /\ connections[s].life \in {"Closing", "Closed"})
            ~> (uses[s] # n \/ connections[s] = Vacant)

=============================================================================
