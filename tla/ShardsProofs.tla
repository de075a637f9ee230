---------------------------- MODULE ShardsProofs ----------------------------
(***************************************************************************)
(* A group of any size shares an address without sharing state: tickets,   *)
(* sessions and connections have one home, for every width of the ids.     *)
(* A ticket's home never changes, only its home ever redeems it, and a     *)
(* member creates no session or connection whose low bits are not its own. *)
(***************************************************************************)
EXTENDS Shards, TLAPS

Shard == 2 ^ ShardBits
Slot == 2 ^ SlotBits
Generation == 2 ^ GenerationBits

\* Widths are numbers of bits, a shard's number fits in its bits, and
\* identities and sessions are numbers.
Admissible ==
    /\ Shard \in Nat \ {0} /\ Slot \in Nat \ {0} /\ Generation \in Nat \ {0}
    /\ 2 ^ (ShardBits + SlotBits) = Slot * Shard
    /\ Count \in 1..Shard
    /\ Ids \subseteq Nat
    /\ \A t \in DOMAIN Issued : Issued[t] \in Nat \cup {None}
    /\ None \notin Nat

\* A table with a row for each of M and a column for each of S.
Table(f, M, S) == f = [k \in M |-> [x \in S |-> f[k][x]]]

\* The table with one of its entries replaced.
Put(f, m, s, v) == [f EXCEPT ![m][s] = v]

\* Every map has its keys.
Maps ==
    /\ DOMAIN tickets \subseteq Ids
    /\ \A t \in DOMAIN tickets : tickets[t] \in Nat \cup {None}
    /\ Table(connections, Members, Slots)
    /\ uses \in [Members -> [Slots -> Nat]]
    /\ sessions = [m \in Members |-> sessions[m]]
    /\ Table(redeemed, Members, Ids)
    /\ next_session \in [Members -> Nat]
    /\ yielded \in [Ids -> 0..1]

\* A cookie is addressed to the home of its ticket.
Addressed ==
    \A d \in cookies :
        /\ d.kind = "Response"
        /\ d.ticket \in DOMAIN tickets
        /\ d.home = Home(d.ticket)
        /\ d.home \in Members

\* A ticket is spent at its home or not at all, and once it made a connection
\* it is spent.
Spent ==
    /\ \A t \in Ids, m \in Members :
          redeemed[m][t] # "Unspent" => t \in DOMAIN tickets /\ Home(t) = m
    /\ \A t \in Ids : yielded[t] = 1 =>
          \E m \in Members : redeemed[m][t] # "Unspent"

\* Member m names its own sessions and connections, and a connection was made
\* from a ticket that m redeemed.
Owned(m, s) ==
    LET conn == connections[m][s]
    IN  /\ \E g \in Nat : conn.id = ConnectionId(s, g, m)
        /\ conn.session \in Nat
        /\ ShardOf(conn.session) = m
        /\ conn.ticket \in Ids
        /\ redeemed[m][conn.ticket] # "Unspent"

Own ==
    /\ \A m \in Members : \A x \in DOMAIN sessions[m] :
          x \in Nat /\ ShardOf(x) = m
    /\ \A m \in Members, s \in Slots :
          connections[m][s] # None => Owned(m, s)

\* The inductive invariant.
IInv == Maps /\ Addressed /\ Spent /\ Own

-----------------------------------------------------------------------------

\* A remainder below the divisor is what the modulus finds, and the rest is
\* what the division does.
LEMMA LowBits ==
    ASSUME NEW a \in Nat, NEW d \in Nat \ {0}, NEW c \in 0..(d - 1)
    PROVE  (a * d + c) % d = c /\ (a * d + c) \div d = a
  OBVIOUS

\* A member's number fits in the bits of a shard.
LEMMA Fits ==
    ASSUME Admissible, NEW m \in Members
    PROVE  m \in 0..(Shard - 1)
  BY DEF Admissible, Members

\* SessionId::shard undoes SessionId::new.
LEMMA SessionShard ==
    ASSUME Admissible, NEW q \in Nat, NEW m \in Members
    PROVE  SessionId(q, m) \in Nat /\ ShardOf(SessionId(q, m)) = m
  <1>1. Shard \in Nat \ {0} /\ m \in 0..(Shard - 1)
      BY Fits DEF Admissible
  <1>2. SessionId(q, m) = q * Shard + m /\ ShardOf(SessionId(q, m)) = (q * Shard + m) % Shard
      BY DEF SessionId, ShardOf, Shard
  <1> HIDE DEF Shard
  <1>3. (q * Shard + m) % Shard = m
      BY <1>1, LowBits
  <1>4. q * Shard + m \in Nat
      BY <1>1
  <1> QED
      BY <1>2, <1>3, <1>4

\* ConnectionId::shard and ConnectionId::slot undo ConnectionId::new.
LEMMA ConnectionBits ==
    ASSUME Admissible, NEW g \in Nat, NEW m \in Members, NEW s \in Slots
    PROVE  /\ ShardOf(ConnectionId(s, g, m)) = m
           /\ SlotOf(ConnectionId(s, g, m)) = s
  <1> DEFINE h == g % Generation
             a == h * Slot + s
  <1>1. /\ Shard \in Nat \ {0} /\ Slot \in Nat \ {0} /\ Generation \in Nat \ {0}
        /\ 2 ^ (ShardBits + SlotBits) = Slot * Shard
        /\ m \in 0..(Shard - 1)
      BY Fits DEF Admissible
  <1>2. s \in 0..(Slot - 1)
      BY DEF Slots, Slot
  <1>3. ConnectionId(s, g, m) = h * (Slot * Shard) + (s % Slot) * Shard + m
      BY <1>1 DEF ConnectionId, Shard, Slot, Generation
  <1>4. /\ ShardOf(ConnectionId(s, g, m)) = ConnectionId(s, g, m) % Shard
        /\ SlotOf(ConnectionId(s, g, m)) = (ConnectionId(s, g, m) \div Shard) % Slot
      BY DEF ShardOf, SlotOf, Shard, Slot
  <1> HIDE DEF Shard, Slot, Generation
  <1>5. h \in Nat
      BY <1>1
  <1> HIDE DEF h
  <1>6. s % Slot = s
      BY <1>1, <1>2
  <1>7. h * (Slot * Shard) + s * Shard + m = a * Shard + m /\ a \in Nat
      BY <1>1, <1>2, <1>5
  <1>8. a % Slot = s
      BY <1>1, <1>2, <1>5, LowBits
  <1> HIDE DEF a
  <1>9. (a * Shard + m) % Shard = m /\ (a * Shard + m) \div Shard = a
      BY <1>1, <1>7, LowBits
  <1> QED
      BY <1>3, <1>4, <1>6, <1>7, <1>8, <1>9

-----------------------------------------------------------------------------

\* A table stays a table when one of its entries is replaced.
LEMMA Replace ==
    ASSUME NEW M, NEW S, NEW m \in M, NEW s \in S, NEW v, NEW f,
           Table(f, M, S)
    PROVE  Table(Put(f, m, s, v), M, S)
  <1> DEFINE g == Put(f, m, s, v)
  <1>0. f = [k \in M |-> [x \in S |-> f[k][x]]] /\ g = [f EXCEPT ![m][s] = v]
      BY DEF Table, Put
  <1> HIDE DEF g
  <1>1. /\ f[m] = [x \in S |-> f[m][x]]
        /\ g = [k \in M |-> IF k = m THEN [f[m] EXCEPT ![s] = v] ELSE f[k]]
      BY <1>0
  <1>2. [f[m] EXCEPT ![s] = v] = [x \in S |-> IF x = s THEN v ELSE f[m][x]]
      BY <1>1
  <1>3. \A k \in M : g[k] = [x \in S |->
                          IF k = m /\ x = s THEN v ELSE f[k][x]]
      <2> TAKE k \in M
      <2>1. f[k] = [x \in S |-> f[k][x]]
          BY <1>0
      <2>2. CASE k = m
          BY <1>1, <1>2, <2>2
      <2>3. CASE k # m
          BY <1>1, <2>1, <2>3
      <2> QED
          BY <2>2, <2>3
  <1>4. \A k \in M : g[k] = [x \in S |-> g[k][x]]
      BY <1>3
  <1>5. g = [k \in M |-> g[k]]
      BY <1>1
  <1>6. g = [k \in M |-> [x \in S |-> g[k][x]]]
      BY <1>4, <1>5
  <1> QED
      BY <1>6 DEF g, Table

\* A home is a member of the group, or there is none.
LEMMA HomeIsMember ==
    ASSUME Admissible, Maps, NEW t \in DOMAIN tickets
    PROVE  Home(t) \in Members \cup {None}
  <1>1. t \in Nat /\ Count \in Nat \ {0}
      BY DEF Admissible, Maps
  <1>2. t % Count \in 0..(Count - 1)
      BY <1>1
  <1> QED
      BY <1>2 DEF Home, Members

\* A new group has nothing.
LEMMA Start ==
    ASSUME Admissible, Init
    PROVE  IInv
  <1>1. Maps
      BY DEF Admissible, Init, Maps, Table, Ids
  <1>2. Addressed /\ Spent
      BY DEF Init, Addressed, Spent
  <1>3. Own
      BY DEF Init, Own
  <1> QED
      BY <1>1, <1>2, <1>3 DEF IInv

\* A request adds a cookie that is addressed to the ticket's home.
LEMMA RequestKeeps ==
    ASSUME Admissible, IInv, NEW m \in Members, NEW t \in Ids,
           HandleRequest(t, m)
    PROVE  IInv'
  <1>1. /\ t \in DOMAIN tickets /\ Home(t) # None
        /\ cookies' = cookies \cup {EncryptCookie(t, m)}
        /\ UNCHANGED <<tickets, connections, uses, sessions, redeemed,
                       next_session, yielded>>
      BY DEF HandleRequest
  <1>2. Maps' /\ Spent' /\ Own'
      BY <1>1 DEF IInv, Maps, Spent, Own, Owned, Home
  <1>3. Home(t) \in Members
      BY <1>1, HomeIsMember DEF IInv
  <1>4. Addressed'
      BY <1>1, <1>3 DEF IInv, Addressed, EncryptCookie, Home
  <1> QED
      BY <1>2, <1>4 DEF IInv

\* The home of a ticket that was not redeemed there makes its one connection.
LEMMA ResponseKeeps ==
    ASSUME Admissible, IInv, NEW m \in Members, NEW d \in cookies,
           NEW s \in Slots, HandleResponse(d, m, s)
    PROVE  IInv'
  <1> DEFINE t == d.ticket
             n == uses[m][s] + 1
             conn == Accept(t, m, s, n)
  <1>1. /\ ~Misrouted(d, m)
        /\ redeemed[m][t] = "Unspent"
        /\ connections' = [connections EXCEPT ![m][s] = conn]
        /\ uses' = [uses EXCEPT ![m][s] = n]
        /\ sessions' = [sessions EXCEPT ![m] = With(@, conn.session, s)]
        /\ redeemed' = [redeemed EXCEPT ![m][t] = "Live"]
        /\ next_session' = IF tickets[t] # None THEN next_session
                           ELSE [next_session EXCEPT ![m] = @ + 1]
        /\ yielded' = [yielded EXCEPT ![t] = @ + 1]
        /\ UNCHANGED <<tickets, cookies>>
        /\ CheckTicket(t, m)
      BY DEF HandleResponse
  <1>2. /\ t \in DOMAIN tickets /\ t \in Ids
        /\ d.kind = "Response" /\ d.home = Home(t) /\ d.home \in Members
      BY DEF IInv, Addressed, Maps
  <1>3. Home(t) = m
      <2>1. d.home # None
          BY <1>2 DEF Admissible, Members
      <2> QED
          BY <1>1, <1>2, <2>1 DEF Misrouted, OwnerShard
  <1>4. yielded[t] = 0
      <2>1. \A k \in Members : redeemed[k][t] = "Unspent"
          BY <1>1, <1>2, <1>3 DEF IInv, Spent
      <2> QED
          BY <1>2, <2>1 DEF IInv, Spent, Maps
  <1>5. n \in Nat /\ n > 0 /\ next_session[m] \in Nat
      BY DEF IInv, Maps
  <1>6. /\ \E g \in Nat : conn.id = ConnectionId(s, g, m)
        /\ conn.ticket = t
        /\ conn.session \in Nat /\ ShardOf(conn.session) = m
      <2>1. (2 * n - 1) \div 2 \in Nat
          BY <1>5
      <2>2. /\ conn.id = ConnectionId(s, (2 * n - 1) \div 2, m)
            /\ conn.ticket = t
            /\ conn.session = IF tickets[t] = None
                              THEN SessionId(next_session[m], m)
                              ELSE tickets[t]
          BY DEF Accept
      <2>3. CASE tickets[t] = None
          BY <1>5, <2>1, <2>2, <2>3, SessionShard
      <2>4. CASE tickets[t] # None
          <3>1. tickets[t] \in DOMAIN sessions[m]
              BY <1>1, <2>4 DEF CheckTicket
          <3> QED
              BY <2>1, <2>2, <2>4, <3>1 DEF IInv, Own
      <2> QED
          BY <2>3, <2>4
  <1> HIDE DEF conn, n
  <1>7. Maps'
      <2>1. sessions' = [k \in Members |-> sessions'[k]]
          BY <1>1 DEF IInv, Maps
      <2>2. /\ uses' \in [Members -> [Slots -> Nat]]
            /\ next_session' \in [Members -> Nat]
            /\ yielded' \in [Ids -> 0..1]
          BY <1>1, <1>2, <1>4, <1>5 DEF IInv, Maps
      <2>3. Table(connections', Members, Slots)
          <3>1. connections' = Put(connections, m, s, conn)
              BY <1>1 DEF Put
          <3> QED
              BY <3>1, Replace DEF IInv, Maps
      <2>4. Table(redeemed', Members, Ids)
          <3>1. redeemed' = Put(redeemed, m, t, "Live")
              BY <1>1 DEF Put
          <3> QED
              BY <1>2, <3>1, Replace DEF IInv, Maps
      <2> QED
          BY <1>1, <2>1, <2>2, <2>3, <2>4 DEF IInv, Maps
  <1>8. Addressed'
      BY <1>1 DEF IInv, Addressed, Home
  <1>9. \A k \in Members, x \in Ids :
          redeemed'[k][x] = IF k = m /\ x = t THEN "Live" ELSE redeemed[k][x]
      BY <1>1, <1>2 DEF IInv, Maps, Table
  <1>10. Spent'
      <2>1. \A x \in Ids : yielded'[x] = IF x = t THEN 1 ELSE yielded[x]
          BY <1>1, <1>2, <1>4 DEF IInv, Maps
      <2>2. \A x : Home(x)' = Home(x)
          BY <1>1 DEF Home
      <2> QED
          BY <1>1, <1>2, <1>3, <1>9, <2>1, <2>2 DEF IInv, Spent
  <1>11. Own'
      <2>1. \A k \in Members : DOMAIN sessions'[k] =
              IF k = m THEN DOMAIN sessions[m] \cup {conn.session}
              ELSE DOMAIN sessions[k]
          BY <1>1 DEF IInv, Maps, With
      <2>2. \A k \in Members, x \in Slots : connections'[k][x] =
              IF k = m /\ x = s THEN conn ELSE connections[k][x]
          BY <1>1 DEF IInv, Maps, Table
      <2>3. \A k \in Members : \A x \in DOMAIN sessions'[k] :
              x \in Nat /\ ShardOf(x) = k
          BY <1>6, <2>1 DEF IInv, Own
      <2>4. ASSUME NEW k \in Members, NEW x \in Slots,
                   connections'[k][x] # None
            PROVE  Owned(k, x)'
          <3>1. CASE k = m /\ x = s
              BY <1>2, <1>6, <1>9, <2>2, <3>1 DEF Owned
          <3>2. CASE ~(k = m /\ x = s)
              <4>1. Owned(k, x)
                  BY <2>2, <2>4, <3>2 DEF IInv, Own
              <4> QED
                  BY <1>9, <2>2, <3>2, <4>1 DEF Owned
          <3> QED
              BY <3>1, <3>2
      <2> QED
          BY <2>3, <2>4 DEF Own
  <1> QED
      BY <1>7, <1>8, <1>10, <1>11 DEF IInv

\* A resume ticket names a session of the member that issues it.
LEMMA IssueKeeps ==
    ASSUME Admissible, IInv, NEW m \in Members, NEW t \in Resumes,
           NEW s \in Slots, IssueResumeTicket(t, m, s)
    PROVE  IInv'
  <1> DEFINE session == connections[m][s].session
  <1>1. /\ t \notin DOMAIN tickets
        /\ connections[m][s] # None
        /\ tickets' = With(tickets, t, session)
        /\ UNCHANGED <<cookies, connections, uses, sessions, redeemed,
                       next_session, yielded>>
      BY DEF IssueResumeTicket
  <1>2. session \in Nat
      BY <1>1 DEF IInv, Own, Owned
  <1>3. /\ DOMAIN tickets' = DOMAIN tickets \cup {t}
        /\ tickets'[t] = session
        /\ \A x \in DOMAIN tickets : tickets'[x] = tickets[x]
      BY <1>1 DEF With
  <1> HIDE DEF session
  <1>4. \A x \in DOMAIN tickets : Home(x)' = Home(x)
      BY <1>3 DEF Home
  <1>5. Maps'
      BY <1>1, <1>2, <1>3 DEF IInv, Maps, Ids
  <1>6. Addressed'
      BY <1>1, <1>3, <1>4 DEF IInv, Addressed
  <1>7. Spent'
      BY <1>1, <1>3, <1>4 DEF IInv, Spent
  <1>8. Own'
      BY <1>1 DEF IInv, Own, Owned
  <1> QED
      BY <1>5, <1>6, <1>7, <1>8 DEF IInv

\* A session that is removed leaves the others as they were.
LEMMA WithoutKeeps ==
    ASSUME IInv, NEW m \in Members, NEW session,
           sessions' = Without(m, session)
    PROVE  /\ sessions' = [k \in Members |-> sessions'[k]]
           /\ \A k \in Members : DOMAIN sessions'[k] \subseteq DOMAIN sessions[k]
  BY DEF IInv, Maps, Without, Restrict

\* A connection that is retired leaves its ticket spent.
LEMMA RetireKeeps ==
    ASSUME Admissible, IInv, NEW m \in Members, NEW s \in Slots,
           NEW requested \in BOOLEAN, Retire(m, s, requested)
    PROVE  IInv'
  <1> DEFINE conn == connections[m][s]
             t == conn.ticket
  <1>1. /\ conn # None
        /\ connections' = [connections EXCEPT ![m][s] = None]
        /\ redeemed' = [redeemed EXCEPT ![m][t] = "Ended"]
        /\ \/ sessions' = sessions
           \/ sessions' = Without(m, conn.session)
           \/ /\ conn.session \in DOMAIN sessions[m]
              /\ sessions' = [sessions EXCEPT ![m][conn.session] = None]
        /\ UNCHANGED <<tickets, cookies, uses, next_session, yielded>>
      BY DEF Retire
  <1>2. t \in Ids /\ redeemed[m][t] # "Unspent"
      BY <1>1 DEF IInv, Own, Owned
  <1>3. /\ sessions' = [k \in Members |-> sessions'[k]]
        /\ \A k \in Members : DOMAIN sessions'[k] \subseteq DOMAIN sessions[k]
      <2>1. CASE sessions' = sessions
          BY <2>1 DEF IInv, Maps
      <2>2. CASE sessions' = Without(m, conn.session)
          BY <2>2, WithoutKeeps
      <2>3. CASE sessions' = [sessions EXCEPT ![m][conn.session] = None]
          BY <2>3 DEF IInv, Maps
      <2> QED
          BY <1>1, <2>1, <2>2, <2>3
  <1>4. /\ Table(connections', Members, Slots)
        /\ \A k \in Members, x \in Slots : connections'[k][x] =
              IF k = m /\ x = s THEN None ELSE connections[k][x]
      <2>1. connections' = Put(connections, m, s, None)
          BY <1>1 DEF Put
      <2>2. Table(connections', Members, Slots)
          BY <2>1, Replace DEF IInv, Maps
      <2>3. \A k \in Members, x \in Slots : connections'[k][x] =
              IF k = m /\ x = s THEN None ELSE connections[k][x]
          BY <1>1 DEF IInv, Maps, Table
      <2> QED
          BY <2>2, <2>3
  <1>5. /\ Table(redeemed', Members, Ids)
        /\ \A k \in Members, x \in Ids : redeemed'[k][x] =
              IF k = m /\ x = t THEN "Ended" ELSE redeemed[k][x]
      <2>1. redeemed' = Put(redeemed, m, t, "Ended")
          BY <1>1 DEF Put
      <2> HIDE DEF t
      <2>2. Table(redeemed', Members, Ids)
          BY <1>2, <2>1, Replace DEF IInv, Maps
      <2>3. \A k \in Members, x \in Ids : redeemed'[k][x] =
              IF k = m /\ x = t THEN "Ended" ELSE redeemed[k][x]
          BY <1>1, <1>2 DEF IInv, Maps, Table, t
      <2> QED
          BY <2>2, <2>3
  <1> HIDE DEF t
  <1>6. Maps'
      BY <1>1, <1>3, <1>4, <1>5 DEF IInv, Maps
  <1>7. Addressed'
      BY <1>1 DEF IInv, Addressed, Home
  <1>8. Spent'
      <2>1. \A x : Home(x)' = Home(x)
          BY <1>1 DEF Home
      <2>2. \A k \in Members, x \in Ids :
              redeemed'[k][x] # "Unspent" <=> redeemed[k][x] # "Unspent"
          BY <1>2, <1>5
      <2> QED
          BY <1>1, <2>1, <2>2 DEF IInv, Spent
  <1>9. Own'
      <2>1. \A k \in Members : \A x \in DOMAIN sessions'[k] :
              x \in Nat /\ ShardOf(x) = k
          BY <1>3 DEF IInv, Own
      <2>2. ASSUME NEW k \in Members, NEW x \in Slots,
                   connections'[k][x] # None
            PROVE  Owned(k, x)'
          <3>1. Owned(k, x) /\ connections'[k][x] = connections[k][x]
              BY <1>4, <2>2 DEF IInv, Own
          <3> QED
              BY <1>5, <3>1 DEF Owned
      <2> QED
          BY <2>1, <2>2 DEF Own
  <1> QED
      BY <1>6, <1>7, <1>8, <1>9 DEF IInv

\* A session that expires is gone from the member that held it.
LEMMA ExpireKeeps ==
    ASSUME Admissible, IInv, NEW m \in Members,
           NEW session \in DOMAIN sessions[m], ExpireSession(m, session)
    PROVE  IInv'
  <1>1. /\ sessions' = Without(m, session)
        /\ UNCHANGED <<tickets, cookies, connections, uses, redeemed,
                       next_session, yielded>>
      BY DEF ExpireSession
  <1>2. /\ sessions' = [k \in Members |-> sessions'[k]]
        /\ \A k \in Members : DOMAIN sessions'[k] \subseteq DOMAIN sessions[k]
      BY <1>1, WithoutKeeps
  <1>3. Maps'
      BY <1>1, <1>2 DEF IInv, Maps
  <1>4. Addressed' /\ Spent'
      BY <1>1 DEF IInv, Addressed, Spent, Home
  <1>5. Own'
      BY <1>1, <1>2 DEF IInv, Own, Owned
  <1> QED
      BY <1>3, <1>4, <1>5 DEF IInv

-----------------------------------------------------------------------------

\* The invariant says what is to be shown.
LEMMA Suffices ==
    ASSUME Admissible, IInv
    PROVE  OneHome
  <1>1. \A t \in Ids : yielded[t] <= 1
      BY DEF IInv, Maps
  <1>2. \A m, n \in Members :
          m # n => DOMAIN sessions[m] \cap DOMAIN sessions[n] = {}
      BY DEF IInv, Own
  <1>3. ASSUME NEW d \in cookies, NEW m \in Members,
               tickets[d.ticket] \in DOMAIN sessions[m]
        PROVE  Steered(d) = {m}
      <2>1. tickets[d.ticket] \in Nat /\ ShardOf(tickets[d.ticket]) = m
          BY <1>3 DEF IInv, Own
      <2>2. Home(d.ticket) = m
          BY <2>1 DEF Home, Admissible
      <2>3. d.kind = "Response" /\ d.home = m
          BY <2>2 DEF IInv, Addressed
      <2> QED
          BY <2>3 DEF Steered
  <1>4. ASSUME NEW m \in Members, NEW s \in Slots, connections[m][s] # None
        PROVE  LET conn == connections[m][s]
                   packet == [kind |-> "Payload", id |-> conn.id]
               IN  /\ Steered(packet) = {m}
                   /\ ~Misrouted(packet, m)
                   /\ SlotOf(conn.id) = s
      <2> DEFINE id == connections[m][s].id
                 packet == [kind |-> "Payload", id |-> id]
      <2>1. PICK g \in Nat : id = ConnectionId(s, g, m)
          BY <1>4 DEF IInv, Own, Owned
      <2>2. ShardOf(id) = m /\ SlotOf(id) = s
          BY <2>1, ConnectionBits
      <2> HIDE DEF id
      <2>3. packet.kind = "Payload" /\ packet.id = id
          OBVIOUS
      <2>4. id % 2 ^ ShardBits = m
          BY <2>2 DEF ShardOf
      <2> HIDE DEF packet
      <2>5. Steered(packet) = {m}
          BY <2>3, <2>4 DEF Steered
      <2>6. ~Misrouted(packet, m)
          BY <2>2, <2>3 DEF Misrouted, OwnerShard
      <2> QED
          BY <2>2, <2>5, <2>6 DEF packet, id
  <1> QED
      BY <1>1, <1>2, <1>3, <1>4 DEF OneHome

\* Whichever members requests and responses reach, and however often: tickets
\* are single-use in the whole group, sessions are in one place and packets
\* find their connection, for every size of group and width of id.
THEOREM GroupAgrees == ASSUME Admissible PROVE Spec => []OneHome
  <1>1. Init => IInv
      BY Start
  <1>2. IInv /\ [Next]_vars => IInv'
      <2> SUFFICES ASSUME IInv, [Next]_vars PROVE IInv'
          OBVIOUS
      <2>1. CASE UNCHANGED vars
          BY <2>1 DEF vars, IInv, Maps, Addressed, Spent, Own, Owned, Home
      <2>2. CASE Next
          <3>1. PICK m \in Members :
                  \/ \E t \in Ids : HandleRequest(t, m)
                  \/ \E d \in cookies, s \in Slots : HandleResponse(d, m, s)
                  \/ \E t \in Resumes, s \in Slots : IssueResumeTicket(t, m, s)
                  \/ \E s \in Slots, requested \in BOOLEAN :
                        Retire(m, s, requested)
                  \/ \E session \in DOMAIN sessions[m] :
                        ExpireSession(m, session)
              BY <2>2 DEF Next
          <3> QED
              BY <3>1, RequestKeeps, ResponseKeeps, IssueKeeps, RetireKeeps,
                 ExpireKeeps
      <2> QED
          BY <2>1, <2>2
  <1>3. IInv => OneHome
      BY Suffices
  <1> QED
      BY <1>1, <1>2, <1>3, PTL DEF Spec

=============================================================================
