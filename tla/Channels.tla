------------------------------ MODULE Channels ------------------------------
(***************************************************************************)
(* The channels of one connection: Channels in channel.rs, as operators on *)
(* the values of its two halves.                                           *)
(*                                                                         *)
(* A message is a record: its channel, its id within the channel, and its  *)
(* place in the order of all sends.  Its payload is its identity.          *)
(*                                                                         *)
(* Sending half: pending, the set of messages queued or unacknowledged     *)
(* (oldest first is by place), and flying, those marked in_flight.         *)
(* Receiving half: a record                                                *)
(*   rx[ch]         ReceiverState (-1 stands for has_newest or             *)
(*                  seen_started being false)                              *)
(*   held           messages ahead of their channel's expected id          *)
(*   dropped        dropped_inbound                                        *)
(*   delivered[ch]  what on_message was called with                        *)
(*   bad            a frame could not be read                              *)
(* A message's storage in an arena is counted in blocks.                   *)
(***************************************************************************)
EXTENDS SeqNum, Sequences, FiniteSets, FiniteSetsExt

CONSTANTS
    Chan,          \* channel indices, 0..k
    Kind,          \* ChannelKind of each
    Blocks,        \* arena blocks a message of each channel takes
    MaxPending,    \* MAX_PENDING
    MaxHeld,       \* MAX_HELD
    ArenaBlocks,   \* ARENA_BLOCKS
    MaxPerPacket,  \* MAX_MESSAGES_PER_PACKET
    SeenWindow,    \* ids the duplicate set of an unordered channel covers
    IdHalf         \* half the values a message id takes on the wire (2^15)

ASSUME ChannelsAssumption ==
    /\ Chan \subseteq Nat
    /\ IsFiniteSet(Chan)
    /\ Kind \in [Chan -> {"Unreliable", "UnreliableSequenced",
                          "ReliableUnordered", "ReliableOrdered"}]
    /\ Blocks \in [Chan -> Nat]
    /\ MaxPending \in Nat
    /\ MaxHeld \in Nat
    /\ ArenaBlocks \in Nat
    /\ MaxPerPacket \in Nat
    /\ SeenWindow \in Nat \ {0}
    /\ IdHalf \in Nat \ {0}

\* Message ids are numbers of their own: few wrap while few packets are sent.
Ids == INSTANCE SeqNum WITH Half <- IdHalf

IsReliable(ch) == Kind[ch] \in {"ReliableUnordered", "ReliableOrdered"}

BlocksOf(msgs) == MapThenSumSet(LAMBDA m : Blocks[m.ch], msgs)

-----------------------------------------------------------------------------
(* The sending half.                                                       *)

\* send finds room in the queue and in the arena.
HasRoom(pending, ch) ==
    /\ Cardinality(pending) < MaxPending
    /\ BlocksOf(pending) + Blocks[ch] <= ArenaBlocks

\* What write_frames may put in a packet: of each channel the oldest unsent
\* messages, as many as the packet, the allowance and the cap leave room for.
Writable(unsent) ==
    {w \in SUBSET unsent :
        /\ Cardinality(w) <= MaxPerPacket
        /\ \A m \in w, k \in unsent :
              k.ch = m.ch /\ k.place < m.place => k \in w}

\* Mutant: ordered messages are treated as unreliable.
ReliableUnorderedOnly(written) ==
    {m \in written : Kind[m.ch] = "ReliableUnordered"}

\* The reliable messages of a packet: the record its ledger entry keeps.
Reliable(written) == {m \in written : IsReliable(m.ch)}

\* on_packet_sent: the unreliable ones are released as the packet goes.
OnPacketSent(pending, written) == pending \ (written \ Reliable(written))

\* on_packet_aborted: what was staged is unsent again.
OnPacketAborted(flying, written) == flying \ written

\* on_acked, for the records of all packets just acknowledged.
OnAcked(pending, records) == pending \ records

\* Mutant: the messages of a lost packet stay marked in flight.
OnLostIgnored(flying, records) == flying

\* on_lost, for the records of all packets just lost.
OnLost(flying, records) == flying \ records

\* requeue_oldest.
RequeueOldest(flying, max) ==
    {m \in flying : Cardinality({k \in flying : k.place < m.place}) >= max}

-----------------------------------------------------------------------------
(* The receiving half.                                                     *)

NewInbox ==
    [rx |-> [ch \in Chan |-> [newest |-> -1,
                              seen |-> [newest |-> -1, mask |-> {}],
                              expected |-> 0]],
     held |-> {},
     dropped |-> 0,
     delivered |-> [ch \in Chan |-> << >>],
     bad |-> FALSE]

\* Mutant: an ordered channel resolves against the newest id of a sequenced.
ReferenceNewest(box, ch) ==
    LET state == box.rx[ch]
        orZero(n) == IF n = -1 THEN 0 ELSE n
    IN  CASE Kind[ch] = "Unreliable" -> 0
          [] Kind[ch] = "UnreliableSequenced" -> orZero(state.newest)
          [] Kind[ch] = "ReliableUnordered" -> orZero(state.seen.newest)
          [] Kind[ch] = "ReliableOrdered" -> orZero(state.newest)

\* What an incoming wire id is resolved against.
Reference(box, ch) ==
    LET state == box.rx[ch]
        orZero(n) == IF n = -1 THEN 0 ELSE n
    IN  CASE Kind[ch] = "Unreliable" -> 0
          [] Kind[ch] = "UnreliableSequenced" -> orZero(state.newest)
          [] Kind[ch] = "ReliableUnordered" -> orZero(state.seen.newest)
          [] Kind[ch] = "ReliableOrdered" -> state.expected

\* on_message.
Deliver(box, ch, payloads) ==
    [box EXCEPT !.delivered[ch] = @ \o payloads]

HeldIds(held, ch) == {h.id : h \in {e \in held : e.ch = ch}}

\* The first id from id on that channel ch does not hold.
NextGap(held, ch, id) ==
    Min({k \in id..(id + Cardinality(held)) : k \notin HeldIds(held, ch)})

HeldAt(held, ch, id) == CHOOSE h \in held : h.ch = ch /\ h.id = id

\* Mutant: expected is not moved past the messages flushed.
DeliverAndFlushShort(box, ch, payload) ==
    LET first == box.rx[ch].expected + 1
        gap == NextGap(box.held, ch, first)
        flushed == {h \in box.held : h.ch = ch /\ h.id \in first..(gap - 1)}
        run == [i \in 1..(gap - first) |->
                   HeldAt(box.held, ch, first + i - 1).payload]
    IN  Deliver([box EXCEPT !.rx[ch].expected = first,
                            !.held = @ \ flushed],
                ch, <<payload>> \o run)

\* Deliver expected, then everything held behind it up to the next gap.
DeliverAndFlush(box, ch, payload) ==
    LET first == box.rx[ch].expected + 1
        gap == NextGap(box.held, ch, first)
        flushed == {h \in box.held : h.ch = ch /\ h.id \in first..(gap - 1)}
        run == [i \in 1..(gap - first) |->
                   HeldAt(box.held, ch, first + i - 1).payload]
    IN  Deliver([box EXCEPT !.rx[ch].expected = gap,
                            !.held = @ \ flushed],
                ch, <<payload>> \o run)

\* Mutant: a message there is no room for is dropped uncounted.
HoldSilent(box, ch, id, payload) ==
    IF /\ Cardinality(box.held) < MaxHeld
       /\ BlocksOf(box.held) + Blocks[ch] <= ArenaBlocks
    THEN [box EXCEPT !.held = @ \cup {[ch |-> ch, id |-> id,
                                       payload |-> payload]}]
    ELSE box

\* Hold a message that is ahead of the gap, if there is room to.
Hold(box, ch, id, payload) ==
    IF /\ Cardinality(box.held) < MaxHeld
       /\ BlocksOf(box.held) + Blocks[ch] <= ArenaBlocks
    THEN [box EXCEPT !.held = @ \cup {[ch |-> ch, id |-> id,
                                       payload |-> payload]}]
    ELSE [box EXCEPT !.dropped = @ + 1]

\* accept_unordered: an id older than the window counts as seen.
AcceptUnordered(state, id) == Acceptable(state.seen, id, SeenWindow)

\* classify, and what read_message does with its verdict.
Accept(box, ch, id, payload) ==
    LET state == box.rx[ch]
    IN  CASE Kind[ch] = "Unreliable" -> Deliver(box, ch, <<payload>>)
          [] Kind[ch] = "UnreliableSequenced" ->
               IF id <= state.newest THEN box
               ELSE Deliver([box EXCEPT !.rx[ch].newest = id],
                            ch, <<payload>>)
          [] Kind[ch] = "ReliableUnordered" ->
               IF ~AcceptUnordered(state, id) THEN box
               ELSE Deliver([box EXCEPT !.rx[ch].seen =
                                Record(@, id, SeenWindow)],
                            ch, <<payload>>)
          [] Kind[ch] = "ReliableOrdered" ->
               IF id < state.expected THEN box
               ELSE IF id = state.expected
                    THEN DeliverAndFlush(box, ch, payload)
               ELSE IF id \in HeldIds(box.held, ch) THEN box
               ELSE Hold(box, ch, id, payload)

\* The id a message is read with: it travels truncated, and only on channels
\* that need it.
ReadId(box, m) ==
    IF Kind[m.ch] = "Unreliable" THEN 0
    ELSE Ids!Reconstruct(Reference(box, m.ch), Ids!ToWire(m.id))

\* read_message.
ReadMessage(box, m) ==
    IF box.bad THEN box
    ELSE IF ReadId(box, m) < 0 THEN [box EXCEPT !.bad = TRUE]
    ELSE Accept(box, m.ch, ReadId(box, m), m.id)

\* read_frames: the messages of a packet in the order write_frames wrote
\* them, channel by channel and oldest first.
ReadPacket(box, msgs) ==
    LET after(m, k) == m.ch > k.ch \/ (m.ch = k.ch /\ m.place >= k.place)
        last(s) == CHOOSE m \in s : \A k \in s : after(m, k)
    IN  MapThenFoldSet(LAMBDA m, b : ReadMessage(b, m), box,
                       LAMBDA m : m, last, msgs)

=============================================================================
