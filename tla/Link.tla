-------------------------------- MODULE Link --------------------------------
(***************************************************************************)
(* One direction of an open connection: the sending half of Connection at  *)
(* one peer (its channels, its delivery ledger, its probes), the network,  *)
(* and the receiving half at the other (replay window, acknowledgement     *)
(* window, channels).  connection.rs over channel.rs, ack.rs, packet.rs    *)
(* and seq.rs.                                                             *)
(*                                                                         *)
(* The network keeps every packet sent and every acknowledgement state a   *)
(* header may report: either may arrive at any later time, in any order,   *)
(* any number of times, or never.  Time is abstracted to its effects: a    *)
(* timeout may find any prefix of the flight past the loss delay, and the  *)
(* probe and keepalive deadlines may have come or not (Delivery has the    *)
(* clock).  Sizes and the send budget are abstracted to how many messages  *)
(* a packet takes.                                                         *)
(***************************************************************************)
EXTENDS Ledger, Channels

CONSTANTS
    Window,         \* sequences a ReceiveWindow remembers
    ProbePackets,   \* PROBE_PACKETS
    ProbeMessages,  \* PROBE_MESSAGES
    MaxSeq,         \* bound: packets sent
    MaxMessages     \* bound: messages sent

ASSUME LinkAssumption ==
    /\ Window \in Nat \ {0}
    /\ ProbePackets \in Nat \ {0}
    /\ ProbeMessages \in Nat
    /\ MaxSeq \in Nat
    /\ MaxMessages \in Nat

VARIABLES
    next_ids,           \* Channels.next_ids
    pending,            \* Channels.pending
    flying,             \* the messages of pending with in_flight set
    ring,               \* Delivery.sent
    record,             \* the PacketRecord of each slot
    largest_sent,       \* PacketCrypto.next_sequence - 1
    largest_acked,      \* 0 is None
    oldest_unresolved,
    pending_probes,
    packets,            \* network: sequence -> contents
    headers,            \* network: acknowledgement states sent
    replay,             \* PacketCrypto.replay
    acked,              \* PacketCrypto.acked
    inbox,              \* the receiving peer's Channels
    accepted            \* history: messages send took, in order

sender == <<next_ids, pending, flying, ring, record, largest_sent,
            largest_acked, oldest_unresolved, pending_probes, accepted>>
receiver == <<replay, acked, inbox>>
network == <<packets, headers>>
vars == <<sender, network, receiver>>

Init ==
    /\ next_ids = [ch \in Chan |-> 0]
    /\ pending = {}
    /\ flying = {}
    /\ ring = EmptyRing
    /\ record = [i \in Ring |-> {}]
    /\ largest_sent = 0
    /\ largest_acked = 0
    /\ oldest_unresolved = 1
    /\ pending_probes = 0
    /\ packets = << >>
    /\ headers = {}
    /\ replay = [newest |-> 0, mask |-> {}]
    /\ acked = [newest |-> 0, mask |-> {}]
    /\ inbox = NewInbox
    /\ accepted = {}

-----------------------------------------------------------------------------
(* The sending peer.                                                       *)

\* Channels::send, when it accepts; a refusal changes nothing.
Send(ch) ==
    LET m == [ch |-> ch, id |-> next_ids[ch], place |-> Cardinality(accepted)]
    IN  /\ Cardinality(accepted) < MaxMessages
        /\ HasRoom(pending, ch)
        /\ pending' = pending \cup {m}
        /\ next_ids' = [next_ids EXCEPT ![ch] = @ + 1]
        /\ accepted' = accepted \cup {m}
        /\ UNCHANGED <<flying, ring, record, largest_sent, largest_acked,
                       oldest_unresolved, pending_probes, network, receiver>>

\* What a probe puts back in the queue before the packet is filled.
Requeued == IF pending_probes > 0 THEN RequeueOldest(flying, ProbeMessages)
            ELSE flying

\* write_control and write_frames put something in the packet: a probe's
\* ping, or the messages written.
Eliciting(written) == pending_probes > 0 \/ written # {}

\* encrypt spends the next sequence on what the packet holds.
Encrypt(written, eliciting) ==
    Append(packets, [msgs |-> written, eliciting |-> eliciting])

\* poll_transmit for a packet that carries written, a ping, or both.
Transmit(written) ==
    LET q == largest_sent + 1
        lost == {record[SlotOf(p)] : p \in Evicted(ring, q)}
    IN  /\ q <= MaxSeq
        /\ written \in Writable(pending \ Requeued)
        /\ Eliciting(written)
        /\ pending_probes' = IF pending_probes > 0 THEN pending_probes - 1
                             ELSE 0
        /\ pending' = OnPacketSent(pending, written)
        /\ ring' = Insert(ring, q)
        /\ record' = [record EXCEPT ![SlotOf(q)] = Reliable(written)]
        /\ flying' = OnLost(Requeued \cup Reliable(written), UNION lost)
        /\ largest_sent' = q
        /\ oldest_unresolved' = AdvanceOldest(ring', oldest_unresolved, q)
        /\ packets' = Encrypt(written, TRUE)
        /\ UNCHANGED <<next_ids, largest_acked, headers, receiver, accepted>>

\* poll_transmit when the packet cannot be sealed: no sequence is spent and
\* what was staged goes back, but a probe's ping and requeue have happened.
TransmitAborted(written) ==
    /\ largest_sent < MaxSeq
    /\ written \in Writable(pending \ Requeued)
    /\ Eliciting(written)
    /\ pending_probes' = IF pending_probes > 0 THEN pending_probes - 1 ELSE 0
    /\ flying' = OnPacketAborted(Requeued \cup written, written)
    /\ UNCHANGED <<next_ids, pending, ring, record, largest_sent,
                   largest_acked, oldest_unresolved, accepted, network,
                   receiver>>

\* poll_transmit for a packet that only acknowledges the other direction.
TransmitAckOnly ==
    LET q == largest_sent + 1
    IN  /\ q <= MaxSeq
        /\ pending_probes = 0
        /\ largest_sent' = q
        /\ oldest_unresolved' = AdvanceOldest(ring, oldest_unresolved, q)
        /\ packets' = Encrypt({}, FALSE)
        /\ UNCHANGED <<next_ids, pending, flying, ring, record, largest_acked,
                       pending_probes, headers, receiver, accepted>>

Records(seqs) == UNION {record[SlotOf(q)] : q \in seqs}

\* resolve_ack: the wire value nearest the newest sequence sent.
ResolveAck(wire) == Reconstruct(largest_sent, wire)

\* Where the packets past the loss delay may end.
Cuts == {0} \cup Flight(ring)

\* handle_ack and on_ack for one header: resolve, then judge what precedes
\* the largest acknowledged packet, any prefix of which may be late.
ReceiveAck(h, cut) ==
    LET ack == ResolveAck(ToWire(h.ack))
        covered == Covered(ack, h.bits)
        fresh == NewlyAcked(ring, covered)
        confirmed == Confirm(ring, covered)
        largest == IF ack > largest_acked THEN ack ELSE largest_acked
        lost == Condemned(confirmed, oldest_unresolved, largest, 1..cut)
    IN  /\ 0 < ack /\ ack <= largest_sent
        /\ largest_acked' = largest
        /\ ring' = MarkLost(confirmed, lost)
        /\ oldest_unresolved' =
             AdvanceOldest(ring', oldest_unresolved, largest_sent)
        /\ pending' = OnAcked(pending, Records(fresh))
        /\ flying' = OnLost(flying \ Records(fresh), Records(lost))
        /\ UNCHANGED <<next_ids, record, largest_sent, pending_probes,
                       accepted, network, receiver>>

\* Probes owed do not add up: the larger request stands.
Owing(owed) == IF owed > pending_probes THEN owed ELSE pending_probes

\* handle_timeout: the loss rules, then a probe if the tail is overdue, then
\* a keepalive if nothing was sent for long.
Timeout(cut, owed) ==
    LET lost == Condemned(ring, oldest_unresolved, largest_acked, 1..cut)
    IN  /\ ring' = MarkLost(ring, lost)
        /\ oldest_unresolved' =
             IF largest_acked = 0 THEN oldest_unresolved
             ELSE AdvanceOldest(ring', oldest_unresolved, largest_sent)
        /\ flying' = OnLost(flying, Records(lost))
        /\ owed \in {0, 1} \cup (IF IsInFlight(ring', oldest_unresolved')
                                 THEN {ProbePackets} ELSE {})
        /\ pending_probes' = Owing(owed)
        /\ UNCHANGED <<next_ids, pending, record, largest_sent,
                       largest_acked, accepted, network, receiver>>

-----------------------------------------------------------------------------
(* The receiving peer.                                                     *)

\* ack_state: what an outgoing header reports.
AckState(w) ==
    [ack |-> w.newest,
     bits |-> {o \in 0..(AckBits - 1) : w.newest - 1 - o \in w.mask}]

\* decrypt lets packet q through.  A sequence resolved to another value gives
\* the wrong nonce and fails to authenticate; one seen before, or too old to
\* tell, is refused.  Neither changes anything.
Decrypts(q) ==
    LET s == Reconstruct(replay.newest, ToWire(q))
    IN  s = q /\ Acceptable(replay, s, Window)

\* record_eliciting.
RecordEliciting(q) == Record(acked, q, Window)

\* handle_datagram.
Receive(q) ==
    LET box == ReadPacket(inbox, packets[q].msgs)
        worth == packets[q].eliciting /\ ~box.bad
    IN  /\ ~inbox.bad
        /\ Decrypts(q)
        /\ replay' = Record(replay, q, Window)
        /\ inbox' = box
        /\ acked' = IF worth THEN RecordEliciting(q) ELSE acked
        /\ headers' = IF worth THEN headers \cup {AckState(acked')}
                      ELSE headers
        /\ UNCHANGED <<sender, packets>>

-----------------------------------------------------------------------------

Next ==
    \/ \E ch \in Chan : Send(ch)
    \/ \E written \in SUBSET pending : Transmit(written)
    \/ \E written \in SUBSET pending : TransmitAborted(written)
    \/ TransmitAckOnly
    \/ \E h \in headers, cut \in Cuts : ReceiveAck(h, cut)
    \/ \E cut \in Cuts, owed \in {0, 1, ProbePackets} : Timeout(cut, owed)
    \/ \E q \in 1..largest_sent : Receive(q)

Spec == Init /\ [][Next]_vars

\* The driver runs handle_timeout when next_timeout comes and polls for a
\* packet after every step, and the budget refills with time; the network
\* owes nothing.
FairSpec ==
    /\ Spec
    /\ WF_vars(\E written \in SUBSET pending : Transmit(written))
    /\ WF_vars(\E cut \in Cuts : Timeout(cut, ProbePackets))

-----------------------------------------------------------------------------
(* Properties                                                              *)

\* A message marked in flight is in the record of a packet whose outcome is
\* still to come.  Were it not, neither an acknowledgement nor a loss would
\* ever release or requeue it, and it would hold its place for good.
NoStranded ==
    \A m \in flying :
        \E q \in Flight(ring) : m \in record[SlotOf(q)]

\* A packet the ledger calls acknowledged was received by the peer: truncated
\* sequences, stale headers and reused slots never confirm another packet.
AckIsTrue ==
    \A i \in Ring : ring[i].state = "Acked" =>
        /\ ring[i].seq <= replay.newest
        /\ ring[i].seq > replay.newest - Window => ring[i].seq \in replay.mask

\* Of a channel's messages, those whose payload reached the application.
Delivered(ch) ==
    {inbox.delivered[ch][i] : i \in 1..Len(inbox.delivered[ch])}

\* How far a channel has got, told from what it handed over.
Reached(ch) ==
    IF Kind[ch] = "ReliableOrdered" THEN Len(inbox.delivered[ch])
    ELSE Max(Delivered(ch) \cup {0})

\* A message id is rebuilt from its low bits against a reference that moves
\* with deliveries (read_message).  Of every packet that may still arrive, in
\* whatever order, each message is read as the one that was sent, unless it is
\* half the wire's values or more ahead of where its channel has got to.  A
\* stale one is never that far behind: the replay window refuses its packet
\* first.  Misread, it would be delivered in another's place or end the
\* connection.
IdsResolve ==
    \A q \in 1..largest_sent : Decrypts(q) =>
        \A m \in packets[q].msgs :
            /\ Kind[m.ch] # "Unreliable"
            /\ m.id - Reached(m.ch) < IdHalf
            => ReadId(inbox, m) = m.id

HeldFor(ch) == {h.payload : h \in {e \in inbox.held : e.ch = ch}}

\* "Always arrives": a reliable message the sender no longer has is at the
\* receiver, delivered or held until the gap before it fills.
NothingLost ==
    \A m \in accepted \ pending :
        IsReliable(m.ch) => m.id \in Delivered(m.ch) \cup HeldFor(m.ch)

\* The only ways a reliable message can vanish: an ordered one through a
\* drop the receiver counts, an unordered one by arriving SeenWindow or more
\* behind the newest.
LossAccounted ==
    \A m \in accepted \ pending :
        IsReliable(m.ch) =>
            \/ m.id \in Delivered(m.ch) \cup HeldFor(m.ch)
            \/ Kind[m.ch] = "ReliableOrdered" /\ inbox.dropped > 0
            \/ /\ Kind[m.ch] = "ReliableUnordered"
               /\ m.id <= inbox.rx[m.ch].seen.newest - SeenWindow

\* The sender never comes to rest with something pending: short of running
\* out of sequence numbers (the bound of the model) it goes on sending until
\* every message has been acknowledged, whatever the network does.
Drains == <>[](pending = {} \/ largest_sent = MaxSeq)

\* What the channels promise the application.
Promise == INSTANCE Service WITH submitted <- next_ids,
                                 received <- inbox.delivered

\* The link implements the promise: order, at most once, nothing invented.
KeepsPromise == Promise!Spec

=============================================================================
