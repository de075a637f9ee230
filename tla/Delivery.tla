------------------------------ MODULE Delivery ------------------------------
(***************************************************************************)
(* Sender-side delivery tracking for one connection: Delivery in ack.rs.   *)
(*                                                                         *)
(* One action per entry point (on_sent, on_ack, on_timeout,                *)
(* on_path_change) and one for the clock.  The round trip estimate is      *)
(* abstracted to what the ledger derives from it, the loss delay and the   *)
(* base of the probe timeout: every sample, and every reset, may leave any *)
(* pair of Timings behind.  An acknowledgement is stamped with the arrival *)
(* time of its datagram, which may trail the clock by up to Skew: the      *)
(* kernel stamps a datagram before a step reads it.                        *)
(*                                                                         *)
(* notices records, per packet, what notify was called with.               *)
(***************************************************************************)
EXTENDS Ledger, Sequences

CONSTANTS
    MaxSeq,      \* bound: packets sent
    MaxTime,     \* bound: the clock
    Skew,        \* how far an arrival stamp may trail the clock
    MaxBackoff,  \* ProbeBackoff::MAX
    Delays       \* what the loss delay and the probe base may be

ASSUME DeliveryAssumption ==
    /\ MaxSeq \in Nat
    /\ MaxTime \in Nat
    /\ Skew \in Nat
    /\ MaxBackoff \in Nat
    /\ Delays \subseteq Nat \ {0}
    /\ Delays # {}

VARIABLES
    now,                \* the clock
    ring,               \* Delivery.sent, the state of each slot
    sent_at,            \* Delivery.sent, the send time of each slot
    largest_sent,       \* 0 is None
    largest_acked,      \* 0 is None
    oldest_unresolved,
    last_eliciting,
    in_flight,
    probes,             \* ProbeBackoff
    timing,             \* what the Rtt estimate amounts to
    asked,              \* the step returned a Probe
    tracked,            \* history: sequences sent as Outgoing::Eliciting
    notices             \* history: the Resolved values notify received

vars == <<now, ring, sent_at, largest_sent, largest_acked, oldest_unresolved,
          last_eliciting, in_flight, probes, timing, asked, tracked, notices>>

Seqs == 1..MaxSeq

Timings == [loss : Delays, probe : Delays]

\* The type of the state.
TypeOK ==
    /\ now \in 0..MaxTime
    /\ ring \in [Ring -> Slot]
    /\ sent_at \in [Ring -> 0..MaxTime]
    /\ largest_sent \in 0..MaxSeq
    /\ largest_acked \in 0..MaxSeq
    /\ oldest_unresolved \in 1..(MaxSeq + 1)
    /\ last_eliciting \in 0..MaxTime
    /\ in_flight \in Nat
    /\ probes \in 0..MaxBackoff
    /\ timing \in Timings
    /\ asked \in BOOLEAN
    /\ tracked \in SUBSET Seqs
    /\ notices \in [Seqs -> Seq({"Acked", "Lost", "Spurious"})]

-----------------------------------------------------------------------------
(* Deadlines.  now.since(sent_at) saturates at zero and every delay is     *)
(* positive, so a packet stamped after at is never late.                   *)

Late(at, delay) ==
    {q \in Flight(ring) : at - sent_at[SlotOf(q)] >= delay}

OldestInFlight == IsInFlight(ring, oldest_unresolved)

\* probe_deadline has come, for a ledger with these slots and this oldest.
ProbeDue(slots, oldest) ==
    /\ IsInFlight(slots, oldest)
    /\ last_eliciting + timing.probe * 2^probes <= now

\* ProbeBackoff::advance.
Backoff(count) == IF count < MaxBackoff THEN count + 1 ELSE MaxBackoff

\* notify, for every packet of a set.
Notify(log, packets, what) ==
    [q \in Seqs |-> IF q \in packets THEN Append(log[q], what) ELSE log[q]]

-----------------------------------------------------------------------------

Init ==
    /\ now = 0
    /\ ring = EmptyRing
    /\ sent_at = [i \in Ring |-> 0]
    /\ largest_sent = 0
    /\ largest_acked = 0
    /\ oldest_unresolved = 1
    /\ last_eliciting = 0
    /\ in_flight = 0
    /\ probes = 0
    /\ timing \in Timings
    /\ asked = FALSE
    /\ tracked = {}
    /\ notices = [q \in Seqs |-> << >>]

Tick ==
    /\ now < MaxTime
    /\ now' = now + 1
    /\ asked' = FALSE
    /\ UNCHANGED <<ring, sent_at, largest_sent, largest_acked,
                   oldest_unresolved, last_eliciting, in_flight, probes,
                   timing, tracked, notices>>

\* on_sent with Outgoing::AckOnly: the sequence is spent, nothing is tracked.
OnSentAckOnly ==
    LET q == largest_sent + 1
    IN  /\ q <= MaxSeq
        /\ largest_sent' = q
        /\ oldest_unresolved' = AdvanceOldest(ring, oldest_unresolved, q)
        /\ asked' = FALSE
        /\ UNCHANGED <<now, ring, sent_at, largest_acked, last_eliciting,
                       in_flight, probes, timing, tracked, notices>>

\* on_sent with Outgoing::Eliciting.
OnSentEliciting ==
    LET q == largest_sent + 1
        evicted == Evicted(ring, q)
    IN  /\ q <= MaxSeq
        /\ largest_sent' = q
        /\ last_eliciting' = now
        /\ ring' = Insert(ring, q)
        /\ sent_at' = [sent_at EXCEPT ![SlotOf(q)] = now]
        /\ in_flight' = in_flight + 1 - Cardinality(evicted)
        /\ notices' = Notify(notices, evicted, "Lost")
        /\ oldest_unresolved' = AdvanceOldest(ring', oldest_unresolved, q)
        /\ tracked' = tracked \cup {q}
        /\ asked' = FALSE
        /\ UNCHANGED <<now, largest_acked, probes, timing>>

\* on_ack for a header that arrived at at: resolve what it covers, take a
\* round trip sample if its newest is new and was in flight, then judge the
\* packets before the largest acknowledged one.
OnAck(ack, bits, at) ==
    LET acked == Covered(ack, bits)
        fresh == NewlyAcked(ring, acked)
        confirmed == Confirm(ring, acked)
        largest == IF ack > largest_acked THEN ack ELSE largest_acked
        lost == Condemned(confirmed, oldest_unresolved, largest,
                          Late(at, timing'.loss))
    IN  /\ \/ timing' = timing
           \/ ack > largest_acked /\ ack \in fresh /\ timing' \in Timings
        /\ largest_acked' = largest
        /\ ring' = MarkLost(confirmed, lost)
        /\ in_flight' = in_flight - Cardinality(fresh) - Cardinality(lost)
        /\ notices' =
             Notify(Notify(Notify(notices, fresh, "Acked"),
                           Spurious(ring, acked), "Spurious"),
                    lost, "Lost")
        /\ probes' = IF fresh # {} THEN 0 ELSE probes
        /\ oldest_unresolved' =
             AdvanceOldest(ring', oldest_unresolved, largest_sent)
        /\ asked' = FALSE
        /\ UNCHANGED <<now, sent_at, largest_sent, last_eliciting, tracked>>

\* on_timeout: detect_lost, then a probe if the tail's deadline has come.
OnTimeout ==
    LET lost == Condemned(ring, oldest_unresolved, largest_acked,
                          Late(now, timing.loss))
        probe == ProbeDue(ring', oldest_unresolved')
    IN  /\ ring' = MarkLost(ring, lost)
        /\ in_flight' = in_flight - Cardinality(lost)
        /\ notices' = Notify(notices, lost, "Lost")
        /\ oldest_unresolved' =
             IF largest_acked = 0 THEN oldest_unresolved
             ELSE AdvanceOldest(ring', oldest_unresolved, largest_sent)
        /\ UNCHANGED <<now, sent_at, largest_sent, largest_acked,
                       last_eliciting, timing, tracked>>
        /\ asked' = probe
        /\ probes' = IF probe THEN Backoff(probes) ELSE probes

\* on_path_change: the peer moved, and the timing is that of no path yet.
OnPathChange ==
    /\ timing' \in Timings
    /\ probes' = 0
    /\ asked' = FALSE
    /\ UNCHANGED <<now, ring, sent_at, largest_sent, largest_acked,
                   oldest_unresolved, last_eliciting, in_flight, tracked,
                   notices>>

\* A peer acknowledges only ack-eliciting packets, in any order and as often
\* as the network repeats or delays its headers.
ReceiveAck ==
    \E ack \in tracked :
    \E bits \in SUBSET {o \in 0..(AckBits - 1) : ack - 1 - o \in tracked} :
    \E at \in {t \in 0..now : t >= now - Skew} :
        OnAck(ack, bits, at)

Next ==
    \/ Tick
    \/ OnSentAckOnly
    \/ OnSentEliciting
    \/ ReceiveAck
    \/ OnTimeout
    \/ OnPathChange

Spec == Init /\ [][Next]_vars

-----------------------------------------------------------------------------
(* Properties                                                              *)

\* oldest_unresolved never runs past a packet in flight, and rests on one
\* whenever there is one.  Both deadlines read only the packet it names, so
\* otherwise a flight could be left with no timer to end it.
TailWatched ==
    /\ \A q \in Flight(ring) : oldest_unresolved <= q
    /\ Flight(ring) # {} => OldestInFlight

\* The in_flight counter is the number of packets whose outcome is unknown,
\* through every eviction, acknowledgement and declared loss.
FlightCounted == in_flight = Cardinality(Flight(ring))

\* Every tracked packet is reported Acked or Lost exactly once, and stays in
\* flight until it is; Spurious is reported at most once and only after Lost.
\* The channels release or requeue a packet's messages on these reports.
ResolvedOnce ==
    \A q \in Seqs :
        /\ notices[q] \in {<< >>, <<"Acked">>, <<"Lost">>,
                            <<"Lost", "Spurious">>}
        /\ notices[q] = << >> <=> (q \in tracked => q \in Flight(ring))

\* A packet ReorderThreshold or more below the largest acknowledged one is
\* never still in flight: the early exit of detect_lost skips none.
CountRule ==
    \A q \in Flight(ring) : q > largest_acked - ReorderThreshold

\* The strengthening that makes the properties above inductive: every slot
\* holds a packet that belongs there and agrees with what was reported of
\* it, and no figure runs ahead of what was sent.
Consistent ==
    /\ WellPlaced(ring, largest_sent)
    /\ tracked \subseteq 1..largest_sent
    /\ largest_acked <= largest_sent
    /\ oldest_unresolved <= largest_sent + 1
    /\ \A i \in Ring :
          /\ ring[i].state = "InFlight" => ring[i].seq \in tracked
          /\ ring[i].state = "Lost" => notices[ring[i].seq] = <<"Lost">>
          /\ ring[i].state = "Acked" =>
                notices[ring[i].seq] \in {<<"Acked">>, <<"Lost", "Spurious">>}

\* detect_lost stops at the first packet that is not overdue.  That loses
\* nothing: after a timeout no packet below the largest acknowledged one is
\* both in flight and past the loss delay.
StopsAtTheRightPacket ==
    [][OnTimeout =>
          \A q \in Flight(ring') :
              q < largest_acked =>
                  now - sent_at[SlotOf(q)] < timing.loss]_vars

=============================================================================
