----------------------------- MODULE Connection -----------------------------
(***************************************************************************)
(* Both ends of a connection and the clock: lifecycle, acknowledgement     *)
(* schedule, probes, keepalives and the idle timeout of connection.rs,     *)
(* over a network with a fixed delay that loses a bounded number of        *)
(* datagrams, or goes dead.                                                *)
(*                                                                         *)
(* The ledger is reduced to the packets in flight (Delivery has it in      *)
(* full), the channels to one message (Link has them), the control frames  *)
(* to whether one is queued (Path has the address frames), the budget to   *)
(* when it covers the message (Budget has it).  Sequences resolve exactly  *)
(* and the network does not duplicate: a second copy falls to the replay   *)
(* window before it changes anything.                                      *)
(***************************************************************************)
EXTENDS Integers, Sequences, FiniteSets, FiniteSetsExt

CONSTANTS
    Peers, First,      \* the two ends
    AckDelay,          \* acks.delay, and the peer's
    Keepalive, Idle,   \* liveness
    LossDelay,         \* loss_delay()
    ReorderThreshold,  \* REORDER_THRESHOLD
    ProbeBase,         \* probe timeout before backoff
    MaxBackoff,        \* doublings of it
    ProbePackets,      \* PROBE_PACKETS
    CloseSends,        \* CLOSE_SENDS
    Wait,              \* how long the budget takes to cover a message
    Delay,             \* how long a datagram is on its way
    MaxLoss,           \* bound: datagrams lost
    MaxCalls,          \* bound: calls of the application
    MaxTime            \* bound: the clock

VARIABLES
    now,      \* the clock both drivers read
    conn,     \* the Connection at each end
    network,  \* datagrams on their way
    losses,   \* how many were lost
    severed,  \* whether the path has gone dead
    calls,    \* how many calls the applications made
    steps     \* history: each driver's steps at this instant

vars == <<now, conn, network, losses, severed, calls, steps>>

Other(p) == CHOOSE q \in Peers : q # p

\* Connection::new.  Times are those of the clock; message and
\* number say what the channels hold, unsent or in flight; ready is when the
\* budget covers it.
New ==
    [life |-> "Open", remaining |-> 0,
     ends |-> << >>,                      \* Closed events pushed
     owed |-> "Nothing", since |-> 0,     \* acks.owed, and Held's time
     alone_after |-> 0,
     control |-> FALSE,
     message |-> "None", number |-> 0, ready |-> 0,
     pending_probes |-> 0,
     last_received |-> 0,
     last_eliciting |-> 0,
     flight |-> {}, largest_acked |-> 0, backoff |-> 0,
     sent |-> 0,                          \* newest sequence sent
     newest |-> 0,                        \* newest sequence received
     acked |-> {},                        \* sequences to acknowledge
     untold |-> {}]                       \* history: those in no header yet

Init ==
    /\ now = 0
    /\ conn = [p \in Peers |-> New]
    /\ network = {}
    /\ losses = 0
    /\ severed = FALSE
    /\ calls = 0
    /\ steps = [p \in Peers |-> 0]

Larger(a, b) == IF a > b THEN a ELSE b

-----------------------------------------------------------------------------
(* Deadlines, each a set of at most one time.                              *)

\* Mutant: the gap between two bare acknowledgements does not apply to one
\* that is due at once.
AckDeadlineEager(c) ==
    CASE c.owed = "Nothing" -> {}
      [] c.owed = "AtOnce" -> {0}
      [] c.owed = "Held" -> {Larger(c.since + AckDelay, c.alone_after)}

\* Acks::deadline.
AckDeadline(c) ==
    CASE c.owed = "Nothing" -> {}
      [] c.owed = "AtOnce" -> {c.alone_after}
      [] c.owed = "Held" -> {Larger(c.since + AckDelay, c.alone_after)}

\* transmit_at.
TransmitAt(c) ==
    IF c.life = "Closed" THEN {}
    ELSE IF c.pending_probes > 0 \/ c.life = "Closing" \/ c.control THEN {0}
    ELSE AckDeadline(c) \cup
         (IF c.life = "Open" /\ c.message = "Unsent" THEN {c.ready} ELSE {})

Oldest(c) == CHOOSE f \in c.flight : \A g \in c.flight : f.seq <= g.seq

\* loss_time.
LossTime(c) ==
    IF c.flight = {} \/ Oldest(c).seq >= c.largest_acked THEN {}
    ELSE {Oldest(c).at + LossDelay}

\* Mutant: the first probe already waits out a doubling.
ProbeDeadlineLate(c) ==
    IF c.flight = {} THEN {}
    ELSE {c.last_eliciting + ProbeBase * 2 ^ (c.backoff + 1)}

\* probe_deadline.
ProbeDeadline(c) ==
    IF c.flight = {} THEN {}
    ELSE {c.last_eliciting + ProbeBase * 2 ^ c.backoff}

\* next_timeout, as all the times it takes the earliest of.
Timeouts(c) ==
    IF c.life = "Closed" THEN {}
    ELSE {c.last_received + Idle, c.last_eliciting + Keepalive}
         \cup TransmitAt(c) \cup LossTime(c) \cup ProbeDeadline(c)

\* Packets of probes, of the close, and one for what arrived.
MaxSteps == ProbePackets + CloseSends + 1

Due(times) == \E t \in times : t <= now

-----------------------------------------------------------------------------
(* Handlers, as what they make of the Connection.                          *)

\* The packet carries the message that the channels hold.
Holds(c, f) == f.carries = c.number /\ c.message # "None"

\* The flight loses these packets; a message they carried is unsent again.
Lose(c, lost) ==
    [c EXCEPT !.flight = @ \ lost,
              !.message = IF @ = "Flying" /\ \E f \in lost : Holds(c, f)
                          THEN "Unsent" ELSE @]

\* detect_lost.
DetectLost(c) ==
    Lose(c, {f \in c.flight :
                /\ f.seq < c.largest_acked
                /\ \/ f.seq + ReorderThreshold <= c.largest_acked
                   \/ now - f.at >= LossDelay})

\* handle_ack.
HandleAck(c, acks) ==
    LET fresh == {f \in c.flight : f.seq \in acks}
        told == [c EXCEPT
                    !.flight = @ \ fresh,
                    !.message = IF \E f \in fresh : Holds(c, f) THEN "None"
                                ELSE @,
                    !.largest_acked = Larger(@, Max(acks)),
                    !.backoff = IF fresh = {} THEN @ ELSE 0]
    IN  IF acks = {} THEN c ELSE DetectLost(told)

\* Mutant: every arrival starts the delay again.
RecordAfresh(c, in_order) ==
    [c EXCEPT !.owed = IF ~in_order \/ @ = "AtOnce" THEN "AtOnce" ELSE "Held",
              !.since = IF in_order THEN now ELSE @]

\* Acks::record.
Record(c, in_order) ==
    [c EXCEPT !.owed = IF ~in_order \/ @ = "AtOnce" THEN "AtOnce" ELSE "Held",
              !.since = IF c.owed = "Nothing" /\ in_order THEN now ELSE @]

\* record_eliciting and Acks::record, for a packet that carries a frame.
RecordEliciting(c, d) ==
    LET in_order == c.newest = 0 \/ d.seq = c.newest + 1
    IN  [Record(c, in_order) EXCEPT
            !.acked = @ \cup {d.seq},
            !.untold = @ \cup {now}]

End(c, reason) == [c EXCEPT !.life = "Closed", !.ends = Append(@, reason)]

\* handle_datagram of a live connection.
HandleDatagram(c, d) ==
    LET heard == HandleAck([c EXCEPT !.last_received = now], d.acks)
        read == IF d.close THEN End(heard, "Told") ELSE heard
        recorded == IF d.eliciting THEN RecordEliciting(read, d) ELSE read
    IN  [recorded EXCEPT !.newest = Larger(@, d.seq)]

\* Delivery::on_timeout.
ProbeTail(c) ==
    IF Due(ProbeDeadline(c))
    THEN [c EXCEPT !.pending_probes = Larger(@, ProbePackets),
                   !.backoff = IF @ = MaxBackoff THEN @ ELSE @ + 1]
    ELSE c

KeepAlive(c) ==
    IF now - c.last_eliciting >= Keepalive
    THEN [c EXCEPT !.pending_probes = Larger(@, 1)] ELSE c

\* handle_timeout of a live connection.
HandleTimeout(c) ==
    IF now - c.last_received >= Idle THEN End(c, "TimedOut")
    ELSE KeepAlive(ProbeTail(DetectLost(c)))

\* A closing connection counts its notices down and ends with the last.
Countdown(c) ==
    IF c.life # "Closing" THEN c
    ELSE IF c.remaining <= 1 THEN End(c, "Own")
    ELSE [c EXCEPT !.remaining = @ - 1]

\* Acks::sent.
AcksSent(c, eliciting) ==
    [c EXCEPT !.owed = "Nothing",
              !.alone_after = IF eliciting THEN @ ELSE now + AckDelay,
              !.untold = {}]

\* requeue_oldest, for a probe.
Requeue(c) ==
    IF c.pending_probes > 0 /\ c.message = "Flying"
    THEN [c EXCEPT !.message = "Unsent"] ELSE c

\* Mutant: the allowance must exceed what ready_for waits for.
CarriesStrict(c) == c.life = "Open" /\ c.message = "Unsent" /\ c.ready < now

\* write_frames finds a message and the allowance to send it.
Carries(c) == c.life = "Open" /\ c.message = "Unsent" /\ c.ready <= now

\* The packet poll_transmit builds from c, once the probe has requeued.
Packet(c, to) ==
    [to |-> to, seq |-> c.sent + 1, acks |-> c.acked, at |-> now,
     close |-> c.life = "Closing",
     carries |-> IF Carries(c) THEN c.number ELSE 0,
     eliciting |-> \/ c.life = "Closing" \/ c.control
                   \/ c.pending_probes > 0 \/ Carries(c)]

\* What poll_transmit leaves once packet d of c is sealed.
Sent(c, d) ==
    LET out == [c EXCEPT
                  !.sent = d.seq,
                  !.control = FALSE,
                  !.pending_probes = IF @ > 0 THEN @ - 1 ELSE 0,
                  !.message = IF d.carries > 0 THEN "Flying" ELSE @,
                  !.flight = IF d.eliciting
                             THEN @ \cup {[seq |-> d.seq, at |-> now,
                                           carries |-> d.carries]} ELSE @,
                  !.last_eliciting = IF d.eliciting THEN now ELSE @]
    IN  Countdown(AcksSent(out, d.eliciting))

-----------------------------------------------------------------------------
(* The application, the drivers, the network and the clock.                *)

Becomes(p, c) == conn' = [conn EXCEPT ![p] = c]

\* What the application does in its update, if anything: close, or send a
\* message that the budget covers in a while, or have a control frame queued
\* (an acceptance, a ticket, a path frame).
Updates(c) ==
    {c} \cup (IF c.life # "Open" \/ calls = MaxCalls THEN {} ELSE
        {[c EXCEPT !.life = "Closing", !.remaining = CloseSends],
         [c EXCEPT !.control = TRUE]} \cup
        (IF c.message # "None" THEN {}
         ELSE {[c EXCEPT !.message = "Unsent", !.number = calls + 1,
                         !.ready = now + Wait]}))

\* poll_transmit: a packet goes out if one is due, unless it would tell the
\* peer nothing.
PollTransmit(p, c) ==
    LET filled == Requeue(c)
        d == Packet(filled, Other(p))
    IN  IF Due(TransmitAt(c)) /\ (d.eliciting \/ Due(AckDeadline(c)))
        THEN /\ Becomes(p, Sent(filled, d))
             /\ network' = IF severed THEN {} ELSE network \cup {d}
        ELSE Becomes(p, c) /\ UNCHANGED network

Arrived == {d \in network : now >= d.at + Delay}

\* Within an instant the sides do not interact, Delay being positive, so one
\* order of their steps stands for all.
Turn(p) ==
    \/ p = First
    \/ ~Due(Timeouts(conn[First])) /\ (\A d \in Arrived : d.to = p)

\* step of a driver: what has arrived is taken, then comes handle_timeout,
\* the application's update, and at most one packet.
Step(p) ==
    /\ Turn(p)
    /\ \A d \in Arrived : d.to # p
    /\ LET timed == IF conn[p].life = "Closed" THEN conn[p]
                    ELSE HandleTimeout(conn[p])
       IN  \E updated \in Updates(timed) :
              /\ Due(Timeouts(conn[p])) \/ updated # timed
              /\ calls' = IF updated = timed THEN calls ELSE calls + 1
              /\ PollTransmit(p, updated)
    /\ steps' = [steps EXCEPT ![p] = IF @ > MaxSteps THEN @ ELSE @ + 1]
    /\ UNCHANGED <<now, losses, severed>>

\* Mutant: a closed connection reads what arrives.
ReceiveClosed(d) ==
    /\ Turn(d.to)
    /\ network' = network \ {d}
    /\ Becomes(d.to, HandleDatagram(conn[d.to], d))
    /\ UNCHANGED <<now, losses, severed, calls, steps>>

\* A datagram arrives; a closed connection refuses it.
Receive(d) ==
    /\ Turn(d.to)
    /\ network' = network \ {d}
    /\ Becomes(d.to, IF conn[d.to].life = "Closed" THEN conn[d.to]
                     ELSE HandleDatagram(conn[d.to], d))
    /\ UNCHANGED <<now, losses, severed, calls, steps>>

Drop(d) ==
    /\ losses < MaxLoss
    /\ Turn(d.to)
    /\ network' = network \ {d}
    /\ losses' = losses + 1
    /\ UNCHANGED <<now, conn, severed, calls, steps>>

\* The path carries nothing from here on.
Sever ==
    /\ ~severed
    /\ losses = 0 /\ network # {}
    /\ severed' = TRUE
    /\ network' = {}
    /\ UNCHANGED <<now, conn, losses, calls, steps>>

\* Time passes once both drivers have done what is due and the network has
\* delivered what it has held long enough.
Tick ==
    /\ now < MaxTime
    /\ \A p \in Peers : ~Due(Timeouts(conn[p]))
    /\ Arrived = {}
    /\ now' = now + 1
    /\ steps' = [p \in Peers |-> 0]
    /\ UNCHANGED <<conn, network, losses, severed, calls>>

Next ==
    \/ \E p \in Peers : Step(p)
    \/ \E d \in Arrived : Receive(d)
    \/ \E d \in Arrived : Drop(d)
    \/ Sever
    \/ Tick

Spec == Init /\ [][Next]_vars

-----------------------------------------------------------------------------
(* Properties                                                              *)

Live == {p \in Peers : conn[p].life # "Closed"}

\* An acknowledgement is held no longer than max_ack_delay, whether it is due
\* at once, held for company, or waiting out the gap after a bare one: what
\* the sender's probe timeout allows for.
AckWithinDelay ==
    \A p \in Live : \A t \in conn[p].untold : now <= t + AckDelay

\* A connection announces its end once, whichever of its own last notice,
\* the peer's notice and the idle timeout comes first, and has then ended.
EndsOnce ==
    \A p \in Peers :
        Len(conn[p].ends) = IF conn[p].life = "Closed" THEN 1 ELSE 0

\* "One lost keepalive does not end a connection", nor one lost notice leave
\* the peer waiting: on a path that loses no more than MaxLoss datagrams no
\* end comes from the idle timeout, whatever the two sides send or close.
NoFalseTimeout ==
    ~severed =>
        \A p \in Peers : \A i \in DOMAIN conn[p].ends :
            conn[p].ends[i] # "TimedOut"

\* Two bare acknowledgements of one side are never closer than the gap, and
\* each reports an arrival that no header had reported: the two sides do not
\* acknowledge each other's acknowledgements.
BareAcksSpaced ==
    [][\A p \in Peers :
          /\ conn'[p].sent # conn[p].sent
          /\ conn'[p].last_eliciting = conn[p].last_eliciting
          /\ conn'[p].flight = conn[p].flight
          => now >= conn[p].alone_after /\ conn[p].untold # {}]_vars

\* A driver cannot spin: step answers "immediately" only while packets are
\* left to send, so at one instant it is called no more often than the probes
\* and the notices of the close ask for, and once for what arrived.
ComesToRest == \A p \in Peers : steps[p] <= MaxSteps

=============================================================================
