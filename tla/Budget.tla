------------------------------- MODULE Budget -------------------------------
(***************************************************************************)
(* The send allowance of a connection, Budget of budget.rs: a token bucket *)
(* in fixed point and the controller that moves its rate.                  *)
(*                                                                         *)
(* Time is kept as ages, last_refill and last_assessed seen from now, so   *)
(* that the state is finite: an age stops counting where the bucket is     *)
(* full or the assessment due whatever more passes.  The fixed point has   *)
(* Fraction units to a byte and Second ticks to a second.  The round-trip  *)
(* estimate is external: it sees a queue or does not.                      *)
(***************************************************************************)
EXTENDS Integers

CONSTANTS
    Fraction,     \* 2^FRACTION_BITS
    Second,       \* Span::NANOS_PER_SECOND
    Rate,         \* config.rate()
    MinRate,      \* MIN_RATE
    MaxPacket,    \* config.max_packet()
    Overhead,     \* header, tag and frame overhead of a message
    Payloads,     \* message lengths
    Burst,        \* BURST_FRACTION
    LossShare,    \* LOSS_THRESHOLD_DENOMINATOR (the numerator is 1)
    Samples,      \* MIN_LOSS_SAMPLES
    Persistence,  \* QUEUE_PERSISTENCE
    Recovery,     \* RECOVERY_FRACTION
    Interval,     \* assess_interval
    MaxWindow,    \* bound of the window counts (u32::MAX)
    MaxAge        \* bound of the refill's age

VARIABLES
    rate,
    tokens,         \* in fixed point
    refilled,       \* age of last_refill
    assessed,       \* age of last_assessed
    window_sent,
    window_lost,
    queue_signals,
    calm            \* the path loses and queues nothing any more

vars == <<rate, tokens, refilled, assessed, window_sent, window_lost,
          queue_signals, calm>>

AtMost(bound, n) == IF n > bound THEN bound ELSE n

AtLeast(bound, n) == IF n < bound THEN bound ELSE n

\* Refill::of, as earned per tick.
Refill == (rate * Fraction) \div Second

\* capacity_for: a quarter second of rate, or one packet if that is more.
Capacity(r) == AtLeast(MaxPacket, r \div Burst) * Fraction

Init ==
    /\ rate = Rate
    /\ tokens = Capacity(Rate)
    /\ refilled = 0
    /\ assessed = 0
    /\ window_sent = 0
    /\ window_lost = 0
    /\ queue_signals = 0
    /\ calm = FALSE

\* advance, seen age ticks after the last refill.
Level(age) == AtMost(Capacity(rate), tokens + age * Refill)

\* available, likewise.
Available(age) == AtMost(MaxPacket, Level(age) \div Fraction)

\* What a datagram carrying a message asks of the bucket.
Needed(payload) == AtMost(MaxPacket, Overhead + payload)

\* Mutant: rounded down, a tick before the datagram is covered.
ReadyForDown(payload) ==
    LET deficit == Needed(payload) * Fraction - tokens
    IN  IF deficit <= 0 THEN 0 ELSE deficit \div Refill

\* ready_for: ticks after the last refill, rounded up.
ReadyFor(payload) ==
    LET deficit == Needed(payload) * Fraction - tokens
    IN  IF deficit <= 0 THEN 0 ELSE (deficit + Refill - 1) \div Refill

Tick ==
    /\ refilled' = AtMost(MaxAge, refilled + 1)
    /\ assessed' = AtMost(Interval, assessed + 1)
    /\ UNCHANGED <<rate, tokens, window_sent, window_lost, queue_signals,
                   calm>>

\* decrease, by a quarter.
Decreased == AtLeast(MinRate, (rate \div 4) * 3)

\* increase, by a step of the configured rate.
Increased == AtMost(Rate, rate + AtLeast(1, Rate \div Recovery))

\* Too early, or too few packets to read anything from.
Unreadable == assessed < Interval \/ window_sent < Samples

Lossy == window_lost * LossShare > window_sent

Signals(queueing) == IF queueing THEN queue_signals + 1 ELSE 0

\* The rate assess leaves.
Assessed(queueing) ==
    IF Unreadable THEN rate
    ELSE IF Lossy \/ Signals(queueing) >= Persistence THEN Decreased
    ELSE Increased

\* Mutant: the losses of one window weigh on the next as well.
AssessKeepingLosses(queueing, sent) ==
    /\ assessed' = IF assessed < Interval THEN assessed ELSE 0
    /\ window_sent' = AtMost(MaxWindow,
                             sent + IF Unreadable THEN window_sent ELSE 0)
    /\ window_lost' = window_lost
    /\ queue_signals' =
         IF Unreadable THEN queue_signals
         ELSE IF Lossy \/ Signals(queueing) >= Persistence THEN 0
         ELSE Signals(queueing)

\* assess at the head of poll_transmit, all but the rate it sets; the packet
\* then counts as sent.
Assess(queueing, sent) ==
    /\ assessed' = IF assessed < Interval THEN assessed ELSE 0
    /\ window_sent' = AtMost(MaxWindow,
                             sent + IF Unreadable THEN window_sent ELSE 0)
    /\ window_lost' = IF Unreadable THEN window_lost ELSE 0
    /\ queue_signals' =
         IF Unreadable THEN queue_signals
         ELSE IF Lossy \/ Signals(queueing) >= Persistence THEN 0
         ELSE Signals(queueing)

\* set_rate: the burst the rate allows goes with it.
SetRate(r) == rate' = r /\ tokens' = AtMost(Capacity(r), tokens)

Queueing == IF calm THEN {FALSE} ELSE BOOLEAN

\* poll_transmit finding nothing due.
PollIdle ==
    \E queueing \in Queueing :
        /\ Assess(queueing, 0)
        /\ SetRate(Assessed(queueing))
        /\ UNCHANGED <<refilled, calm>>

\* poll_transmit sending len bytes.  Messages keep to what is available;
\* notices, probes and acknowledgements go out whatever is left.
PollSend(len, eliciting) ==
    \E queueing \in Queueing :
        LET r == Assessed(queueing)
            kept == AtMost(Capacity(r), tokens)
            earned == refilled * ((r * Fraction) \div Second)
            level == AtMost(Capacity(r), kept + earned)
        IN  /\ Assess(queueing, IF eliciting THEN 1 ELSE 0)
            /\ rate' = r
            /\ tokens' = AtLeast(0, level - len * Fraction)
            /\ refilled' = 0
            /\ UNCHANGED calm

OnLost ==
    /\ ~calm
    /\ window_lost' = AtMost(MaxWindow, window_lost + 1)
    /\ UNCHANGED <<rate, tokens, refilled, assessed, window_sent,
                   queue_signals, calm>>

OnSpurious ==
    /\ window_lost' = AtLeast(0, window_lost - 1)
    /\ UNCHANGED <<rate, tokens, refilled, assessed, window_sent,
                   queue_signals, calm>>

\* A new path has none of the old one's history.
OnPathChange ==
    /\ SetRate(Rate)
    /\ assessed' = 0
    /\ window_sent' = 0
    /\ window_lost' = 0
    /\ queue_signals' = 0
    /\ UNCHANGED <<refilled, calm>>

\* The path stops losing and queueing.
Calm ==
    /\ calm' = TRUE
    /\ UNCHANGED <<rate, tokens, refilled, assessed, window_sent,
                   window_lost, queue_signals>>

Next ==
    \/ Tick
    \/ PollIdle
    \/ \E len \in 1..MaxPacket, eliciting \in BOOLEAN : PollSend(len, eliciting)
    \/ OnLost
    \/ OnSpurious
    \/ OnPathChange
    \/ Calm

Spec == Init /\ [][Next]_vars

\* Time passes, and a connection in use goes on sending packets that want an
\* answer: its keepalives if nothing else.
Fairness ==
    /\ WF_vars(Tick)
    /\ WF_vars(\E len \in 1..MaxPacket : PollSend(len, TRUE))

-----------------------------------------------------------------------------
(* Properties                                                              *)

\* The time ready_for gives is the time the allowance covers the datagram:
\* not a tick early, when the driver woken by it would find nothing to send
\* and spin, and not a tick late.  At any rate and level the controller and
\* the traffic leave behind, such a time exists.
ReadyIsExact ==
    \A p \in Payloads :
        /\ Available(ReadyFor(p)) >= Needed(p)
        /\ ReadyFor(p) > 0 => Available(ReadyFor(p) - 1) < Needed(p)

\* A connection whose path stops losing and queueing gets its configured rate
\* back for good, however far the controller had backed off.
Recovers == Fairness /\ <>calm => <>[](rate = Rate)

=============================================================================
