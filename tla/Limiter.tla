------------------------------ MODULE Limiter -------------------------------
(***************************************************************************)
(* The handshake limiter of endpoint.rs: a token bucket for all requests,  *)
(* one for all responses, and a table of buckets that addresses share when *)
(* their hashes collide.                                                   *)
(***************************************************************************)
EXTENDS Integers, Sequences, FiniteSets

CONSTANTS
    Addrs,     \* source keys
    Slot,      \* their slots in the table
    Burst,     \* BURST and INTERVAL of PerAddress
    Interval,
    GlobalBurst, GlobalInterval,  \* of GlobalRequests and GlobalResponses
    MaxTime,   \* bound: the clock
    MaxLog     \* bound: datagrams admitted

VARIABLES
    now,
    buckets,   \* responses, requests, and the slots of the limiter
    log,       \* history: when each bucket let a datagram through
    refused    \* history: whom the last call refused, if anyone

vars == <<now, buckets, log, refused>>

Kinds == {"Request", "Response"}
Slots == {Slot[a] : a \in Addrs}
BurstOf(b) == IF b \in Kinds THEN GlobalBurst ELSE Burst
IntervalOf(b) == IF b \in Kinds THEN GlobalInterval ELSE Interval

\* Bucket::full.
Full(b) == [tokens |-> BurstOf(b), last_refill |-> 0]

\* Bucket::refill: whole intervals, keeping the rest unless the bucket fills.
Refilled(b) ==
    LET have == buckets[b]
        intervals == (now - have.last_refill) \div IntervalOf(b)
    IN  IF intervals = 0 THEN have
        ELSE IF intervals < BurstOf(b) - have.tokens
        THEN [tokens |-> have.tokens + intervals,
              last_refill |-> have.last_refill + intervals * IntervalOf(b)]
        ELSE [tokens |-> BurstOf(b), last_refill |-> now]

Spend(bucket) == [bucket EXCEPT !.tokens = @ - 1]

\* Mutant: the token of all is spent before the address's own is found.
ChargedEagerly(global, slot) ==
    LET g == Refilled(global)
        s == Refilled(slot)
    IN  IF g.tokens = 0 THEN [buckets EXCEPT ![global] = g]
        ELSE IF s.tokens = 0
        THEN [buckets EXCEPT ![global] = Spend(g), ![slot] = s]
        ELSE [buckets EXCEPT ![global] = Spend(g), ![slot] = Spend(s)]

\* charge: the global token is reserved, and spent if the address has one.
Charged(global, slot) ==
    LET g == Refilled(global)
        s == Refilled(slot)
    IN  IF g.tokens = 0 THEN [buckets EXCEPT ![global] = g]
        ELSE IF s.tokens = 0 THEN [buckets EXCEPT ![global] = g, ![slot] = s]
        ELSE [buckets EXCEPT ![global] = Spend(g), ![slot] = Spend(s)]

Admits(global, slot) ==
    Refilled(global).tokens > 0 /\ Refilled(slot).tokens > 0

-----------------------------------------------------------------------------

Nobody == << >>

Init ==
    /\ now = 0
    /\ buckets = [b \in Kinds \cup Slots |-> Full(b)]
    /\ log = [b \in Kinds \cup Slots |-> << >>]
    /\ refused = Nobody

\* charge_handshake.
ChargeHandshake(a, kind) ==
    /\ Len(log["Request"]) + Len(log["Response"]) < MaxLog
    /\ buckets' = Charged(kind, Slot[a])
    /\ IF Admits(kind, Slot[a])
       THEN /\ log' = [log EXCEPT ![kind] = Append(@, now),
                                  ![Slot[a]] = Append(@, now)]
            /\ refused' = Nobody
       ELSE /\ refused' = <<kind, Slot[a]>>
            /\ UNCHANGED log
    /\ UNCHANGED now

Tick ==
    /\ now < MaxTime
    /\ now' = now + 1
    /\ refused' = Nobody
    /\ UNCHANGED <<buckets, log>>

Next ==
    \/ \E a \in Addrs, kind \in Kinds : ChargeHandshake(a, kind)
    \/ Tick

Spec == Init /\ [][Next]_vars

-----------------------------------------------------------------------------

\* Datagrams admitted through the bucket from one time on.
Through(b, start) ==
    Cardinality({i \in DOMAIN log[b] : log[b][i] >= start})

\* The limiter is exact on both sides.  No bucket ever lets through more than
\* its burst and one for each interval begun; and a datagram is refused only
\* if one of its own two buckets did let through its burst and one for each
\* interval completed: what is refused for its address costs the others
\* nothing.
LimitIsExact ==
    /\ \A b \in Kinds \cup Slots : \A start \in 0..now :
          Through(b, start)
            <= BurstOf(b) + 1 + (now - start) \div IntervalOf(b)
    /\ refused # Nobody =>
          \E i \in {1, 2} : \E start \in 0..now :
             Through(refused[i], start)
               >= BurstOf(refused[i])
                  + (now - start) \div IntervalOf(refused[i])

=============================================================================
