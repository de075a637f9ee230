------------------------------ MODULE MCParts -------------------------------
(***************************************************************************)
(* The parts that Link, Endpoint and Connection take for granted,          *)
(* and the loop around them all, checked one at a time: a behavior moves   *)
(* one part and leaves the others as they start.  A property is asked of  *)
(* the part that moves; the two refinements hold of one that does not.     *)
(***************************************************************************)
EXTENDS Naturals, TLC

CONSTANT None

VARIABLES
    part,                                                       \* that moves
    entries, positions, popped,                                    \* Timers
    slots, items, owners, free_slot, issued, returned,             \* Slab
    bytes, next, free_head, free_count, stored,                    \* Arena
    rate, tokens, refilled, assessed, window_sent, window_lost,
    queue_signals, calm,                                           \* Budget
    home, response, addr, probe, challenge, up, down, rebinds,     \* Path
    now, client, attempts, redeemed, challenges, accepted, sent,
    due, losses, made,                                          \* Handshake
    clock, buckets, log, refused,                                 \* Limiter
    backend, at, waiting, inbox, filled, rounds, outbox, ready, events,
    immediate, built, handed, left, skipped, arrivals, steps,      \* Driver
    tickets, cookies, connections, uses, sessions, spent, next_session,
    yielded,                                                       \* Shards
    mode, pc, queue, event, taken, state, life, notices, told, deadline,
    requested, stopping, give_up                                  \* RunLoop

timers == <<entries, positions, popped>>
slab == <<slots, items, owners, free_slot, issued, returned>>
arena == <<bytes, next, free_head, free_count, stored>>
budget == <<rate, tokens, refilled, assessed, window_sent, window_lost,
            queue_signals, calm>>
path == <<home, response, addr, probe, challenge, up, down, rebinds>>
handshake == <<now, client, attempts, redeemed, challenges, accepted, sent,
               due, losses, made>>
limiter == <<clock, buckets, log, refused>>
driver == <<backend, at, waiting, inbox, filled, rounds, outbox, ready,
            events, immediate, built, handed, left, skipped, arrivals, steps>>
shards == <<tickets, cookies, connections, uses, sessions, spent,
            next_session, yielded>>
runLoop == <<mode, pc, queue, event, taken, state, life, notices, told,
             deadline, requested, stopping, give_up>>

vars == <<part, timers, slab, arena, budget, path, handshake, limiter,
          driver, shards, runLoop>>

\* Two deadlines tie or differ; six slots make a heap of three levels.
Timers == INSTANCE Timers WITH Slots <- 0..5, Times <- 0..1

\* Each slot is used twice before its generation wraps.
Slab == INSTANCE Slab WITH
    Capacity <- 3, Generations <- 4, Items <- {"a", "b"},
    free_head <- free_slot

\* Empty, part of a block, a block and a part, and whole blocks only.
Arena == INSTANCE Arena WITH
    N <- 4, Block <- 2, Messages <- {"m", "n", "o"}, Lengths <- {0, 1, 3, 4}

\* A quarter second of the rate is less than a packet, the rate is a few steps
\* of recovery from its floor, and a refill does not divide a packet.
Budget == INSTANCE Budget WITH
    Fraction <- 2, Second <- 3, Rate <- 8, MinRate <- 2, MaxPacket <- 3,
    Overhead <- 1, Payloads <- 0..3, Burst <- 4, LossShare <- 2,
    Samples <- 2, Persistence <- 2, Recovery <- 4, Interval <- 2,
    MaxWindow <- 3, MaxAge <- 6

\* Away and back, or on to a third address.
Path == INSTANCE Path WITH
    Addrs <- {"a", "b", "c"}, Home <- "a", Tokens <- {"t", "u", "v"},
    MaxRebinds <- 2, MaxTransit <- 2, client <- home

\* An attempt is two tries, and both may be lost.
Handshake == INSTANCE Handshake WITH
    Tickets <- {"a", "b"}, First <- "a", Retry <- 1, Timeout <- 2,
    CookieLife <- 4, Idle <- 4, MaxLoss <- 2, MaxAttempts <- 2,
    MaxCopies <- 2

\* Two of the three addresses share a slot.
Limiter == INSTANCE Limiter WITH
    Addrs <- {"a", "b", "c"},
    Slot <- "a" :> "s" @@ "b" :> "s" @@ "c" :> "t",
    Burst <- 1, Interval <- 3, GlobalBurst <- 2, GlobalInterval <- 2,
    MaxTime <- 5, MaxLog <- 4, now <- clock

\* More datagrams than a step reads, and more to send than the outbox holds.
Driver == INSTANCE Driver WITH
    Backends <- {"linux", "portable"}, RecvBatch <- 2, RecvRounds <- 2, SendBatch <- 2,
    Conns <- {"c"}, MaxArrivals <- 5, MaxSteps <- 2

\* Two members, of the four their bits could name.  The tickets of two new
\* players have different homes; one names a session of a larger group.
Shards == INSTANCE Shards WITH
    ShardBits <- 2, SlotBits <- 1, GenerationBits <- 1, Count <- 2,
    Issued <- 1 :> None @@ 2 :> None @@ 3 :> 7,
    Resumes <- {4}, MaxSessions <- 1, MaxUses <- 3, redeemed <- spent

Mode(l, b, w) == [loop |-> l, backend |-> b, wakes |-> w]

\* The loops that return when they say they do.
RunLoop == INSTANCE RunLoop WITH
    Modes <- {Mode("server", "linux", "none"), Mode("client", "linux", "later"),
              Mode("client", "portable", "later"),
              Mode("close", "portable", "none")},
    CloseSends <- 2, RecvLimit <- 2, MaxQueue <- 3, left <- notices

-----------------------------------------------------------------------------

Init ==
    /\ part \in {"Timers", "Slab", "Arena", "Budget", "Path", "Handshake",
                 "Limiter", "Driver", "Shards", "RunLoop"}
    /\ Timers!Init
    /\ Slab!Init
    /\ Arena!Init
    /\ Budget!Init
    /\ Path!Init
    /\ Handshake!Init
    /\ Limiter!Init
    /\ Driver!Init
    /\ Shards!Init
    /\ RunLoop!Init
    /\ part # "Driver" => backend = "linux"
    /\ part # "RunLoop" => mode.loop = "server"

\* The part that moves, and all the others at rest.
Moves(p) ==
    /\ part = p
    /\ UNCHANGED part
    /\ p # "Timers" => UNCHANGED timers
    /\ p # "Slab" => UNCHANGED slab
    /\ p # "Arena" => UNCHANGED arena
    /\ p # "Budget" => UNCHANGED budget
    /\ p # "Path" => UNCHANGED path
    /\ p # "Handshake" => UNCHANGED handshake
    /\ p # "Limiter" => UNCHANGED limiter
    /\ p # "Driver" => UNCHANGED driver
    /\ p # "Shards" => UNCHANGED shards
    /\ p # "RunLoop" => UNCHANGED runLoop

Next ==
    \/ Moves("Timers") /\ Timers!Next
    \/ Moves("Slab") /\ Slab!Next
    \/ Moves("Arena") /\ Arena!Next
    \/ Moves("Budget") /\ Budget!Next
    \/ Moves("Path") /\ Path!Next
    \/ Moves("Handshake") /\ Handshake!Next
    \/ Moves("Limiter") /\ Limiter!Next
    \/ Moves("Driver") /\ Driver!Next
    \/ Moves("Shards") /\ Shards!Next
    \/ Moves("RunLoop") /\ RunLoop!Next

Spec == Init /\ [][Next]_vars

-----------------------------------------------------------------------------
(* Properties                                                              *)

\* The heap is the table of deadlines it stands for (timer.rs): each slot's
\* deadline is the one last given to it, and slots come out earliest first.
KeepsDeadlines == Timers!KeepsDeadlines

\* The slab is the table it stands for (slab.rs): a handle reaches its own
\* item until that is removed, and nothing afterwards.
KeepsItems == Slab!KeepsItems

\* A stored message reads back as it was written, and every block no message
\* holds can be reserved (arena.rs).
Intact == part = "Arena" => Arena!Intact

\* The time the allowance gives for a datagram is exactly when it covers it
\* (budget.rs, ready_for).
ReadyIsExact == part = "Budget" => Budget!ReadyIsExact

\* A path that stops losing and queueing gets the configured rate back
\* (budget.rs, assess).
Recovers == part = "Budget" => Budget!Recovers

\* The server comes to send to where the client is (connection.rs,
\* on_address_change, on_path_response).
FollowsClient == part = "Path" => Path!FollowsClient

\* No two connections of a client share keys (connector.rs, handshake.rs).
KeysUsedOnce == part = "Handshake" => Handshake!KeysUsedOnce

\* A first attempt fails only if each of its tries lost a datagram
\* (connector.rs, endpoint.rs).
SurvivesLoss == part = "Handshake" => Handshake!SurvivesLoss

\* Each bucket admits its burst and its rate, no more and no less
\* (endpoint.rs, charge).
LimitIsExact == part = "Limiter" => Limiter!LimitIsExact

\* A step of the server's driver sends all it built and tells all it heard,
\* and comes back at once for what it left unread, unless the Linux socket
\* skipped a datagram (driver.rs, step).
StepFinishes == part = "Driver" => Driver!StepFinishes

\* Tickets, sessions and connections have one home in a group of endpoints
\* (shard.rs, wire.rs, linux.rs).
OneHome == part = "Shards" => Shards!OneHome

\* A stopped loop returns, even one without a deadline to wait for (run.rs).
StopReturns ==
    part = "RunLoop" /\ RunLoop!Fairness => RunLoop!StopReturns

\* However its connection closes, the loop of a client whose application has
\* wakes returns (run.rs, run_client).
CloseEnds ==
    part = "RunLoop" /\ RunLoop!Fairness => RunLoop!CloseEnds

\* close_client returns, though its last notice leaves it no deadline (run.rs).
LingerReturns ==
    part = "RunLoop" /\ RunLoop!Fairness => RunLoop!LingerReturns

=============================================================================
