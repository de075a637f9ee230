------------------------------- MODULE Driver -------------------------------
(***************************************************************************)
(* A step of the ServerDriver of driver.rs: batches read from the socket,  *)
(* replies and packets gathered in an outbox of fixed size and flushed.    *)
(*                                                                         *)
(* The endpoint is external here (Endpoint has it): a datagram is answered *)
(* by a reply or touches a connection, and may leave an event; a touched   *)
(* connection builds a packet or finds it has none to send.  Packets are   *)
(* numbered in the order they are built.  Datagrams arrive at any time.    *)
(* One is "ours" if recv_batch reports it and "void" if it is consumed     *)
(* unreported: empty, or too long where the platform says so.  The socket  *)
(* is the Linux one or the portable one.  One that fails ends the loop,    *)
(* and with it the driver.                                                 *)
(***************************************************************************)
EXTENDS Naturals, Sequences, FiniteSets, SequencesExt

CONSTANTS
    Backends,     \* sockets the driver may run over
    RecvBatch,    \* RECV_BATCH
    RecvRounds,   \* RECV_ROUNDS
    SendBatch,    \* SEND_BATCH
    Conns,        \* connections of the endpoint
    MaxArrivals,  \* bound: datagrams that arrive
    MaxSteps      \* bound: steps

VARIABLES
    backend,   \* the socket
    at,        \* where in the step the driver is
    waiting,   \* datagrams the kernel holds, in order of arrival
    inbox,     \* datagrams read and not handled yet
    filled,    \* whether the last batch was a full one
    rounds,    \* batches read in this step
    outbox,    \* packets awaiting a send call, by number
    ready,     \* connections of the endpoint that may have something to send
    events,    \* how many events the endpoint has queued
    immediate, \* whether the step asks to be called again at once
    built,     \* history: packets built
    handed,    \* history: packets handed to the socket
    left,      \* history: how many of ours the last read left in the kernel
    skipped,   \* history: whether the last read consumed a void one
    arrivals, steps

vars == <<backend, at, waiting, inbox, filled, rounds, outbox, ready, events, immediate,
          built, handed, left, skipped, arrivals, steps>>

Init ==
    /\ backend \in Backends
    /\ at = "Between"
    /\ waiting = << >>
    /\ inbox = 0
    /\ filled = FALSE
    /\ rounds = 0
    /\ outbox = << >>
    /\ ready = << >>
    /\ events = 0
    /\ immediate = FALSE
    /\ built = 0
    /\ handed = << >>
    /\ left = 0
    /\ skipped = FALSE
    /\ arrivals = 0
    /\ steps = 0

Arrive ==
    /\ arrivals < MaxArrivals
    /\ arrivals' = arrivals + 1
    /\ \E datagram \in {"ours", "void"} : waiting' = Append(waiting, datagram)
    /\ UNCHANGED <<backend, at, inbox, filled, rounds, outbox, ready, events,
                   immediate, built, handed, left, skipped, steps>>

-----------------------------------------------------------------------------
(* The outbox.                                                             *)

IsFull == Len(outbox) = SendBatch

\* flush: all go to the socket, and the outbox is empty again.
Flush == handed' = handed \o outbox /\ outbox' = << >>

\* Respond: a full outbox is flushed before the reply is pushed.
Respond ==
    /\ built' = built + 1
    /\ outbox' = IF IsFull THEN <<built + 1>> ELSE Append(outbox, built + 1)
    /\ handed' = IF IsFull THEN handed \o outbox ELSE handed

-----------------------------------------------------------------------------
(* The step.                                                               *)

Begin ==
    /\ at = "Between" /\ steps < MaxSteps
    /\ at' = "Reading"
    /\ steps' = steps + 1
    /\ rounds' = 0
    /\ UNCHANGED <<backend, waiting, inbox, filled, outbox, ready, events,
                   immediate, built, handed, left, skipped, arrivals>>

\* Of the first n datagrams waiting, those recv_batch reports.
Ours(n) == Cardinality({i \in 1..n : waiting[i] = "ours"})

\* How many one call consumes.  recvmmsg takes a batch, whatever is in it; the
\* portable loop goes on until a batch of ours is full or nothing is left.
Consumed ==
    LET ends == {n \in 0..Len(waiting) :
                    (IF backend = "linux" THEN n ELSE Ours(n)) = RecvBatch}
    IN  Min(ends \cup {Len(waiting)})

\* Inbox::fill, through recv_batch.  On Linux a full batch with nothing to
\* report makes it call again; otherwise what there is to report is a batch,
\* and what counts as a full one is how many were reported.
Fill ==
    LET count == Ours(Consumed)
    IN  /\ at = "Reading"
        /\ waiting' = SubSeq(waiting, Consumed + 1, Len(waiting))
        /\ left' = Ours(Len(waiting)) - count
        /\ skipped' = (count < Consumed)
        /\ IF backend = "linux" /\ count = 0 /\ Consumed = RecvBatch
           THEN UNCHANGED <<at, inbox, filled, rounds>>
           ELSE /\ at' = "Handling"
                /\ inbox' = count
                /\ filled' = (count = RecvBatch)
                /\ rounds' = rounds + 1
        /\ UNCHANGED <<backend, outbox, ready, events, immediate, built, handed,
                       arrivals, steps>>

Touch(touched) ==
    ready' = ready \o SetToSeq(touched \ ToSet(ready))

\* One datagram of the batch: answered, for a connection, or for nobody.
Handle ==
    /\ at = "Handling" /\ inbox > 0
    /\ inbox' = inbox - 1
    /\ \/ Respond /\ UNCHANGED ready
       \/ \E touched \in SUBSET Conns :
             /\ Cardinality(touched) <= 1
             /\ Touch(touched)
             /\ UNCHANGED <<outbox, built, handed>>
    /\ events' \in {events, events + 1}
    /\ UNCHANGED <<backend, at, waiting, filled, rounds, immediate, left,
                   skipped, arrivals, steps>>

\* deliver_events: the application hears of all that are queued.
Deliver == events' = 0

\* The batch is done: its events are delivered, and the next batch is read
\* unless this one was not full or the last allowed.
EndBatch ==
    /\ at = "Handling" /\ inbox = 0
    /\ Deliver
    /\ at' = IF filled /\ rounds < RecvRounds THEN "Reading" ELSE "Timeout"
    /\ immediate' = filled
    /\ UNCHANGED <<backend, waiting, inbox, filled, rounds, outbox, ready,
                   built, handed, left, skipped, arrivals, steps>>

\* handle_timeout, whose events are delivered, and the application's update.
Update ==
    /\ at = "Timeout"
    /\ at' = "Transmit"
    /\ \E touched \in SUBSET Conns : Touch(touched)
    /\ Deliver
    /\ UNCHANGED <<backend, waiting, inbox, filled, rounds, outbox, immediate,
                   built, handed, left, skipped, arrivals, steps>>

\* drain_transmits: one connection, while the outbox has a slot.
Drain ==
    /\ at = "Transmit" /\ ready # << >> /\ ~IsFull
    /\ ready' = Tail(ready)
    /\ \E some \in {0, 1} :
          /\ built' = built + some
          /\ outbox' = IF some = 1 THEN Append(outbox, built') ELSE outbox
    /\ UNCHANGED <<backend, at, waiting, inbox, filled, rounds, events,
                   immediate, handed, left, skipped, arrivals, steps>>

\* Mutant: the step ends with the first flush.
AgainNever == FALSE

\* A drain that filled the outbox may have left connections behind.
Again == IsFull

\* transmit flushes what a drain gathered.
Transmit ==
    /\ at = "Transmit" /\ (ready = << >> \/ IsFull)
    /\ Flush
    /\ at' = IF Again THEN "Transmit" ELSE "Between"
    /\ UNCHANGED <<backend, waiting, inbox, filled, rounds, ready, events,
                   immediate, built, left, skipped, arrivals, steps>>

Next ==
    \/ Arrive
    \/ Begin
    \/ Fill
    \/ Handle
    \/ EndBatch
    \/ Update
    \/ Drain
    \/ Transmit

Spec == Init /\ [][Next]_vars

-----------------------------------------------------------------------------
(* Properties                                                              *)

\* Whatever batches the arrivals fall into and however replies and packets
\* share the outbox, no packet is built over another or left behind: each is
\* handed to the socket once and in order, and a step ends with nothing more
\* to send or to tell the application.  A datagram it left unread makes the
\* next one follow at once, except that over the Linux socket a void one may
\* have made its last batch look short.
StepFinishes ==
    /\ handed \o outbox = [i \in 1..built |-> i]
    /\ at = "Between" =>
          /\ outbox = << >>
          /\ ready = << >>
          /\ events = 0
          /\ left > 0 => immediate \/ (backend = "linux" /\ skipped)

\* "A time at or before `now` means immediately, which is also what a step that
\* left datagrams unread returns" (driver.rs, step).
UnreadResumes == at = "Between" /\ left > 0 => immediate

=============================================================================
