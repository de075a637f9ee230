# A TLA+ model of hex-net

hex-net is a transport for games: encrypted datagrams over UDP, with four kinds
of channel (unreliable, sequenced, reliable unordered, reliable ordered), one
server endpoint for many clients, session resumption, and address migration.
The core (`hex-net-core`) does no I/O: it is stepped with datagrams and times by
drivers (`hex-net-io`) or by a simulator (`hex-net-sim`).

This directory models it in TLA+, checks the models with TLC, and proves the
central ones with TLAPS. `PROJECT.json` lists components, runs, mutants, the map
from definitions to source lines, findings, hazards and theorems.

## The system

| part | state | operations | what makes it hard |
|---|---|---|---|
| delivery ledger (`ack.rs`) | ring of sent packets, largest sent and acknowledged, cursor to the oldest in flight, counter, probe backoff, round-trip estimate | on_sent, on_ack, on_timeout, on_path_change | late and repeated acknowledgements, ring wrap, walks that stop early, tail loss |
| sequences (`seq.rs`, `packet.rs`) | next sequence, replay window, acknowledgement window | encrypt, decrypt, record_eliciting, resolve_ack | truncation to 16 bits, window edges, reordering |
| channels (`channel.rs`) | pending queue, in-flight marks, per-channel receiver state, holding queue | send, write_frames, on_packet_sent, on_packet_aborted, on_acked, on_lost, requeue_oldest, read_message | a message in several packets at once, gaps, full queues |
| connection (`connection.rs`) | lifecycle, acknowledgements owed, control frames owed, probes owed, path probe, events | send, close, handle_datagram, poll_transmit, handle_timeout, next_timeout | deadlines that must fire and must not spin, closing from both sides, migration under reordering |
| budget (`budget.rs`) | token bucket, rate, loss window | available, ready_for, on_sent, assess | rounding, a bucket that must be able to fill |
| endpoint (`endpoint.rs`, `handshake.rs`) | connections in a slab, spent tickets, sessions, ready and retiring queues, timers, events | handle_datagram, drain_transmits, handle_timeout, issue_resume_ticket, shutdown | retried and repeated handshakes, takeover of a session, stale handles, expiry |
| connector (`connector.rs`) | handshake state, cookie, connection | handle_datagram, poll_transmit, handle_timeout, close | retries racing answers, an end nobody looks at |
| storage (`slab.rs`, `timer.rs`, `arena.rs`) | dense items and free list, indexed heap, chained blocks | insert, remove, arm, disarm, pop_due, reserve, read, release | swaps that must move two indices, slots that wear out, lists threaded through freed storage |
| group (`shard.rs`, `wire.rs`, BPF program in `linux.rs`) | one address, several endpoints | home, owner_shard, steering | three computations of the owner that must agree |
| run loops (`run.rs`, `driver.rs`, `portable.rs`, `linux.rs`) | stop flag, wake, wait, batches, outbox | step, pause, stop | a wake consumed before the wait, a batch that is full |

A connection owns a ledger, a set of channels, a budget and the crypto state; a
packet leaving through `poll_transmit` writes channel frames, records them in
the ledger, and charges the budget; an arriving header resolves packets in the
ledger, which releases or requeues their messages. An endpoint owns connections
and decides when each is stepped; a driver owns an endpoint or a connector.

## Modules

| module | models | kind |
|---|---|---|
| `Ledger` | the ring of sent packets and the rules that resolve them | operators |
| `Delivery` | `Delivery` of `ack.rs` with its clock | state machine |
| `SeqNum` | truncation, reconstruction, receive windows | operators |
| `Channels` | both halves of `Channels` | operators |
| `Service` | what `ChannelKind` promises the application | abstract specification |
| `Link`, `MCLink` | one direction of a connection: sender, network, receiver | composition of the above |
| `Connection` | both ends of a connection and the clock | state machine |
| `Path` | a client that moves, and the server following it | state machine |
| `Budget` | the send allowance and its controller | state machine |
| `Handshake` | `Connector` against the handshake of the server | state machine |
| `Endpoint`, `MCEndpoint` | the server's handshakes, sessions, queues and retirement | state machine |
| `Limiter` | the handshake limiter of `endpoint.rs` | state machine |
| `Shards` | a group of endpoints on one address | state machine |
| `Timers`, `Deadlines` | the timer heap, and the map it stands for | state machine, abstract specification |
| `Slab`, `Table` | the slab, and the table it stands for | state machine, abstract specification |
| `Arena` | message payloads in chained blocks | state machine |
| `Driver` | a step of `ServerDriver`: batches and outbox | state machine |
| `RunLoop`, `MCRunLoop` | the loops of `run.rs`, the sockets they sleep on, the stopper | state machine |
| `MCParts` | ten parts, one moving at a time | model-checking module |
| `DeliveryProofs`, `ConnectionProofs`, `BudgetProofs`, `HandshakeProofs`, `LimiterProofs`, `ShardsProofs` | theorems | proofs |

### Ledger and Delivery

A ring is a function from `0..N-1` to slots; a packet's slot is its sequence
modulo `N`, and 0 stands for `None`, as sequences start at 1. `Delivery` has one
action per entry point of the code and one for the clock. What the code passes
to its `notify` callback is kept per packet in the history variable `notices`;
`tracked` is the history of ack-eliciting packets.

The round-trip estimator is abstracted to what the ledger reads from it, the
loss delay and the probe base, which any sample may set to any pair of
`Timings`. Every outcome of the estimator is therefore allowed, and more.
An acknowledgement carries its arrival stamp, which may trail the clock by
`Skew`, since the kernel stamps a datagram before a step reads it.

### Channels and Link

A message is a record of channel, id and place in the order of sends; its
payload is its identity. The pending queue is a set ordered by place. `Link`
composes the sending half (channels, ledger, probes), a network that keeps
every packet and every acknowledgement state for ever and delivers any of them
at any time and any number of times, and the receiving half (replay window,
acknowledgement window, channels).

Abstractions, each of which allows more than the code does:

* time appears only through its effects: a timeout or an acknowledgement may
  find any prefix of the flight older than the loss delay, and a probe or
  keepalive may be due or not;
* the send budget and frame sizes appear as the choice of how many messages a
  packet takes, of each channel a prefix in send order;
* the acknowledgement state may be reported in a header at any time after it
  was reached.

Three things are narrower than the code. Message ids stay far below 2^31, so a
wrapping difference is a plain one. A ping is assumed to fit its packet. A
receiver that meets an unreadable frame stops, where the code starts to close.

A message travels with the low bits of its id, and `ReadId` rebuilds the id with
the arithmetic of `SeqNum` around a reference that moves with what the channel
delivered. `IdsResolve` says that every packet that would still open gives back
the id that was sent, however far it is behind the reference. What bounds the
distance is the replay window: `IdHalf`, half the truncated values, must be at
least the messages that the packets of a window can carry. The code has 32768
against 64 packets of 8.

### Endpoint

One action per entry point: `HandleRequest`, `HandleResponse` and
`HandleResponseSpent` (the two ways `handle_response` can go), `RoutePayload`,
`ConnectionMut`, `IssueResumeTicket`, `Shutdown`, `DrainTransmits` and
`Timeout`, which is the whole of `handle_timeout`: due connections, then `reap`,
`expire_sessions` and `forget_expired_tickets`. A handle is a slot and the number
of the occupancy, in place of a generation. `DrainTransmits` visits one
connection; a drain with a larger sink is several in a row, and everything that
can happen between them can also happen between two drains.

A connection keeps its lifecycle, session, ticket and the Closed event nobody
has moved out yet. Which connections are due and which of them are idle is a
choice, except that a closing connection that is not queued is always due.
Tickets and cookies are those the server or the backend really sealed; every one
stays about for ever and may be presented any number of times. A datagram is
judged at its arrival time, between `Lag` before and `Lead` after the clock of
the step. `Shards` adds requests answered away from the ticket's home.
`yielded` and `attached` are histories: connections each ticket produced, and
Connected less Disconnected events.

Not in the model: migration events. The limiter is a module of its own, and a
refused datagram is one that is not presented.

### Connection

Two peers with the clock. `HandleDatagram`, `HandleTimeout` and the rest are
operators on a connection's record; the actions are those of the drivers. A peer
first takes all that has arrived (`Receive`), then `Step` is `handle_timeout`, the
application's update (send, close, or queue a control frame) and at most one
packet, taken while `next_timeout` is due or the application did something. The
clock moves when neither peer has anything due and nothing is left to arrive.
What other modules have in full is reduced here: the ledger to the packets in
flight with their send times, the channels to one message, the budget to the
time from which it covers that message. The network has a fixed delay and
loses up to `MaxLoss` datagrams, or goes dead for good (`Sever`).

`NoFalseTimeout` depends on the numbers. `config.rs:115` says two keepalives fit
inside the idle timeout, so one lost keepalive does not end a connection; in the
model this is so because a lost keepalive is probed for after the probe timeout,
and needs a probe base that, with the delay, is below the keepalive interval.

### Path

The server's `Role` (`on_address_change`, path challenge and response, expiry of
a probe) and the client's answer, with a client that changes its address at any
time and a network that loses and delays. A datagram is its address and the
token it carries; a new token is one not in use anywhere. `PATH_TIMEOUT` is
taken to outlast a round trip, so a probe expires only once its challenge or
response is lost.

### Budget and Limiter

Fixed point, rounding and the order of operations are those of the code. Both
are checked at sizes where rounding bites (a refill that does not divide a
packet, an interval that does not divide the time that passed), and
`ReadyIsExact` and `LimitIsExact` are proved for all sizes. Times in `Budget` are
ages, as only differences matter. `LimitIsExact` compares each bucket with the
log of what it let through, a history.

### Handshake

The attempts of one client, with its retry timer and its timeout, and the
server's answers: `HandleRequest`, `HandleResponse`, the resent acceptance, and
retirement. Nonces are numbers that are never reused, keys are what they are
derived from. A datagram arrives at once, or is held back and counts as lost;
either way copies may arrive at any later time, in a later attempt too. One
consequence is visible in the model: a challenge of an earlier attempt that
arrives in a later one is answered as if it were the later one's, and the
acceptance it leads to does not open under the later attempt's keys. That attempt
can then fail without a loss, so `SurvivesLoss` is about a client's first.

### Shards

Each member of the group is reduced to its slab, sessions and spent tickets.
Requests and responses may reach any member, as a group may run without
steering; a response is refused where another member owns it. Ids are numbers
laid out as in `wire.rs` and `handshake.rs`, at small widths, with slots reused
until the generation wraps and a ticket of a larger group whose session no
member can hold. `Steered` is what the BPF program computes; `OneHome` says that
it sends cookies and packets to the member that holds what they name.

### Timers, Slab, Arena

The first two are shown to implement what they stand for: `Deadlines` has a map
from slots to deadlines, `Table` has items by handle, each with the answers of
its operations as part of its state, and the refinement mapping reads them
through the code's own `deadline`, `iter`, `handle_at` and `contains`. `Arena` is
compared with the messages stored in it, a history.

### Driver

A step of the server's driver as its program counter goes through it, with
datagrams arriving at any point. The endpoint is a choice: a datagram is
answered, touches a connection or is for nobody, a touched connection has a packet
or none. Packets are numbered as they are built and the socket's log is a history.

`Fill` is `Inbox::fill` through the `recv_batch` of either socket. Some datagrams
are consumed and not reported: empty ones, and on Linux those too long for the
buffer or from an address of an unknown family. The portable loop goes on until it
has a batch to report or the kernel has no more. `recvmmsg` takes a batch of
whatever there is, and is called again only when none of a full batch was
reported; so on Linux a count below a batch does not mean that the socket is
empty, which is the fourth finding below. `StepFinishes` allows that case and no
other.

### RunLoop

The thread of a loop is a program counter that goes through the phases of a
step (`receive`, `handle_timeout`, `update`, `transmit`) and of `pause`. The
stopper is a second thread with two steps, the store and the wake. The socket is
a queue in which the portable waker's empty datagrams stand among the others;
the eventfd of the Linux backend is a flag. Time is reduced to whether a deadline
is due, ahead or absent. A mode picks the loop, the backend and whether a
client's application asks for wakes. A client's connector is modelled by its state and its
connection's lifecycle with the unpolled Closed event; the deadline of a server's
step is a choice.

## Runs

| run | question |
|---|---|
| `delivery` | the ledger alone: one outcome per packet, exact counter, watched tail, complete reordering rule, and an early exit of `detect_lost` that leaves nothing overdue behind |
| `link_ordered` | an ordered channel over a hostile network: nothing stranded, lost, repeated or reordered, no acknowledgement of a packet that did not arrive, every id rebuilt as it was sent; implements `Service` |
| `link_kinds` | all four kinds sharing a connection, with a holding queue too small for what is outstanding: each keeps its promise, every loss counted; liveness: the sender does not rest while a message is pending |
| `link_hold_overflow` | finding: equal limits do not keep the holding queue from overflowing |
| `endpoint` | scheduling flags match queues, the session table matches the slab, suspensions have their expiry, one departure per arrival, a ticket is used once, an ended session stays ended, the true reason decides what retirement does |
| `endpoint_closes` | liveness: a connection that begins to close is removed |
| `endpoint_backlog` | finding: a ticket can be used twice when datagrams are read late |
| `connection` | both ends on a clock: acknowledgements neither late nor too often, one end announced, a path that loses one datagram never given up, no spinning |
| `parts` | ten parts, each by itself: see below |
| `driver_unread` | finding: a step can leave datagrams unread without saying so |
| `run_portable_server` | finding: a stop's wake can be swallowed |
| `run_quiet_client` | finding: an orderly close can leave the client loop asleep |

The properties of `parts` are `KeepsDeadlines` (`Timers` implements
`Deadlines`), `KeepsItems` (`Slab` implements `Table`), `Intact` (a stored message
reads back as written, and no block leaks), `ReadyIsExact` (the time `ready_for`
names is the first at which the allowance covers the datagram), `Recovers` (a path
that stops losing gets its rate back), `FollowsClient` (the server comes to send
where the client is), `KeysUsedOnce` and `SurvivesLoss` (handshakes),
`LimitIsExact` (a bucket admits its burst and its rate, no more and no less),
`StepFinishes` (a step sends all it built, and returns at once if it left
datagrams unread, unless Linux skipped some), `OneHome`, and of the run loops
`StopReturns` (a stop ends every loop it is checked for), `CloseEnds` (every kind
of close ends a client loop that has wakes) and `LingerReturns` (`close_client`
returns from every stage of an attempt). In a behaviour of this run one part moves and
the others keep their initial state; a part at rest satisfies its properties.

### Bounds

`delivery` sends five packets through a ring of four, so a packet in flight is
overwritten; a threshold of three lets several packets be judged in one walk,
with different verdicts by count and by time; the clock runs to 2 with delays of
1 and 2 and one doubling of the probe timeout.
The runs of `Link` send three or four packets carrying three to seven messages
over rings of two or four slots: enough for a message to travel in two packets, for
its slot to be reused, for a header to be older than the packets it is applied
to, and for the receive window to move past a packet. The ring needs no power of
two in the model, as it is indexed with `%`. In the run where `NothingLost`
holds, `MaxHeld` is enough for what can wait above a gap while the packets last;
`link_kinds` and `link_hold_overflow` go beyond. `link_ordered` has seven messages,
two to a packet, in a replay window of three packets, and `IdHalf` is the product,
6, so that a late packet is as far behind the reference as the truncation allows.
With 5 a stale id is read as one ahead and the run fails. `link_kinds` owes two packets to a probe, as the
code does: with one, a probe could not be told from a keepalive, which nothing
obliges the timer to send.

`endpoint` has two slots used twice each, two players, two tickets and two
sessions, a clock
to 1 and lifetimes of 0 and 1, a batch and a close notice of 1: a session can be
taken over or suspended, resumed and suspended again, a slot can be reused while
its last handle is queued, a ticket can expire on the instant it is presented,
and a spent one can be forgotten. Slots are interchangeable, so this run uses
their symmetry. `endpoint_closes` has one player, sends two notices and stops
the clock, as its liveness does not depend on it. `RunLoop` keeps three
datagrams in a socket of which a step reads two, so that a step can leave one
unread, with the waker's behind it.

`connection` runs past one idle timeout (10) with a keepalive of 5, a probe base
of 3, an acknowledgement delay of 2, a network delay of 1, two calls of the
applications and one loss: a keepalive can be lost, probed for and answered, both
sides can close at once, and a bare acknowledgement can be waiting out its gap
when a packet arrives out of order.

In `parts`, six timers make a heap of three levels with ties; three slots of the
slab wear out after two uses each; four arena blocks of two units hold messages
that are empty, a part of a block, or several blocks; the budget's refill is not
a whole packet; the client of `Path` moves twice, back or on; a handshake has two
tries and two losses, and a second attempt; two of the limiter's three addresses
share a slot; the driver has five arrivals of either kind where a step reads four, on either
socket, and more to send than its outbox of two; the group is two members of four that their bits
could name, so an id can name a member that does not exist.

Deadlock is checked in every run but two: in `Delivery`, `Link` and `Endpoint` a
timeout pass is always possible, so no bound ends a behaviour early, and a loop
that has returned is an explicit step of `RunLoop`. In `connection` and `parts` the
bounds on clock, attempts and steps do end behaviours.

### Fairness

`FairSpec` of `Link` asks for weak fairness of two things. `Transmit`: a driver
polls for a packet after every step and wakes at `next_timeout`, which names the
time the budget allows the next message. `Timeout` with a probe owed: the driver
wakes at the ledger's deadline, and no acknowledgement arriving makes it due.
The network and the application owe nothing. `Drains` says that under this the
sender comes to rest only with an empty queue or with the model's sequence
numbers used up.

`FairSpec` of `Endpoint` asks for weak fairness of `Timeout` and of
`DrainTransmits`: a driver steps at once while `next_timeout` is zero, which it is
while anything is queued to transmit or to retire, and every step runs a timeout
pass and drains. `FairSpec` of `RunLoop` asks that the loop's thread runs (so a
sleep with a limit ends) and that the linger passes; no datagram and no call of
`stop` is promised.

In `parts` fairness is the antecedent of the properties that need it, so that it
binds one part only. `Recovers` assumes that time passes and that the
connection goes on sending, which its keepalives do. `FollowsClient` assumes that
both ends go on sending, that the timeout of a probe comes, that nothing stays in
the network for ever, and that the network does not lose the same thing every
time (strong fairness of receiving a datagram from the client's address, a
challenge and its response). Without the last no protocol could follow a client.

## Findings

* **Holding queue** (`link_hold_overflow`). `channel.rs:393` drops an ordered
  message when the holding queue is full and the packet is acknowledged all the
  same. The comment calls this unreachable with equal limits on both sides, as
  the peer cannot have that many messages outstanding. But the limit counts
  unacknowledged messages, not the distance between ids: with one message
  missing, the ones above it are acknowledged, leave the queue, and make room
  for further ones above the same gap. The dropped message is never sent again
  and the channel stops delivering.
* **Spent tickets** (`endpoint_backlog`). `forget_expired_tickets` goes by the
  clock of the step, `check_ticket` by the arrival of the datagram. When a step
  leaves datagrams unread, a repeated response that arrived before the ticket's
  expiry is read after the ticket was forgotten, and is accepted again. With
  every arrival no older than the last timeout pass, `TicketOnce` holds
  (`endpoint`).
* **Lost stop** (`run_portable_server`). The portable waker's datagram is consumed
  by the receive of a step that began before the flag went up; `run_server`
  does not look at the flag between that step and the wait after it.
  `run_client`, which does, is not affected, nor is the eventfd.
* **Unread datagrams** (`driver_unread`). `receive` takes a batch smaller than
  `RECV_BATCH` for the last one and returns that nothing is left
  (`driver.rs:296`). The Linux socket skips datagrams inside a batch and reports
  the rest, so one skipped datagram in a full batch ends the reading with others
  left in the kernel, and the step returns the endpoint's deadline where the
  comment on `step` promises an immediate one. The loops of `run.rs` make up
  for it after at most a step interval, as they then wait on a socket that is
  still readable; a caller that goes by the deadline alone does not. The portable socket is not affected.
* **Unnoticed close** (`run_quiet_client`). The last close notice moves a
  connection to Closed inside `poll_transmit`, after the step polled its events.
  The connector still reports Connected and has no deadline, so `run_client`
  sleeps without limit unless the application asks for wakes or a datagram
  arrives. `close_client` waits out its linger instead.

Four further observations have no run of their own:

* `channel.rs:239` treats an unordered id older than the duplicate window as
  seen. By the argument of the first finding an id can leave the window before
  its first arrival.
* A stale challenge can spoil a later attempt to connect (see Handshake).
* The windowed minimum of `ack.rs` is replaced when a sample arrives, so after a
  silence the old minimum outlives its window until the next one.
* `with_server_key` in `shard.rs` says resume tickets stay valid across a restart
  of the whole group. They open, but sessions are kept in memory only, so
  `check_ticket` finds no session for them.

## Proofs

`DeliveryProofs` begins with facts about the operators of `Ledger`: what inserting,
confirming and condemning do to the flight and to well-placedness, and that
`AdvanceOldest` never passes a packet in flight. It proves, for every ring size,
threshold, number of acknowledgement bits, bound, skew and set of delays:

* `TypeCorrect`: `Spec => []TypeOK`;
* `NoUnwatchedTail`: `Spec => []TailWatched`;
* `EachResolvesOnce`: `Spec => []ResolvedOnce`;
* `CounterExact`: `Spec => []FlightCounted`;
* `CountRuleComplete`: `Spec => []CountRule`.

All follow from `Invariance`, `Spec => []IInv`, with

    IInv == TypeOK /\ Consistent /\ TailWatched /\ ResolvedOnce /\ CountRule /\ FlightCounted

None of the five is inductive alone. `ResolvedOnce` needs to know that a slot's
state agrees with what was reported of its packet, or a second acknowledgement
of an overwritten packet could repeat a report; `CountRule` needs the cursor of
`TailWatched`, or the walk could start above a packet it should judge;
`FlightCounted` needs slots to hold distinct packets. `Consistent` states these
agreements. The induction step
has one lemma per action; the three actions that resolve packets share
`ResolutionStep` and `TailStep`.

The assumptions are those of the two modules: `N` and `ReorderThreshold`
positive, the bounds natural, `Delays` a nonempty set of positive numbers.

The other theorems assume `Admissible`, which each proof module defines: what the
configuration's constructors and assertions guarantee of the constants.

* `BudgetProofs`, `ReadyAlwaysExact`: `Spec => []ReadyIsExact`, when a tick at the
  minimum rate earns at least one unit of the fixed point. The invariant bounds
  the rate by the minimum and the configured one: every tick then earns
  something, and the capacity is never below a packet, so a ready time exists.
  The rounding is in lemmas of its own on what `div` and `div_ceil` compute.
* `LimiterProofs`, `LimiterExact`: `Spec => []LimitIsExact`, for positive bursts and
  intervals and any table of slots. A bucket accounts for what it let through in
  both directions: from any time on at most its burst and the refills since, and
  from the last time it was full all of them less the tokens it has left. Only
  with the second can a refusal be shown to be due.
* `ConnectionProofs`, `AnnouncedOnce` and `AcksInTime`: `EndsOnce` and
  `AckWithinDelay`, for any configuration. The schedule is tied to the arrivals it
  is for: something is owed exactly while an arrival is in no header, it is held
  from the first of them, and the gap after a bare acknowledgement began before
  any of them. The clock does not pass a deadline, so none is late.
* `HandshakeProofs`, `KeysNeverRepeat`: `Spec => []KeysUsedOnce`. The client's nonce
  carries it: each attempt has its own, keys contain it, and an attempt that made
  a connection makes no other. Nothing is asked of the server or the tickets.
* `ShardsProofs`, `GroupAgrees`: `Spec => []OneHome`, for every size of group that
  fits its bits. A ticket's home never changes and only its home redeems it, and
  a member creates no session or connection whose low bits are not its own. That
  powers of two multiply is part of `Admissible`, as it takes an induction.

## Only model-checked

Liveness (`Drains`, `ClosesComplete`, `StopReturns`, `CloseEnds`, `LingerReturns`,
`Recovers`, `FollowsClient`) is outside what the prover handles. The refinements of
`Timers`, `Slab` and `Link`, and `Intact`, rest on sift loops, chains and queues of
any length, which take induction over data. `StopsAtTheRightPacket` needs send
times to be ordered along the ring. `NoFalseTimeout` depends on the numbers of the
configuration. The invariants of `Link` and `Endpoint`, `ComesToRest`,
`BareAcksSpaced`, `SurvivesLoss` and `StepFinishes` have no proof yet.

## Not modelled

* Bit codecs and wire formats, beyond the ids in `Shards` and the sequence numbers
  in `SeqNum`: pure functions over bit positions with round-trip tests.
* Cryptography: sealing is perfect, and a packet authenticates or does not exist.
* The arithmetic of the round-trip estimator and its windowed minima: the ledger
  and the budget are checked against every outcome instead.
* Exhaustion of 64-bit sequences and of 32-bit message ids.
* Migrated events: they are pushed where `Path` sets `addr`, and read by nobody
  but the application.
* Socket errors, which end a loop, send batches the kernel takes in part,
  addresses and kernel timestamps. `shutdown_server` has the shape of `close_client`, which is
  modelled, and the outbox of `ClientDriver` that of `ServerDriver`.
* `RingQueue`, which overwrites its oldest event when full.
* A restart: nothing is persisted, so a restarted server is a new one.
* Time arithmetic, configuration and counters, which appear as constants.
* The simulator and the benchmark: what the simulator's network does at random,
  the network of `Link` does in every order.
