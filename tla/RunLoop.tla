------------------------------- MODULE RunLoop ------------------------------
(***************************************************************************)
(* The loops of run.rs around a driver's step, the socket they sleep on,   *)
(* and the thread that asks them to stop.                                  *)
(*                                                                         *)
(* A mode says which function runs: run_server, run_client or close_client *)
(* (shutdown_server has the shape of close_client); which socket it waits  *)
(* on: the portable one, whose waker is an empty datagram, or the Linux    *)
(* one, whose waker is an eventfd; and what a client's application answers *)
(* to next_wake.  A client's connector is modelled by its state and its    *)
(* connection's lifecycle; of a server's endpoint and application only the *)
(* deadline the step returns is left, and it is a choice.  Time is reduced *)
(* to whether a deadline is due, lies ahead, or does not exist; one that   *)
(* lies ahead may come at any moment.                                      *)
(***************************************************************************)
EXTENDS Naturals, Sequences

CONSTANTS
    Modes,      \* what runs: a loop ("server", "client" or "close"), a backend
                \* ("portable" or "linux") and wakes ("none" or "later")
    CloseSends, \* CLOSE_SENDS
    RecvLimit,  \* datagrams one step reads: RECV_ROUNDS * RECV_BATCH
    MaxQueue    \* bound: datagrams waiting in the socket

Deadlines == {"due", "later", "none"}

VARIABLES
    mode,      \* which of Modes this is
    pc,        \* where the loop is
    queue,     \* the socket: datagrams, and the portable waker's empty ones
    event,     \* the Linux waker's eventfd is readable
    taken,     \* datagrams this step has read
    state,     \* Connector::state
    life,      \* the connection's lifecycle
    left,      \* close notices still to send
    told,      \* the connection holds a Closed event nobody has polled
    deadline,  \* what the step returned
    requested, \* the stop flag
    stopping,  \* what Stopper::stop has still to do
    give_up    \* close_client's linger has passed

vars == <<mode, pc, queue, event, taken, state, life, left, told, deadline,
          requested, stopping, give_up>>

connector == <<state, life, left, told>>
socket == <<queue, event>>
stopper == <<requested, stopping>>

-----------------------------------------------------------------------------
(* The connector, as far as the loop sees it.                              *)

\* A connection and what polling its events makes of the connector's state.
Drained(l, n, t) ==
    /\ life' = l
    /\ left' = n
    /\ told' = FALSE
    /\ state' = IF t THEN "Closed" ELSE state

\* handle_datagram: a challenge, an acceptance, traffic, a close from the
\* peer, or nothing of use.  The first packet of a connection may carry the
\* close; its event is left for the next poll.
HandleDatagram ==
    \/ UNCHANGED connector
    \/ /\ state = "Requesting"
       /\ state' = "Responding"
       /\ UNCHANGED <<life, left, told>>
    \/ /\ state = "Responding"
       /\ state' = "Connected"
       /\ \/ life' = "Open" /\ told' = FALSE
          \/ life' = "Closed" /\ told' = TRUE
       /\ UNCHANGED left
    \/ /\ state = "Connected" /\ life \in {"Open", "Closing"}
       /\ \/ Drained("Closed", left, TRUE)
          \/ life = "Open" /\ Drained("Closing", CloseSends, told)

\* Mutant: the events are not polled.
HandleTimeoutNoDrain ==
    \/ /\ state \in {"Requesting", "Responding"}
       /\ state' \in {state, "Failed"}
       /\ UNCHANGED <<life, left, told>>
    \/ /\ state = "Connected"
       /\ UNCHANGED connector
    \/ /\ state \in {"Failed", "Closed"}
       /\ UNCHANGED connector

\* handle_timeout: the attempt or the connection may have run out of time.
HandleTimeout ==
    \/ /\ state \in {"Requesting", "Responding"}
       /\ state' \in {state, "Failed"}
       /\ UNCHANGED <<life, left, told>>
    \/ /\ state = "Connected"
       /\ \/ Drained(life, left, told)
          \/ life # "Closed" /\ Drained("Closed", left, TRUE)
    \/ /\ state \in {"Failed", "Closed"}
       /\ UNCHANGED connector

\* Connector::close.
Close ==
    /\ IF life = "Open" THEN life' = "Closing" /\ left' = CloseSends
       ELSE UNCHANGED <<life, left>>
    /\ UNCHANGED <<state, told>>

\* app.update: the application may close the connection.
Update == Close \/ UNCHANGED connector

\* poll_transmit: a closing connection sends its notice and counts down; the
\* last one closes it.  Nothing polls the event it raises then.
PollTransmit ==
    IF state = "Connected" /\ life = "Closing"
    THEN /\ left' = left - 1
         /\ life' = IF left <= 1 THEN "Closed" ELSE "Closing"
         /\ told' = (told \/ left <= 1)
         /\ UNCHANGED state
    ELSE UNCHANGED connector

\* Connector::next_timeout; a closing connection has its next notice due.
NextTimeout ==
    CASE state \in {"Requesting", "Responding"} -> {"due", "later"}
      [] state = "Connected" /\ life = "Open" -> {"due", "later"}
      [] state = "Connected" /\ life = "Closing" -> {"due"}
      [] OTHER -> {"none"}

Earliest(a, b) ==
    IF "due" \in {a, b} THEN "due" ELSE IF "later" \in {a, b} THEN "later"
    ELSE "none"

Ended == state \in {"Failed", "Closed"}

-----------------------------------------------------------------------------
(* The environment: the peer's datagrams, the linger, and the stopper.     *)

Arrive ==
    /\ Len(queue) < MaxQueue
    /\ queue' = Append(queue, "data")
    /\ UNCHANGED <<mode, pc, event, taken, deadline, give_up, stopper, connector>>

LingerPasses ==
    /\ mode.loop = "close"
    /\ give_up' = TRUE
    /\ UNCHANGED <<mode, pc, socket, taken, deadline, stopper, connector>>

\* Stopper::stop: raise the flag, then wake the socket.
Stop == <<"store", "wake">>

\* Wake: the portable waker sends an empty datagram, the Linux one makes its
\* eventfd readable.
WakeUp ==
    IF mode.backend = "portable" THEN queue' = Append(queue, "wake") /\ UNCHANGED event
    ELSE event' = TRUE /\ UNCHANGED queue

StopStep ==
    /\ stopping # << >>
    /\ stopping' = Tail(stopping)
    /\ IF Head(stopping) = "store"
       THEN requested' = TRUE /\ UNCHANGED socket
       ELSE WakeUp /\ UNCHANGED requested
    /\ UNCHANGED <<mode, pc, taken, deadline, give_up, connector>>

-----------------------------------------------------------------------------
(* The loop.                                                               *)

\* run_server looks at the flag before each step; the other loops start one
\* at once.
Top ==
    /\ pc = "top"
    /\ pc' = IF mode.loop = "server" /\ requested THEN "returned" ELSE "receive"
    /\ taken' = 0
    /\ UNCHANGED <<mode, socket, deadline, give_up, stopper, connector>>

\* recv_batch and handle_datagram, for one datagram.  An empty one is read
\* and forgotten.
ReceiveOne ==
    /\ pc = "receive"
    /\ queue # << >> /\ taken < RecvLimit
    /\ queue' = Tail(queue)
    /\ IF Head(queue) = "wake" THEN UNCHANGED <<taken, connector>>
       ELSE /\ taken' = taken + 1
            /\ IF mode.loop = "server" THEN UNCHANGED connector ELSE HandleDatagram
    /\ UNCHANGED <<mode, pc, event, deadline, give_up, stopper>>

\* receive ends at an empty socket or after its last round.
ReceiveDone ==
    /\ pc = "receive"
    /\ queue = << >> \/ taken = RecvLimit
    /\ pc' = "timeout"
    /\ UNCHANGED <<mode, socket, taken, deadline, give_up, stopper, connector>>

\* The rest of a step, in its order.
StepTimeout ==
    /\ pc = "timeout"
    /\ pc' = "update"
    /\ IF mode.loop = "server" THEN UNCHANGED connector ELSE HandleTimeout
    /\ UNCHANGED <<mode, socket, taken, deadline, give_up, stopper>>

StepUpdate ==
    /\ pc = "update"
    /\ pc' = "transmit"
    /\ IF mode.loop = "server" THEN UNCHANGED connector ELSE Update
    /\ UNCHANGED <<mode, socket, taken, deadline, give_up, stopper>>

\* Sends, and answers when to call again: the transport's deadline or the
\* application's, or at once if datagrams were left unread.
StepTransmit ==
    /\ pc = "transmit"
    /\ pc' = "judge"
    /\ IF mode.loop = "server" THEN UNCHANGED connector ELSE PollTransmit
    /\ \E timeout \in IF mode.loop = "server" THEN Deadlines ELSE NextTimeout' :
          deadline' = IF taken = RecvLimit THEN "due"
                      ELSE Earliest(timeout, mode.wakes)
    /\ UNCHANGED <<mode, socket, taken, give_up, stopper>>

\* Mutant: the linger does not bound the sleep.
JudgeUncapped ==
    /\ pc = "judge"
    /\ pc' = IF \/ mode.loop = "client" /\ (Ended \/ requested)
                \/ mode.loop = "close" /\ (Ended \/ give_up)
             THEN "returned" ELSE "pause"
    /\ UNCHANGED <<mode, socket, taken, deadline, give_up, stopper, connector>>

\* What each loop looks at after a step.  close_client also never sleeps
\* past its linger.
Judge ==
    /\ pc = "judge"
    /\ pc' = IF \/ mode.loop = "client" /\ (Ended \/ requested)
                \/ mode.loop = "close" /\ (Ended \/ give_up)
             THEN "returned" ELSE "pause"
    /\ deadline' = IF mode.loop = "close" THEN Earliest(deadline, "later") ELSE deadline
    /\ UNCHANGED <<mode, socket, taken, give_up, stopper, connector>>

\* pause: not at all for a deadline already due; a server that has not used up
\* its step interval parks first.
Pause ==
    /\ pc = "pause"
    /\ \/ deadline # "none" /\ pc' = "top"
       \/ deadline # "due" /\ pc' = "wait"
       \/ deadline # "due" /\ mode.loop = "server" /\ pc' = "park"
    /\ UNCHANGED <<mode, socket, taken, deadline, give_up, stopper, connector>>

\* Mutant: the wake is consumed and the wait goes on.
ParkDeaf ==
    /\ pc = "park"
    /\ event' = FALSE
    /\ \/ pc' = "wait"
       \/ deadline = "later" /\ pc' = "top"
    /\ UNCHANGED <<mode, queue, taken, deadline, give_up, stopper, connector>>

\* park: only the Linux waker ends one early, and is consumed.
Park ==
    /\ pc = "park"
    /\ \/ event /\ event' = FALSE /\ pc' = "top"
       \/ UNCHANGED event /\ pc' = "wait"
       \/ UNCHANGED event /\ deadline = "later" /\ pc' = "top"
    /\ UNCHANGED <<mode, queue, taken, deadline, give_up, stopper, connector>>

\* wait: until something may be readable, or the deadline.  The Linux one
\* consumes the wake that ended it.
Wait ==
    /\ pc = "wait"
    /\ queue # << >> \/ event \/ deadline = "later"
    /\ pc' = "top"
    /\ event' = FALSE
    /\ UNCHANGED <<mode, queue, taken, deadline, give_up, stopper, connector>>

Returned == pc = "returned" /\ UNCHANGED vars

-----------------------------------------------------------------------------

\* close_client begins with a close, at whatever point the attempt is.
Init ==
    /\ mode \in Modes
    /\ pc = "top"
    /\ queue = << >>
    /\ event = FALSE
    /\ taken = 0
    /\ IF mode.loop = "close"
       THEN \/ /\ state \in {"Requesting", "Responding"}
               /\ life = "None" /\ left = 0 /\ told = FALSE
            \/ /\ state = "Connected"
               /\ life = "Closing" /\ left = CloseSends /\ told = FALSE
       ELSE state = "Requesting" /\ life = "None" /\ left = 0 /\ told = FALSE
    /\ deadline = "due"
    /\ requested = FALSE
    /\ stopping = IF mode.loop = "close" THEN << >> ELSE Stop
    /\ give_up = FALSE

LoopStep ==
    \/ Top
    \/ ReceiveOne
    \/ ReceiveDone
    \/ StepTimeout
    \/ StepUpdate
    \/ StepTransmit
    \/ Judge
    \/ Pause
    \/ Park
    \/ Wait

Next ==
    \/ LoopStep
    \/ Arrive
    \/ LingerPasses
    \/ StopStep
    \/ Returned

Spec == Init /\ [][Next]_vars

\* The thread of the loop runs, a sleep with a limit ends, and time passes.
\* Nobody promises a datagram, or that stop is called.
Fairness == WF_vars(LoopStep) /\ WF_vars(LingerPasses)

FairSpec == Spec /\ Fairness

-----------------------------------------------------------------------------
(* Properties                                                              *)

\* "The loop returns after the step in progress, or at once if it is
\* waiting": once stop() has returned, the loop never sleeps on a socket with
\* nothing to wake it.
StopHeeded ==
    mode.loop # "close" /\ stopping = << >> /\ pc = "wait" => queue # << >> \/ event

\* A stopped loop returns, even one that has no deadline to wait for.
StopReturns == (mode.loop # "close" /\ stopping = << >>) ~> (pc = "returned")

\* "Runs a client until ... its connection closes": once the connection has
\* closed, by the peer's notice, the idle timeout, or the last of its own
\* notices, the loop returns.
CloseEnds == (mode.loop = "client" /\ life = "Closed") ~> (pc = "returned")

\* "keeps stepping until it has closed or `linger` has passed": close_client
\* always returns, though the last notice leaves it without a deadline.
LingerReturns == (mode.loop = "close") ~> (pc = "returned")

=============================================================================
