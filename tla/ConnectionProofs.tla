-------------------------- MODULE ConnectionProofs --------------------------
(***************************************************************************)
(* An end is announced once and an acknowledgement is in time, for any     *)
(* configuration, any losses and any calls.                                *)
(*                                                                         *)
(* For the second the schedule has to be tied to the arrivals it is for:   *)
(* something is owed exactly while an arrival is untold, a held one is     *)
(* held from the first of them, and the gap after a bare acknowledgement   *)
(* began before any of them.  Then the deadline is in time, and the clock  *)
(* does not pass a deadline.                                               *)
(***************************************************************************)
EXTENDS Connection, TLAPS

Admissible == AckDelay \in Nat

\* The fields of a Connection.
Names ==
    {"life", "remaining", "ends", "owed", "since", "alone_after", "control",
     "message", "number", "ready", "pending_probes", "last_received",
     "last_eliciting", "flight", "largest_acked", "backoff", "sent", "newest",
     "acked", "untold"}

Fields(c) == c = [x \in Names |-> c[x]]

\* c differs from b in nothing the two properties are about.
Same(c, b) ==
    /\ Fields(c)
    /\ c.life = b.life /\ c.ends = b.ends
    /\ c.owed = b.owed /\ c.since = b.since
    /\ c.alone_after = b.alone_after /\ c.untold = b.untold

Reasons == {"Own", "Told", "TimedOut"}

\* The Closed events pushed.
Announced(c) ==
    /\ c.ends \in Seq(Reasons)
    /\ Len(c.ends) = IF c.life = "Closed" THEN 1 ELSE 0

\* The schedule and the arrivals it is for.
Scheduled(c) ==
    /\ c.owed \in {"Nothing", "AtOnce", "Held"}
    /\ c.owed = "Nothing" <=> c.untold = {}
    /\ c.since \in Nat
    /\ c.alone_after \in Nat
    /\ c.alone_after <= now + AckDelay
    /\ c.untold \subseteq 0..now
    /\ \A t \in c.untold :
          /\ c.alone_after <= t + AckDelay
          /\ c.owed = "Held" => c.since <= t

\* An arrival is told in time, unless the connection has ended.
InTime(c) ==
    c.life # "Closed" => \A t \in c.untold : now <= t + AckDelay

Good(c) == Fields(c) /\ Announced(c) /\ Scheduled(c) /\ InTime(c)

\* The inductive invariant.
IInv ==
    /\ now \in Nat
    /\ conn = [p \in Peers |-> conn[p]]
    /\ \A p \in Peers : Good(conn[p])

-----------------------------------------------------------------------------
(* Handlers that leave both alone.                                         *)

\* What differs in nothing relevant is as good.
LEMMA SameIsGood == ASSUME NEW b, NEW c, Good(b), Same(c, b) PROVE Good(c)
  BY DEF Good, Same, Announced, Scheduled, InTime

\* detect_lost and what it does to the flight.
LEMMA DetectLostSame == ASSUME NEW c, Fields(c) PROVE Same(DetectLost(c), c)
  <1>1. ASSUME NEW lost PROVE Same(Lose(c, lost), c)
      BY DEF Lose, Same, Fields, Names
  <1> QED
      BY <1>1 DEF DetectLost

\* handle_ack.
LEMMA HandleAckSame ==
    ASSUME NEW c, Fields(c), NEW acks PROVE Same(HandleAck(c, acks), c)
  <1> DEFINE fresh == {f \in c.flight : f.seq \in acks}
             told == [c EXCEPT
                         !.flight = @ \ fresh,
                         !.message = IF \E f \in fresh : Holds(c, f)
                                     THEN "None" ELSE @,
                         !.largest_acked = Larger(@, Max(acks)),
                         !.backoff = IF fresh = {} THEN @ ELSE 0]
  <1>1. Same(told, c)
      <2> HIDE DEF fresh
      <2> QED
          BY DEF Same, Fields, Names
  <1>2. Same(DetectLost(told), told)
      <2> HIDE DEF told
      <2>1. Fields(told)
          BY <1>1 DEF Same
      <2> QED
          BY <2>1, DetectLostSame
  <1>3. Same(DetectLost(told), c) /\ Same(c, c)
      <2> HIDE DEF told
      <2> QED
          BY <1>1, <1>2 DEF Same
  <1>4. HandleAck(c, acks) = IF acks = {} THEN c ELSE DetectLost(told)
      BY DEF HandleAck
  <1> HIDE DEF told
  <1> QED
      BY <1>3, <1>4

\* The timers but the idle one.
LEMMA TimersSame ==
    ASSUME NEW c, Fields(c) PROVE Same(KeepAlive(ProbeTail(DetectLost(c))), c)
  <1>1. ASSUME NEW b, Fields(b) PROVE Same(ProbeTail(b), b)
      BY <1>1 DEF ProbeTail, Same, Fields, Names
  <1>2. ASSUME NEW b, Fields(b) PROVE Same(KeepAlive(b), b)
      BY <1>2 DEF KeepAlive, Same, Fields, Names
  <1>3. Same(DetectLost(c), c)
      BY DetectLostSame
  <1>4. Same(ProbeTail(DetectLost(c)), DetectLost(c))
      BY <1>1, <1>3 DEF Same
  <1>5. Same(KeepAlive(ProbeTail(DetectLost(c))), ProbeTail(DetectLost(c)))
      BY <1>2, <1>4 DEF Same
  <1> QED
      BY <1>3, <1>4, <1>5 DEF Same

-----------------------------------------------------------------------------
(* Handlers that do not.                                                   *)

\* A live connection ends.
LEMMA EndIsGood ==
    ASSUME NEW c, Good(c), c.life # "Closed", NEW reason \in Reasons
    PROVE  Good(End(c, reason))
  <1> DEFINE e == End(c, reason)
  <1>1. Fields(e)
      BY DEF Good, Fields, Names, End
  <1>2. /\ e.life = "Closed" /\ e.ends = Append(c.ends, reason)
        /\ e.owed = c.owed /\ e.since = c.since
        /\ e.alone_after = c.alone_after /\ e.untold = c.untold
      BY DEF Good, Fields, Names, End
  <1>3. c.ends \in Seq(Reasons) /\ Len(c.ends) = 0
      BY DEF Good, Announced
  <1>4. Append(c.ends, reason) \in Seq(Reasons)
        /\ Len(Append(c.ends, reason)) = 1
      BY <1>3
  <1> HIDE DEF e
  <1>5. Announced(e)
      BY <1>2, <1>4 DEF Announced
  <1>6. Scheduled(e) /\ InTime(e)
      BY <1>2 DEF Good, Scheduled, InTime
  <1> QED
      BY <1>1, <1>5, <1>6 DEF Good, e

\* record_eliciting: one more arrival is untold.
LEMMA RecordIsGood ==
    ASSUME Admissible, now \in Nat, NEW c, Good(c), NEW d
    PROVE  Good(RecordEliciting(c, d))
  <1> DEFINE in_order == c.newest = 0 \/ d.seq = c.newest + 1
             e == RecordEliciting(c, d)
             r == Record(c, in_order)
  <1>1. /\ Fields(r)
        /\ r.life = c.life /\ r.ends = c.ends
        /\ r.alone_after = c.alone_after /\ r.untold = c.untold
        /\ r.owed = IF ~in_order \/ c.owed = "AtOnce" THEN "AtOnce" ELSE "Held"
        /\ r.since = IF c.owed = "Nothing" /\ in_order THEN now ELSE c.since
      <2> HIDE DEF in_order
      <2> QED
          BY DEF Good, Fields, Names, Record
  <1>a. e = [r EXCEPT !.acked = @ \cup {d.seq}, !.untold = @ \cup {now}]
      BY DEF RecordEliciting
  <1>2. /\ Fields(e)
        /\ e.life = c.life /\ e.ends = c.ends
        /\ e.alone_after = c.alone_after
        /\ e.untold = c.untold \cup {now}
        /\ e.owed = IF ~in_order \/ c.owed = "AtOnce" THEN "AtOnce" ELSE "Held"
        /\ e.since = IF c.owed = "Nothing" /\ in_order THEN now ELSE c.since
      <2> HIDE DEF e, r, in_order
      <2> QED
          BY <1>1, <1>a DEF Fields, Names
  <1> HIDE DEF e, in_order
  <1>3. Announced(e)
      BY <1>2 DEF Good, Announced
  <1>4. Scheduled(e)
      BY <1>2 DEF Good, Scheduled, Admissible
  <1>5. InTime(e)
      BY <1>2 DEF Good, InTime, Admissible
  <1> QED
      BY <1>2, <1>3, <1>4, <1>5 DEF Good, e

\* Acks::sent: nothing is untold.
LEMMA AcksSentIsGood ==
    ASSUME Admissible, now \in Nat, NEW c, Good(c), NEW eliciting
    PROVE  Good(AcksSent(c, eliciting)) /\ AcksSent(c, eliciting).life = c.life
  <1> DEFINE e == AcksSent(c, eliciting)
  <1>1. /\ Fields(e)
        /\ e.life = c.life /\ e.ends = c.ends
        /\ e.owed = "Nothing" /\ e.since = c.since /\ e.untold = {}
        /\ e.alone_after = IF eliciting THEN c.alone_after ELSE now + AckDelay
      BY DEF Good, Fields, Names, AcksSent
  <1> HIDE DEF e
  <1> QED
      BY <1>1 DEF Good, Announced, Scheduled, InTime, Admissible, e

\* handle_datagram.
LEMMA HandleDatagramIsGood ==
    ASSUME Admissible, now \in Nat, NEW c, Good(c), c.life # "Closed", NEW d
    PROVE  Good(HandleDatagram(c, d))
  <1> DEFINE timed == [c EXCEPT !.last_received = now]
             heard == HandleAck(timed, d.acks)
             read == IF d.close THEN End(heard, "Told") ELSE heard
             recorded == IF d.eliciting THEN RecordEliciting(read, d) ELSE read
             final == [recorded EXCEPT !.newest = Larger(@, d.seq)]
  <1>1. Same(timed, c)
      BY DEF Good, Same, Fields, Names
  <1>2. Good(timed) /\ timed.life # "Closed"
      BY <1>1, SameIsGood DEF Same
  <1>3. Good(heard) /\ heard.life # "Closed"
      <2> HIDE DEF timed
      <2>1. Same(heard, timed)
          BY <1>2, HandleAckSame DEF Good
      <2> QED
          BY <1>2, <2>1, SameIsGood DEF Same
  <1>4. Good(read)
      <2> HIDE DEF heard
      <2> QED
          BY <1>3, EndIsGood DEF Reasons
  <1>5. Good(recorded)
      <2> HIDE DEF read
      <2> QED
          BY <1>4, RecordIsGood
  <1>6. Good(final)
      <2> HIDE DEF recorded
      <2>1. Same(final, recorded)
          BY <1>5 DEF Good, Same, Fields, Names
      <2> QED
          BY <1>5, <2>1, SameIsGood
  <1> QED
      BY <1>6 DEF HandleDatagram

\* handle_timeout.
LEMMA HandleTimeoutIsGood ==
    ASSUME NEW c, Good(c), c.life # "Closed" PROVE Good(HandleTimeout(c))
  <1>1. Good(End(c, "TimedOut"))
      BY EndIsGood DEF Reasons
  <1>2. Good(KeepAlive(ProbeTail(DetectLost(c))))
      BY TimersSame, SameIsGood DEF Good
  <1> QED
      BY <1>1, <1>2 DEF HandleTimeout

\* poll_transmit's packet is sealed, and a closing connection may end.
LEMMA SentIsGood ==
    ASSUME Admissible, now \in Nat, NEW c, Good(c), NEW d
    PROVE  Good(Sent(c, d))
  <1> DEFINE probes == IF c.pending_probes > 0 THEN c.pending_probes - 1 ELSE 0
             message == IF d.carries > 0 THEN "Flying" ELSE c.message
             flight == IF d.eliciting
                       THEN c.flight \cup {[seq |-> d.seq, at |-> now,
                                            carries |-> d.carries]}
                       ELSE c.flight
             last == IF d.eliciting THEN now ELSE c.last_eliciting
             out == [c EXCEPT !.sent = d.seq, !.control = FALSE,
                              !.pending_probes = probes,
                              !.message = message, !.flight = flight,
                              !.last_eliciting = last]
             told == AcksSent(out, d.eliciting)
  <1>0. Sent(c, d) = Countdown(told)
      BY DEF Sent
  <1>1. Same(out, c)
      <2> HIDE DEF probes, message, flight, last
      <2> QED
          BY DEF Good, Same, Fields, Names
  <1>2. Good(told)
      <2> HIDE DEF out
      <2> QED
          BY <1>1, SameIsGood, AcksSentIsGood
  <1>3. Good(Countdown(told))
      <2> HIDE DEF told
      <2>1. Same([told EXCEPT !.remaining = @ - 1], told)
          BY <1>2 DEF Good, Same, Fields, Names
      <2>2. Good([told EXCEPT !.remaining = @ - 1])
          BY <1>2, <2>1, SameIsGood
      <2>3. told.life = "Closing" => Good(End(told, "Own"))
          BY <1>2, EndIsGood DEF Reasons
      <2> QED
          BY <1>2, <2>2, <2>3 DEF Countdown
  <1> QED
      BY <1>0, <1>3

\* The application's update.
LEMMA UpdatesAreGood ==
    ASSUME NEW c, Good(c), NEW u \in Updates(c) PROVE Good(u)
  <1>1. CASE u = c
      BY <1>1
  <1>2. CASE u = [c EXCEPT !.life = "Closing", !.remaining = CloseSends]
             /\ c.life = "Open"
      <2>1. /\ Fields(u) /\ u.life = "Closing" /\ u.ends = c.ends
            /\ u.owed = c.owed /\ u.since = c.since
            /\ u.alone_after = c.alone_after /\ u.untold = c.untold
          BY <1>2 DEF Good, Fields, Names
      <2> QED
          BY <1>2, <2>1 DEF Good, Announced, Scheduled, InTime
  <1>3. CASE u = [c EXCEPT !.control = TRUE]
      <2>1. Same(u, c)
          BY <1>3 DEF Good, Same, Fields, Names
      <2> QED
          BY <2>1, SameIsGood
  <1>4. CASE u = [c EXCEPT !.message = "Unsent", !.number = calls + 1,
                           !.ready = now + Wait]
      <2>1. Same(u, c)
          BY <1>4 DEF Good, Same, Fields, Names
      <2> QED
          BY <2>1, SameIsGood
  <1> QED
      BY <1>1, <1>2, <1>3, <1>4 DEF Updates

-----------------------------------------------------------------------------
(* The steps of the system.                                                *)

\* One connection changes, for another that is good.
LEMMA OneKeeps ==
    ASSUME IInv, now' = now, NEW p, NEW c, Becomes(p, c),
           p \in Peers => Good(c)
    PROVE  IInv'
  <1>1. conn' = [q \in Peers |-> conn'[q]]
      BY DEF IInv, Becomes
  <1>2. ASSUME NEW q \in Peers PROVE conn'[q] = IF q = p THEN c ELSE conn[q]
      BY DEF IInv, Becomes
  <1>3. ASSUME NEW q \in Peers PROVE Good(conn[q])'
      <2>1. Good(conn'[q])
          BY <1>2 DEF IInv
      <2> QED
          BY <2>1 DEF Good, Fields, Announced, Scheduled, InTime
  <1> QED
      BY <1>1, <1>3 DEF IInv

\* A driver's step.
LEMMA StepKeeps ==
    ASSUME Admissible, IInv, NEW p \in Peers, Step(p) PROVE IInv'
  <1> DEFINE timed == IF conn[p].life = "Closed" THEN conn[p]
                      ELSE HandleTimeout(conn[p])
  <1>1. Good(timed)
      BY HandleTimeoutIsGood DEF IInv
  <1>2. PICK u \in Updates(timed) : PollTransmit(p, u)
      BY DEF Step
  <1> HIDE DEF timed
  <1>3. Good(u)
      BY <1>1, UpdatesAreGood
  <1>4. Good(Requeue(u))
      <2>1. Same(Requeue(u), u)
          BY <1>3 DEF Requeue, Good, Same, Fields, Names
      <2> QED
          BY <1>3, <2>1, SameIsGood
  <1>5. ASSUME NEW d PROVE Good(Sent(Requeue(u), d))
      BY <1>4, SentIsGood DEF IInv
  <1>6. Becomes(p, u) \/ \E d : Becomes(p, Sent(Requeue(u), d))
      BY <1>2 DEF PollTransmit
  <1>7. now' = now
      BY DEF Step
  <1>8. CASE Becomes(p, u)
      BY <1>3, <1>7, <1>8, OneKeeps
  <1>9. ASSUME NEW d, Becomes(p, Sent(Requeue(u), d)) PROVE IInv'
      BY <1>5, <1>7, <1>9, OneKeeps
  <1> QED
      BY <1>6, <1>8, <1>9

\* A datagram arrives.
LEMMA ReceiveKeeps == ASSUME Admissible, IInv, NEW d, Receive(d) PROVE IInv'
  <1> DEFINE c == IF conn[d.to].life = "Closed" THEN conn[d.to]
                  ELSE HandleDatagram(conn[d.to], d)
  <1>1. d.to \in Peers => Good(c)
      BY HandleDatagramIsGood DEF IInv
  <1>2. Becomes(d.to, c) /\ now' = now
      BY DEF Receive
  <1> HIDE DEF c
  <1> QED
      BY <1>1, <1>2, OneKeeps

\* The clock does not pass the deadline of an acknowledgement, and the
\* deadline is in time.
LEMMA TickKeeps == ASSUME Admissible, IInv, Tick PROVE IInv'
  <1>1. now' = now + 1 /\ conn' = conn /\ now \in Nat
      BY DEF Tick, IInv
  <1>2. ASSUME NEW p \in Peers PROVE Good(conn[p])'
      <2> DEFINE c == conn[p]
      <2>1. Good(c) /\ ~Due(Timeouts(c))
          BY DEF IInv, Tick
      <2> HIDE DEF c
      <2>2. ASSUME c.life # "Closed", NEW t \in c.untold
            PROVE  now + 1 <= t + AckDelay
          <3>1. TransmitAt(c) \subseteq Timeouts(c)
              BY <2>2 DEF Timeouts
          <3>2. ~Due(TransmitAt(c))
              BY <2>1, <3>1 DEF Due
          <3>3. Due({0})
              BY <1>1 DEF Due
          <3>4. TransmitAt(c) # {0}
              BY <3>2, <3>3
          <3>5. AckDeadline(c) \subseteq TransmitAt(c)
              BY <2>2, <3>4 DEF TransmitAt
          <3>6. ASSUME NEW x \in AckDeadline(c) PROVE ~(x <= now)
              BY <3>2, <3>5, <3>6 DEF Due
          <3>7. c.owed \in {"AtOnce", "Held"} /\ t \in Nat
                /\ c.since \in Nat /\ c.alone_after \in Nat
                /\ c.alone_after <= t + AckDelay
                /\ (c.owed = "Held" => c.since <= t)
              BY <1>1, <2>1, <2>2 DEF Good, Scheduled
          <3>8. CASE c.owed = "AtOnce"
              <4>1. c.alone_after \in AckDeadline(c)
                  BY <3>8 DEF AckDeadline
              <4> QED
                  BY <1>1, <3>6, <3>7, <4>1 DEF Admissible
          <3>9. CASE c.owed = "Held"
              <4>1. Larger(c.since + AckDelay, c.alone_after) \in AckDeadline(c)
                  BY <3>9 DEF AckDeadline
              <4>2. Larger(c.since + AckDelay, c.alone_after) > now
                  BY <1>1, <3>6, <3>7, <4>1 DEF Admissible, Larger
              <4> QED
                  BY <1>1, <3>7, <3>9, <4>2 DEF Admissible, Larger
          <3> QED
              BY <3>7, <3>8, <3>9
      <2>3. Fields(c) /\ Announced(c)
          BY <2>1 DEF Good
      <2>4. Scheduled(c)'
          <3>1. c' = c
              BY <1>1 DEF c
          <3> QED
              BY <1>1, <2>1, <3>1 DEF Good, Scheduled, Admissible
      <2>5. InTime(c)'
          <3>1. c' = c
              BY <1>1 DEF c
          <3> QED
              BY <1>1, <2>2, <3>1 DEF InTime
      <2>6. Fields(c)' /\ Announced(c)'
          <3>1. c' = c
              BY <1>1 DEF c
          <3> QED
              BY <2>3, <3>1 DEF Fields, Announced
      <2> QED
          BY <2>4, <2>5, <2>6 DEF Good, c
  <1> QED
      BY <1>1, <1>2 DEF IInv

\* A fresh pair of connections owes and has announced nothing.
LEMMA Start == ASSUME Admissible, Init PROVE IInv
  <1>1. Good(New)
      <2>1. Fields(New)
          BY DEF Fields, Names, New
      <2>2. /\ New.life = "Open" /\ New.ends = << >> /\ New.owed = "Nothing"
            /\ New.since = 0 /\ New.alone_after = 0 /\ New.untold = {}
          BY DEF New
      <2>3. now = 0
          BY DEF Init
      <2> QED
          BY <2>1, <2>2, <2>3
          DEF Good, Announced, Scheduled, InTime, Admissible
  <1> QED
      BY <1>1 DEF Init, IInv

\* Both properties are read off the invariant, which every step keeps.
LEMMA Invariant == ASSUME Admissible PROVE Spec => []IInv
  <1>1. Init => IInv
      BY Start
  <1>2. IInv /\ [Next]_vars => IInv'
      <2> SUFFICES ASSUME IInv, [Next]_vars PROVE IInv'
          OBVIOUS
      <2>1. CASE \E p \in Peers : Step(p)
          BY <2>1, StepKeeps
      <2>2. CASE \E d \in Arrived : Receive(d)
          BY <2>2, ReceiveKeeps
      <2>3. CASE now' = now /\ conn' = conn
          BY <2>3 DEF IInv, Good, Fields, Announced, Scheduled, InTime
      <2>4. CASE Tick
          BY <2>4, TickKeeps
      <2> QED
          BY <2>1, <2>2, <2>3, <2>4 DEF Next, Drop, Sever, vars
  <1> QED
      BY <1>1, <1>2, PTL DEF Spec

\* Whichever of the last notice, the peer's notice and the idle timeout ends
\* a connection, Closed is pushed once and only then.
THEOREM AnnouncedOnce == ASSUME Admissible PROVE Spec => []EndsOnce
  <1>1. IInv => EndsOnce
      BY DEF IInv, Good, Announced, EndsOnce
  <1> QED
      BY <1>1, Invariant, PTL

\* No arrival waits longer than max_ack_delay for the header that reports it.
THEOREM AcksInTime == ASSUME Admissible PROVE Spec => []AckWithinDelay
  <1>1. IInv => AckWithinDelay
      BY DEF IInv, Good, InTime, AckWithinDelay, Live
  <1> QED
      BY <1>1, Invariant, PTL

=============================================================================
