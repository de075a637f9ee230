--------------------------- MODULE DeliveryProofs ---------------------------
(***************************************************************************)
(* The ledger's invariants hold for every ring size, threshold, clock and  *)
(* acknowledgement pattern.                                                *)
(***************************************************************************)
EXTENDS Delivery, TLAPS, WellFoundedInduction, FiniteSetTheorems,
        SequenceTheorems

-----------------------------------------------------------------------------
(* What the operators of the ledger do to the set of packets in flight.    *)

\* A slot index is in range.
LEMMA SlotInRing ==
    ASSUME NEW q \in Nat
    PROVE  SlotOf(q) \in Ring
BY LedgerAssumption DEF SlotOf, Ring

\* A non-empty set of naturals has a least element, and Min names it.
LEMMA MinOfNaturals ==
    ASSUME NEW S \in SUBSET Nat, S # {}
    PROVE  /\ Min(S) \in S
           /\ \A y \in S : Min(S) <= y
<1> DEFINE R == {ss \in Nat \X Nat : ss[1] < ss[2]}
<1>1. IsWellFoundedOn(R, Nat)
  BY NatLessThanWellFounded, Zenon DEF OpToRel
<1>2. PICK x \in S : \A y \in S : ~(<<y, x>> \in R)
  BY <1>1, WFMin, Zenon
<1>3. \A y \in S : x <= y
  <2> TAKE y \in S
  <2>1. x \in Nat /\ y \in Nat
    OBVIOUS
  <2>2. ~(y < x)
    BY <1>2, <2>1
  <2> QED
    BY <2>1, <2>2
<1> QED
  BY <1>3 DEF Min

\* The packets in flight, one by one.
LEMMA FlightMember ==
    ASSUME NEW rows, NEW bound \in Nat, WellPlaced(rows, bound), NEW q
    PROVE  /\ q \in Flight(rows) <=>
                 \E i \in Ring : rows[i].state = "InFlight" /\ rows[i].seq = q
           /\ q \in Flight(rows) =>
                 /\ q \in 1..bound
                 /\ SlotOf(q) \in Ring
                 /\ rows[SlotOf(q)].seq = q
                 /\ rows[SlotOf(q)].state = "InFlight"
BY DEF Flight, FlightSlots, WellPlaced, Slot

\* oldest_in_flight finds the packet exactly when it is in flight.
LEMMA InFlightIff ==
    ASSUME NEW rows, NEW bound \in Nat, WellPlaced(rows, bound),
           NEW q \in Nat
    PROVE  IsInFlight(rows, q) <=> q \in Flight(rows)
BY FlightMember, SlotInRing DEF IsInFlight

\* Inserting a new packet puts it in flight and evicts the packet that had
\* its slot.
LEMMA InsertFlight ==
    ASSUME NEW rows, NEW bound \in Nat, WellPlaced(rows, bound),
           NEW q \in Nat, q = bound + 1
    PROVE  /\ WellPlaced(Insert(rows, q), q)
           /\ Flight(Insert(rows, q)) = (Flight(rows) \ Evicted(rows, q)) \cup {q}
           /\ Evicted(rows, q) \subseteq Flight(rows)
<1>1. SlotOf(q) \in Ring
  BY SlotInRing
<1>2. WellPlaced(Insert(rows, q), q)
  BY <1>1 DEF Insert, WellPlaced, Slot
<1>3. Evicted(rows, q) \subseteq Flight(rows)
  BY <1>1, FlightMember DEF Evicted
<1>4. ASSUME NEW p PROVE p \in Flight(Insert(rows, q)) <=>
                         p \in (Flight(rows) \ Evicted(rows, q)) \cup {q}
  <2>1. p \in Flight(Insert(rows, q)) <=>
          \E i \in Ring : /\ Insert(rows, q)[i].state = "InFlight"
                          /\ Insert(rows, q)[i].seq = p
    BY <1>2, FlightMember
  <2>2. p \in Flight(rows) <=>
          \E i \in Ring : rows[i].state = "InFlight" /\ rows[i].seq = p
    BY FlightMember
  <2>3. \A i \in Ring : Insert(rows, q)[i] =
            IF i = SlotOf(q) THEN [seq |-> q, state |-> "InFlight"] ELSE rows[i]
    BY <1>1 DEF Insert, WellPlaced
  <2>4. CASE p = q
    BY <2>1, <2>3, <2>4, <1>1
  <2>5. CASE p # q
    BY <2>1, <2>2, <2>3, <2>5, <1>1 DEF Evicted, WellPlaced, Slot
  <2> QED
    BY <2>4, <2>5
<1> QED
  BY <1>2, <1>3, <1>4

\* resolve takes the acknowledged packets out of the flight, and no other.
LEMMA ConfirmFlight ==
    ASSUME NEW rows, NEW bound \in Nat, WellPlaced(rows, bound), NEW acked
    PROVE  /\ WellPlaced(Confirm(rows, acked), bound)
           /\ Flight(Confirm(rows, acked)) = Flight(rows) \ acked
<1>1. WellPlaced(Confirm(rows, acked), bound)
  BY DEF Confirm, WellPlaced, Slot
<1>2. ASSUME NEW p PROVE p \in Flight(Confirm(rows, acked)) <=>
                         p \in Flight(rows) \ acked
  <2>1. p \in Flight(Confirm(rows, acked)) <=>
          \E i \in Ring : /\ Confirm(rows, acked)[i].state = "InFlight"
                          /\ Confirm(rows, acked)[i].seq = p
    BY <1>1, FlightMember
  <2>2. p \in Flight(rows) <=>
          \E i \in Ring : rows[i].state = "InFlight" /\ rows[i].seq = p
    BY FlightMember
  <2> QED
    BY <2>1, <2>2 DEF Confirm, WellPlaced, Slot
<1> QED
  BY <1>1, <1>2

\* Declaring packets lost takes them out of the flight, and no other.
LEMMA MarkLostFlight ==
    ASSUME NEW rows, NEW bound \in Nat, WellPlaced(rows, bound), NEW lost
    PROVE  /\ WellPlaced(MarkLost(rows, lost), bound)
           /\ Flight(MarkLost(rows, lost)) = Flight(rows) \ lost
<1>1. WellPlaced(MarkLost(rows, lost), bound)
  BY DEF MarkLost, WellPlaced, Slot
<1>2. ASSUME NEW p PROVE p \in Flight(MarkLost(rows, lost)) <=>
                         p \in Flight(rows) \ lost
  <2>1. p \in Flight(MarkLost(rows, lost)) <=>
          \E i \in Ring : /\ MarkLost(rows, lost)[i].state = "InFlight"
                          /\ MarkLost(rows, lost)[i].seq = p
    BY <1>1, FlightMember
  <2>2. p \in Flight(rows) <=>
          \E i \in Ring : rows[i].state = "InFlight" /\ rows[i].seq = p
    BY FlightMember
  <2> QED
    BY <2>1, <2>2 DEF MarkLost, WellPlaced, Slot
<1> QED
  BY <1>1, <1>2

\* advance_oldest stops on the oldest packet in flight, if there is one.
LEMMA AdvanceOldestFinds ==
    ASSUME NEW rows, NEW bound \in Nat, WellPlaced(rows, bound),
           NEW oldest \in 1..(bound + 1),
           \A q \in Flight(rows) : oldest <= q
    PROVE  LET found == AdvanceOldest(rows, oldest, bound)
           IN  /\ found \in 1..(bound + 1)
               /\ \A q \in Flight(rows) : found <= q
               /\ Flight(rows) # {} => found \in Flight(rows)
<1>1. Flight(rows) \subseteq 1..bound
  BY FlightMember
<1> DEFINE ahead == {q \in Flight(rows) : oldest <= q /\ q <= bound}
<1>2. ahead = Flight(rows)
  BY <1>1
<1>3. CASE ahead = {}
  BY <1>2, <1>3 DEF AdvanceOldest
<1>4. CASE ahead # {}
  <2>1. ahead \in SUBSET Nat
    BY <1>1
  <2>2. Min(ahead) \in ahead /\ \A y \in ahead : Min(ahead) <= y
    BY <2>1, <1>4, MinOfNaturals
  <2>3. AdvanceOldest(rows, oldest, bound) = Min(ahead)
    BY <1>4 DEF AdvanceOldest
  <2> HIDE DEF ahead
  <2> QED
    BY <2>2, <2>3, <1>1, <1>2
<1> QED
  BY <1>3, <1>4

-----------------------------------------------------------------------------
(* The inductive invariant and what its parts give.                        *)

IInv ==
    /\ TypeOK
    /\ Consistent
    /\ TailWatched
    /\ ResolvedOnce
    /\ CountRule
    /\ FlightCounted

\* What notify leaves in the log, packet by packet.
LEMMA NotifyAt ==
    ASSUME NEW log, NEW packets, NEW what, NEW q \in Seqs
    PROVE  Notify(log, packets, what)[q] =
             IF q \in packets THEN Append(log[q], what) ELSE log[q]
BY DEF Notify

\* A ledger that has sent nothing satisfies the invariant.
LEMMA InitIInv == Init => IInv
<1> SUFFICES ASSUME Init PROVE IInv
  OBVIOUS
<1>1. Flight(ring) = {}
  BY DEF Init, Flight, FlightSlots, EmptyRing, Empty
<1>2. TypeOK
  <2>1. notices \in [Seqs -> Seq({"Acked", "Lost", "Spurious"})]
    BY DEF Init
  <2>2. ring \in [Ring -> Slot]
    BY DEF Init, EmptyRing, Empty, Slot
  <2>3. asked \in BOOLEAN
    BY Zenon DEF Init
  <2>4. /\ now \in 0..MaxTime
        /\ sent_at \in [Ring -> 0..MaxTime]
        /\ largest_sent \in 0..MaxSeq
        /\ largest_acked \in 0..MaxSeq
        /\ oldest_unresolved \in 1..(MaxSeq + 1)
        /\ last_eliciting \in 0..MaxTime
        /\ in_flight \in Nat
        /\ probes \in 0..MaxBackoff
        /\ timing \in Timings
        /\ tracked \in SUBSET Seqs
    BY DeliveryAssumption DEF Init
  <2> QED
    BY <2>1, <2>2, <2>3, <2>4, Zenon DEF TypeOK
<1>3. Consistent
  BY DEF Init, Consistent, WellPlaced, EmptyRing, Empty, Slot
<1>4. TailWatched /\ CountRule
  BY <1>1 DEF TailWatched, CountRule
<1>5. ResolvedOnce
  BY <1>1 DEF Init, ResolvedOnce
<1>6. FlightCounted
  BY <1>1, FS_EmptySet DEF Init, FlightCounted
<1> QED
  BY <1>2, <1>3, <1>4, <1>5, <1>6 DEF IInv

\* The numeric part of the type invariant.
Figures ==
    /\ now \in 0..MaxTime
    /\ sent_at \in [Ring -> 0..MaxTime]
    /\ largest_sent \in 0..MaxSeq
    /\ largest_acked \in 0..MaxSeq
    /\ oldest_unresolved \in 1..(MaxSeq + 1)
    /\ last_eliciting \in 0..MaxTime
    /\ in_flight \in Nat
    /\ probes \in 0..MaxBackoff
    /\ timing \in Timings
    /\ tracked \in SUBSET Seqs

\* Removing two disjoint parts of a finite set.
LEMMA CountDown ==
    ASSUME NEW S, IsFiniteSet(S), NEW A \in SUBSET S, NEW B \in SUBSET (S \ A)
    PROVE  /\ Cardinality((S \ A) \ B) =
                 Cardinality(S) - Cardinality(A) - Cardinality(B)
           /\ Cardinality((S \ A) \ B) \in Nat
<1>1. IsFiniteSet(S \ A) /\ Cardinality(S \ A) = Cardinality(S) - Cardinality(S \cap A)
  BY FS_Difference
<1>2. /\ IsFiniteSet((S \ A) \ B)
      /\ Cardinality((S \ A) \ B) = Cardinality(S \ A) - Cardinality((S \ A) \cap B)
  BY <1>1, FS_Difference
<1>3. S \cap A = A /\ (S \ A) \cap B = B
  OBVIOUS
<1>4. Cardinality((S \ A) \ B) \in Nat
  BY <1>2, FS_CardinalityType
<1> QED
  BY <1>1, <1>2, <1>3, <1>4

\* The flight is a finite set of sequences sent.
LEMMA FlightFinite ==
    ASSUME NEW r, NEW bound \in Nat, WellPlaced(r, bound)
    PROVE  Flight(r) \in SUBSET Nat /\ IsFiniteSet(Flight(r))
<1>1. \A q \in Flight(r) : q \in 1..bound
  BY FlightMember
<1>2. Flight(r) \in SUBSET Nat /\ \A q \in Flight(r) : q <= bound
  BY <1>1
<1> QED
  BY <1>2, FS_BoundedSetOfNaturals

\* A log of outcomes is a log of notices.
LEMMA OutcomesTyped ==
    ASSUME NEW log, log = [q \in Seqs |-> log[q]],
           \A q \in Seqs : log[q] \in {<< >>, <<"Acked">>, <<"Lost">>,
                                       <<"Lost", "Spurious">>}
    PROVE  log \in [Seqs -> Seq({"Acked", "Lost", "Spurious"})]
<1>1. ASSUME NEW q \in Seqs PROVE log[q] \in Seq({"Acked", "Lost", "Spurious"})
  <2>1. /\ << >> \in Seq({"Acked", "Lost", "Spurious"})
        /\ <<"Acked">> \in Seq({"Acked", "Lost", "Spurious"})
        /\ <<"Lost">> \in Seq({"Acked", "Lost", "Spurious"})
        /\ <<"Lost", "Spurious">> \in Seq({"Acked", "Lost", "Spurious"})
    OBVIOUS
  <2> QED
    BY <2>1
<1> QED
  BY <1>1

\* What notify appends.
LEMMA Appended ==
    ASSUME NEW S, NEW x \in S, NEW y \in S
    PROVE  Append(<< >>, x) = <<x>> /\ Append(<<x>>, y) = <<x, y>>
<1> DEFINE one == Append(<< >>, x)
           two == Append(<<x>>, y)
           xs == <<x>>
           xys == <<x, y>>
<1>1. << >> \in Seq(S) /\ xs \in Seq(S) /\ xys \in Seq(S)
  OBVIOUS
<1>2. one \in Seq(S) /\ Len(one) = 1 /\ one[1] = x
  BY <1>1, AppendProperties
<1>3. two \in Seq(S) /\ Len(two) = 2 /\ two[1] = x /\ two[2] = y
  BY <1>1, AppendProperties
<1>4. /\ Len(xs) = 1 /\ xs[1] = x
      /\ Len(xys) = 2 /\ xys[1] = x /\ xys[2] = y
  OBVIOUS
<1>5. /\ \A i \in 1..Len(one) : one[i] = xs[i]
      /\ \A i \in 1..Len(two) : two[i] = xys[i]
  BY <1>2, <1>3, <1>4
<1> HIDE DEF one, two, xs, xys
<1>6. one = xs
  BY <1>1, <1>2, <1>4, <1>5, SeqEqual
<1>7. two = xys
  BY <1>1, <1>3, <1>4, <1>5, SeqEqual
<1> QED
  BY <1>6, <1>7 DEF one, two, xs, xys

\* The outcomes are told apart.
LEMMA OutcomesDiffer ==
    /\ <<"Acked">> # << >>
    /\ <<"Lost">> # << >>
    /\ <<"Lost", "Spurious">> # << >>
OBVIOUS

\* What each report leaves in a packet's log.
LEMMA Reported ==
    /\ Append(<< >>, "Acked") = <<"Acked">>
    /\ Append(<< >>, "Lost") = <<"Lost">>
    /\ Append(<<"Lost">>, "Spurious") = <<"Lost", "Spurious">>
<1> DEFINE S == {"Acked", "Lost", "Spurious"}
<1>1. "Acked" \in S /\ "Lost" \in S /\ "Spurious" \in S
  OBVIOUS
<1> QED
  BY <1>1, Appended

\* A packet in flight has been sent as tracked, and nothing was said of it.
LEMMA FlightLogged ==
    ASSUME IInv, NEW p \in Flight(ring)
    PROVE  p \in tracked /\ p \in Seqs /\ notices[p] = << >>
<1> USE DEF IInv
<1>1. largest_sent \in Nat /\ WellPlaced(ring, largest_sent)
  BY DeliveryAssumption DEF TypeOK, Consistent
<1>2. /\ SlotOf(p) \in Ring
      /\ ring[SlotOf(p)].seq = p
      /\ ring[SlotOf(p)].state = "InFlight"
  BY <1>1, FlightMember
<1>3. p \in tracked
  BY <1>2 DEF Consistent
<1>4. p \in Seqs
  BY <1>3 DEF TypeOK
<1> QED
  BY <1>3, <1>4 DEF ResolvedOnce

\* A packet whose slot says otherwise is not in flight.
LEMMA NotInFlight ==
    ASSUME NEW r, NEW bound \in Nat, WellPlaced(r, bound),
           NEW i \in Ring, r[i].state \in {"Lost", "Acked"}
    PROVE  r[i].seq \notin Flight(r)
<1>1. SlotOf(r[i].seq) = i
  BY DEF WellPlaced
<1>2. r[i].seq \in Flight(r) => r[SlotOf(r[i].seq)].state = "InFlight"
  BY FlightMember
<1> QED
  BY <1>1, <1>2

-----------------------------------------------------------------------------
(* One lemma per action.                                                   *)

\* Sending an acknowledgement alone preserves the invariant.
LEMMA OnSentAckOnlyStep == IInv /\ OnSentAckOnly => IInv'
<1> SUFFICES ASSUME IInv, OnSentAckOnly PROVE IInv'
  OBVIOUS
<1> USE DEF IInv
<1> DEFINE q == largest_sent + 1
<1>1. /\ q \in 1..MaxSeq /\ largest_sent \in Nat /\ largest_sent' = q
      /\ UNCHANGED <<now, ring, sent_at, largest_acked, last_eliciting,
                     in_flight, probes, timing, tracked, notices>>
      /\ oldest_unresolved' = AdvanceOldest(ring, oldest_unresolved, q)
      /\ asked' = FALSE
  BY DeliveryAssumption DEF OnSentAckOnly, TypeOK
<1>2. WellPlaced(ring, q)
  BY <1>1 DEF Consistent, WellPlaced
<1>3. /\ oldest_unresolved' \in 1..(q + 1)
      /\ \A p \in Flight(ring) : oldest_unresolved' <= p
      /\ Flight(ring) # {} => oldest_unresolved' \in Flight(ring)
  <2>1. q \in Nat /\ oldest_unresolved \in 1..(q + 1)
    BY <1>1, DeliveryAssumption DEF TypeOK, Consistent
  <2> QED
    BY <1>1, <1>2, <2>1, AdvanceOldestFinds DEF TailWatched
<1>4. TypeOK'
  <2>1. Figures'
    BY <1>1, <1>3, DeliveryAssumption DEF TypeOK, Figures, Seqs
  <2>2. asked' \in BOOLEAN
    BY <1>1
  <2>3. /\ ring' \in [Ring -> Slot]
        /\ notices' \in [Seqs -> Seq({"Acked", "Lost", "Spurious"})]
    BY <1>1 DEF TypeOK
  <2> QED
    BY <2>1, <2>2, <2>3, Zenon DEF TypeOK, Figures
<1>5. Consistent'
  BY <1>1, <1>2, <1>3, DeliveryAssumption DEF Consistent, TypeOK
<1>6. TailWatched'
  BY <1>1, <1>2, <1>3, InFlightIff DEF TailWatched, OldestInFlight
<1>7. ResolvedOnce' /\ FlightCounted' /\ CountRule'
  BY <1>1 DEF ResolvedOnce, FlightCounted, CountRule
<1> QED
  BY <1>4, <1>5, <1>6, <1>7

\* Sending a tracked packet preserves the invariant: the packet it evicts is
\* reported lost and leaves the count.
LEMMA OnSentElicitingStep == IInv /\ OnSentEliciting => IInv'
<1> SUFFICES ASSUME IInv, OnSentEliciting PROVE IInv'
  OBVIOUS
<1> USE DEF IInv
<1> DEFINE q == largest_sent + 1
           gone == Evicted(ring, q)
<1>1. /\ q \in 1..MaxSeq /\ largest_sent \in Nat /\ largest_sent' = q
      /\ last_eliciting' = now
      /\ ring' = Insert(ring, q)
      /\ sent_at' = [sent_at EXCEPT ![SlotOf(q)] = now]
      /\ in_flight' = in_flight + 1 - Cardinality(gone)
      /\ notices' = Notify(notices, gone, "Lost")
      /\ oldest_unresolved' = AdvanceOldest(ring', oldest_unresolved, q)
      /\ tracked' = tracked \cup {q}
      /\ asked' = FALSE
      /\ UNCHANGED <<now, largest_acked, probes, timing>>
  BY DeliveryAssumption DEF OnSentEliciting, TypeOK
<1>2. /\ WellPlaced(ring, largest_sent)
      /\ WellPlaced(ring', q)
      /\ Flight(ring') = (Flight(ring) \ gone) \cup {q}
      /\ gone \subseteq Flight(ring)
      /\ SlotOf(q) \in Ring
  BY <1>1, InsertFlight, SlotInRing DEF Consistent
<1>3. Flight(ring) \subseteq 1..largest_sent
  BY <1>1, <1>2, FlightMember
<1>4. /\ oldest_unresolved' \in 1..(q + 1)
      /\ \A p \in Flight(ring') : oldest_unresolved' <= p
      /\ Flight(ring') # {} => oldest_unresolved' \in Flight(ring')
  <2>1. q \in Nat /\ oldest_unresolved \in 1..(q + 1)
    BY <1>1, DeliveryAssumption DEF TypeOK, Consistent
  <2>2. \A p \in Flight(ring') : oldest_unresolved <= p
    BY <1>1, <1>2, <1>3 DEF TailWatched, Consistent
  <2> HIDE DEF q
  <2> QED
    BY <1>1, <1>2, <2>1, <2>2, AdvanceOldestFinds
<1>5. \A p \in Flight(ring) : p \in tracked /\ p \in Seqs /\ notices[p] = << >>
  BY <1>1, <1>2, FlightLogged
<1>6. \A p \in Seqs : notices'[p] = IF p \in gone THEN <<"Lost">> ELSE notices[p]
  <2> TAKE p \in Seqs
  <2>1. notices'[p] = IF p \in gone THEN Append(notices[p], "Lost") ELSE notices[p]
    <3> HIDE DEF gone
    <3> QED
      BY <1>1, NotifyAt
  <2>2. p \in gone => notices[p] = << >>
    BY <1>2, <1>5
  <2> QED
    BY <2>1, <2>2, Reported, Zenon
<1>7. ResolvedOnce'
  <2> SUFFICES ASSUME NEW p \in Seqs
               PROVE  /\ notices'[p] \in {<< >>, <<"Acked">>, <<"Lost">>,
                                          <<"Lost", "Spurious">>}
                      /\ notices'[p] = << >> <=>
                            (p \in tracked' => p \in Flight(ring'))
    BY DEF ResolvedOnce
  <2>1. q \notin tracked /\ q \notin gone
    BY <1>1, <1>2, <1>3 DEF Consistent
  <2> QED
    BY <1>1, <1>2, <1>5, <1>6, <2>1, OutcomesDiffer DEF ResolvedOnce
<1>8. FlightCounted' /\ in_flight' \in Nat
  <2>1. IsFiniteSet(Flight(ring)) /\ IsFiniteSet(gone)
    BY <1>1, <1>2, FlightFinite, FS_Subset
  <2>2. /\ Cardinality(Flight(ring) \ gone) = Cardinality(Flight(ring)) - Cardinality(gone)
        /\ IsFiniteSet(Flight(ring) \ gone)
    <3>1. Flight(ring) \cap gone = gone
      BY <1>2
    <3> QED
      BY <2>1, <3>1, FS_Difference
  <2>3. Cardinality(Flight(ring')) = Cardinality(Flight(ring) \ gone) + 1
    <3>1. q \notin Flight(ring) \ gone
      BY <1>1, <1>3
    <3> HIDE DEF q
    <3> QED
      BY <1>2, <2>2, <3>1, FS_AddElement
  <2>4. /\ Cardinality(Flight(ring)) \in Nat
        /\ Cardinality(gone) \in Nat
        /\ Cardinality(Flight(ring) \ gone) \in Nat
    BY <2>1, <2>2, FS_CardinalityType
  <2> QED
    BY <1>1, <2>2, <2>3, <2>4 DEF FlightCounted
<1>9. TypeOK'
  <2>1. Figures'
    <3>1. sent_at' \in [Ring -> 0..MaxTime]
      BY <1>1, <1>2 DEF TypeOK
    <3>2. tracked' \in SUBSET Seqs
      BY <1>1 DEF TypeOK, Seqs
    <3>3. oldest_unresolved' \in 1..(MaxSeq + 1)
      BY <1>1, <1>4, DeliveryAssumption
    <3> QED
      BY <1>1, <1>8, <3>1, <3>2, <3>3, DeliveryAssumption DEF TypeOK, Figures
  <2>2. asked' \in BOOLEAN
    BY <1>1
  <2>3. ring' \in [Ring -> Slot]
    BY <1>2 DEF WellPlaced
  <2>4. notices' \in [Seqs -> Seq({"Acked", "Lost", "Spurious"})]
    <3>1. notices' = [p \in Seqs |-> notices'[p]]
      BY <1>1 DEF Notify
    <3> QED
      BY <1>7, <3>1, OutcomesTyped DEF ResolvedOnce
  <2> QED
    BY <2>1, <2>2, <2>3, <2>4, Zenon DEF TypeOK, Figures
<1>10. Consistent'
  <2>1. \A i \in Ring : ring'[i] = IF i = SlotOf(q)
                                   THEN [seq |-> q, state |-> "InFlight"]
                                   ELSE ring[i]
    BY <1>1, <1>2 DEF Insert, WellPlaced
  <2>2. ASSUME NEW i \in Ring, i # SlotOf(q), ring[i].state \in {"Lost", "Acked"}
        PROVE  notices'[ring[i].seq] = notices[ring[i].seq]
    <3>1. ring[i].seq \in 1..largest_sent /\ SlotOf(ring[i].seq) = i
      BY <1>2, <2>2 DEF WellPlaced
    <3>2. ring[i].seq \notin Flight(ring)
      BY <1>1, <1>2, <2>2, <3>1, NotInFlight
    <3>3. ring[i].seq \in Seqs /\ ring[i].seq \notin gone
      BY <1>1, <1>2, <3>1, <3>2, DeliveryAssumption DEF Seqs
    <3> QED
      BY <1>6, <3>3
  <2>3. ASSUME NEW i \in Ring
        PROVE  /\ ring'[i].state = "InFlight" => ring'[i].seq \in tracked'
               /\ ring'[i].state = "Lost" => notices'[ring'[i].seq] = <<"Lost">>
               /\ ring'[i].state = "Acked" =>
                     notices'[ring'[i].seq] \in {<<"Acked">>, <<"Lost", "Spurious">>}
    <3>1. CASE i = SlotOf(q)
      <4>1. ring'[i].state = "InFlight" /\ ring'[i].seq = q
        BY <2>1, <3>1
      <4>2. q \in tracked'
        BY <1>1
      <4> QED
        BY <4>1, <4>2
    <3>2. CASE i # SlotOf(q)
      <4>1. ring'[i] = ring[i]
        BY <2>1, <3>2
      <4>2. /\ ring[i].state = "InFlight" => ring[i].seq \in tracked
            /\ ring[i].state = "Lost" => notices[ring[i].seq] = <<"Lost">>
            /\ ring[i].state = "Acked" =>
                  notices[ring[i].seq] \in {<<"Acked">>, <<"Lost", "Spurious">>}
        BY Zenon DEF Consistent
      <4>3. \A p \in tracked : p \in tracked'
        BY <1>1
      <4>4. ring[i].state \in {"Lost", "Acked"} =>
              notices'[ring[i].seq] = notices[ring[i].seq]
        BY <2>2, <3>2
      <4> QED
        BY <4>1, <4>2, <4>3, <4>4, Zenon
    <3> QED
      BY <3>1, <3>2
  <2>4. /\ tracked' \subseteq 1..largest_sent'
        /\ largest_acked' <= largest_sent'
        /\ oldest_unresolved' <= largest_sent' + 1
    BY <1>1, <1>4 DEF Consistent, TypeOK
  <2> QED
    BY <1>1, <1>2, <2>3, <2>4 DEF Consistent
<1>11. TailWatched'
  BY <1>1, <1>2, <1>4, InFlightIff DEF TailWatched, OldestInFlight
<1>12. CountRule'
  BY <1>1, <1>2, <1>3, LedgerAssumption DEF CountRule, Consistent, TypeOK
<1> QED
  BY <1>7, <1>8, <1>9, <1>10, <1>11, <1>12

\* What resolve and detect_lost make of one slot of the ring.
LEMMA SlotResolved ==
    ASSUME NEW slot, NEW new, NEW lost, NEW acked,
           new = IF slot.state = "InFlight" /\ slot.seq \in lost
                 THEN [seq |-> slot.seq, state |-> "Lost"]
                 ELSE IF slot.state # "Empty" /\ slot.seq \in acked
                 THEN [seq |-> slot.seq, state |-> "Acked"]
                 ELSE slot
    PROVE  /\ slot.state = "Empty" => new.state = "Empty"
           /\ new.seq = slot.seq
           /\ slot.state = "InFlight" =>
                new.state = IF slot.seq \in lost THEN "Lost"
                            ELSE IF slot.seq \in acked THEN "Acked"
                            ELSE "InFlight"
           /\ slot.state = "Lost" =>
                new.state = IF slot.seq \in acked THEN "Acked" ELSE "Lost"
           /\ slot.state = "Acked" => new.state = "Acked"
OBVIOUS

\* What resolve and detect_lost share: acked packets are confirmed, lost ones
\* declared, and every report agrees with the slot it is about.
LEMMA ResolutionStep ==
    ASSUME IInv, NEW acked \in SUBSET tracked,
           NEW lost \in SUBSET (Flight(ring) \ acked),
           ring' = MarkLost(Confirm(ring, acked), lost),
           notices' = Notify(Notify(Notify(notices, NewlyAcked(ring, acked), "Acked"),
                                    Spurious(ring, acked), "Spurious"),
                             lost, "Lost"),
           in_flight' = in_flight - Cardinality(NewlyAcked(ring, acked))
                                  - Cardinality(lost),
           largest_sent' = largest_sent, tracked' = tracked,
           largest_acked' \in 0..largest_sent,
           oldest_unresolved' \in 1..(largest_sent + 1)
    PROVE  /\ WellPlaced(ring', largest_sent)
           /\ Flight(ring') = (Flight(ring) \ acked) \ lost
           /\ notices' \in [Seqs -> Seq({"Acked", "Lost", "Spurious"})]
           /\ in_flight' \in Nat
           /\ Consistent' /\ ResolvedOnce' /\ FlightCounted'
<1> USE DEF IInv
<1> DEFINE fresh == NewlyAcked(ring, acked)
           late == Spurious(ring, acked)
<1>1. /\ largest_sent \in Nat
      /\ WellPlaced(ring, largest_sent)
      /\ tracked \subseteq Seqs
      /\ tracked \subseteq 1..largest_sent
  BY DeliveryAssumption DEF TypeOK, Consistent
<1>2. /\ WellPlaced(ring', largest_sent)
      /\ Flight(ring') = (Flight(ring) \ acked) \ lost
  BY <1>1, ConfirmFlight, MarkLostFlight
<1>3. fresh = acked \cap Flight(ring)
  BY DEF NewlyAcked
<1>4. ASSUME NEW p \in late
      PROVE  p \in acked /\ p \notin Flight(ring) /\ notices[p] = <<"Lost">>
  <2>1. PICK i \in Ring : ring[i].seq = p /\ p \in acked /\ ring[i].state = "Lost"
    BY DEF Spurious
  <2>2. p \notin Flight(ring)
    BY <1>1, <2>1, NotInFlight
  <2> QED
    BY <2>1, <2>2 DEF Consistent
<1>5. \A p \in Flight(ring) : p \in tracked /\ p \in Seqs /\ notices[p] = << >>
  BY FlightLogged
<1>6. ASSUME NEW p \in Seqs
      PROVE  notices'[p] = IF p \in fresh THEN <<"Acked">>
                           ELSE IF p \in late THEN <<"Lost", "Spurious">>
                           ELSE IF p \in lost THEN <<"Lost">>
                           ELSE notices[p]
  <2> DEFINE one == Notify(notices, fresh, "Acked")
             two == Notify(one, late, "Spurious")
  <2>1. one[p] = IF p \in fresh THEN Append(notices[p], "Acked") ELSE notices[p]
    <3> HIDE DEF fresh
    <3> QED BY NotifyAt
  <2>2. two[p] = IF p \in late THEN Append(one[p], "Spurious") ELSE one[p]
    <3> HIDE DEF late, one
    <3> QED BY NotifyAt
  <2>3. notices'[p] = IF p \in lost THEN Append(two[p], "Lost") ELSE two[p]
    <3>1. notices' = Notify(two, lost, "Lost")
      OBVIOUS
    <3> HIDE DEF two
    <3> QED BY <3>1, NotifyAt
  <2>4. /\ p \in fresh => p \notin late /\ p \notin lost /\ notices[p] = << >>
        /\ p \in late => p \notin lost /\ notices[p] = <<"Lost">>
        /\ p \in lost => notices[p] = << >>
    BY <1>3, <1>4, <1>5
  <2> HIDE DEF one, two, fresh, late
  <2> QED
    BY <2>1, <2>2, <2>3, <2>4, Reported, Zenon
<1>7. ResolvedOnce'
  <2> SUFFICES ASSUME NEW p \in Seqs
               PROVE  /\ notices'[p] \in {<< >>, <<"Acked">>, <<"Lost">>,
                                          <<"Lost", "Spurious">>}
                      /\ notices'[p] = << >> <=>
                            (p \in tracked' => p \in Flight(ring'))
    BY DEF ResolvedOnce
  <2>1. p \in fresh \cup late \cup lost => p \in tracked /\ p \notin Flight(ring')
    BY <1>2, <1>3, <1>4, <1>5
  <2>2. p \notin fresh \cup late \cup lost =>
            (p \in Flight(ring') <=> p \in Flight(ring))
    BY <1>2, <1>3
  <2> HIDE DEF fresh, late
  <2> QED
    BY <1>6, <2>1, <2>2, OutcomesDiffer DEF ResolvedOnce
<1>8. notices' \in [Seqs -> Seq({"Acked", "Lost", "Spurious"})]
  <2>1. notices' = [p \in Seqs |-> notices'[p]]
    BY DEF Notify
  <2> QED
    BY <1>7, <2>1, OutcomesTyped DEF ResolvedOnce
<1>9. FlightCounted' /\ in_flight' \in Nat
  <2>1. IsFiniteSet(Flight(ring))
    BY <1>1, FlightFinite
  <2>2. /\ fresh \in SUBSET Flight(ring)
        /\ lost \in SUBSET (Flight(ring) \ fresh)
        /\ Flight(ring') = (Flight(ring) \ fresh) \ lost
    BY <1>2, <1>3
  <2> HIDE DEF fresh
  <2>3. /\ Cardinality(Flight(ring')) =
             Cardinality(Flight(ring)) - Cardinality(fresh) - Cardinality(lost)
        /\ Cardinality(Flight(ring')) \in Nat
    BY <2>1, <2>2, CountDown
  <2> QED
    BY <2>3 DEF FlightCounted, fresh
<1>10. Consistent'
  <2>1. ASSUME NEW i \in Ring
        PROVE  /\ ring'[i].state = "InFlight" => ring'[i].seq \in tracked'
               /\ ring'[i].state = "Lost" => notices'[ring'[i].seq] = <<"Lost">>
               /\ ring'[i].state = "Acked" =>
                     notices'[ring'[i].seq] \in {<<"Acked">>, <<"Lost", "Spurious">>}
    <3> DEFINE p == ring[i].seq
    <3>1. ring[i].state \in {"Empty", "InFlight", "Acked", "Lost"}
      BY <1>1 DEF WellPlaced, Slot
    <3>2. ring'[i] =
            IF ring[i].state = "InFlight" /\ p \in lost
            THEN [seq |-> p, state |-> "Lost"]
            ELSE IF ring[i].state # "Empty" /\ p \in acked
            THEN [seq |-> p, state |-> "Acked"]
            ELSE ring[i]
      BY DEF MarkLost, Confirm
    <3>r. /\ ring[i].state = "Empty" => ring'[i].state = "Empty"
          /\ ring'[i].seq = p
          /\ ring[i].state = "InFlight" =>
               ring'[i].state = IF p \in lost THEN "Lost"
                                ELSE IF p \in acked THEN "Acked"
                                ELSE "InFlight"
          /\ ring[i].state = "Lost" =>
               ring'[i].state = IF p \in acked THEN "Acked" ELSE "Lost"
          /\ ring[i].state = "Acked" => ring'[i].state = "Acked"
      <4> DEFINE slot == ring[i]
                 new == ring'[i]
      <4>1. new = IF slot.state = "InFlight" /\ slot.seq \in lost
                  THEN [seq |-> slot.seq, state |-> "Lost"]
                  ELSE IF slot.state # "Empty" /\ slot.seq \in acked
                  THEN [seq |-> slot.seq, state |-> "Acked"]
                  ELSE slot
        BY <3>2, Zenon
      <4> HIDE DEF slot, new
      <4>2. /\ slot.state = "Empty" => new.state = "Empty"
            /\ new.seq = slot.seq
            /\ slot.state = "InFlight" =>
                 new.state = IF slot.seq \in lost THEN "Lost"
                             ELSE IF slot.seq \in acked THEN "Acked"
                             ELSE "InFlight"
            /\ slot.state = "Lost" =>
                 new.state = IF slot.seq \in acked THEN "Acked" ELSE "Lost"
            /\ slot.state = "Acked" => new.state = "Acked"
        BY <4>1, SlotResolved, Zenon
      <4> QED
        BY <4>2, Zenon DEF slot, new
    <3>3. CASE ring[i].state = "Empty"
      <4>1. ring'[i].state = "Empty"
        BY <3>3, <3>r, Zenon
      <4> QED
        BY <4>1
    <3>4. ring[i].state # "Empty" => p \in Seqs /\ SlotOf(p) = i
      BY <1>1, DeliveryAssumption DEF WellPlaced, TypeOK, Seqs
    <3>5. CASE ring[i].state = "InFlight"
      <4>1. p \in Flight(ring) /\ p \in tracked
        BY <1>1, <3>5, FlightMember DEF Consistent
      <4>2. p \in acked => p \in fresh /\ p \notin lost
        BY <1>3, <4>1
      <4>3. p \notin late
        BY <1>4, <4>1
      <4>4. /\ ring'[i].seq = p
            /\ ring'[i].state = IF p \in lost THEN "Lost"
                                ELSE IF p \in acked THEN "Acked" ELSE "InFlight"
        BY <3>5, <3>r, Zenon
      <4>5. /\ p \in lost => notices'[p] = <<"Lost">>
            /\ p \in acked => notices'[p] = <<"Acked">>
        BY <1>3, <1>6, <3>4, <3>5, <4>2, <4>3
      <4> HIDE DEF p
      <4> QED
        BY <4>1, <4>4, <4>5, Zenon
    <3>6. CASE ring[i].state = "Lost"
      <4>1. p \notin Flight(ring) /\ notices[p] = <<"Lost">>
        BY <1>1, <3>6, NotInFlight DEF Consistent
      <4>2. p \in acked <=> p \in late
        BY <1>4, <3>6 DEF Spurious
      <4>3. /\ ring'[i].seq = p
            /\ ring'[i].state = IF p \in acked THEN "Acked" ELSE "Lost"
        BY <3>6, <3>r, Zenon
      <4>4. notices'[p] = IF p \in acked THEN <<"Lost", "Spurious">> ELSE <<"Lost">>
        BY <1>3, <1>6, <3>4, <3>6, <4>1, <4>2
      <4> HIDE DEF p
      <4> QED
        BY <4>3, <4>4, Zenon
    <3>7. CASE ring[i].state = "Acked"
      <4>1. p \notin Flight(ring)
        BY <1>1, <3>7, NotInFlight
      <4>2. p \notin late
        <5>1. p \in late => \E j \in Ring : ring[j].seq = p /\ ring[j].state = "Lost"
          BY DEF Spurious
        <5>2. \A j \in Ring : ring[j].seq = p /\ ring[j].state = "Lost" => j = i
          BY <1>1, <3>4, <3>7 DEF WellPlaced
        <5> QED
          BY <3>7, <5>1, <5>2
      <4>3. ring'[i].seq = p /\ ring'[i].state = "Acked"
        BY <3>7, <3>r, Zenon
      <4>4. notices'[p] = notices[p]
        BY <1>3, <1>6, <3>4, <3>7, <4>1, <4>2
      <4>5. notices[p] \in {<<"Acked">>, <<"Lost", "Spurious">>}
        BY <3>7 DEF Consistent
      <4> HIDE DEF p
      <4> QED
        BY <4>3, <4>4, <4>5, Zenon
    <3> QED
      BY <3>1, <3>3, <3>5, <3>6, <3>7
  <2>2. /\ tracked' \subseteq 1..largest_sent'
        /\ largest_acked' <= largest_sent'
        /\ oldest_unresolved' <= largest_sent' + 1
    BY <1>1
  <2>3. WellPlaced(ring', largest_sent')
    BY <1>2
  <2> QED
    BY <2>1, <2>2, <2>3, Zenon DEF Consistent
<1> QED
  BY <1>2, <1>7, <1>8, <1>9, <1>10

\* detect_lost stops early and still leaves nothing the count rule condemns.
LEMMA CondemnedCount ==
    ASSUME NEW r, NEW bound \in Nat, WellPlaced(r, bound), NEW oldest \in Nat,
           \A p \in Flight(r) : oldest <= p,
           NEW largest \in Nat, NEW late,
           NEW q \in Flight(r) \ Condemned(r, oldest, largest, late)
    PROVE  q > largest - ReorderThreshold
<1>1. Flight(r) \subseteq 1..bound
  BY FlightMember
<1>2. SUFFICES ASSUME q <= largest - ReorderThreshold PROVE FALSE
  BY <1>1, LedgerAssumption
<1>3. \A p \in Flight(r) : p <= q => p <= largest - ReorderThreshold
  BY <1>1, <1>2, LedgerAssumption
<1>4. q \in Condemned(r, oldest, largest, late)
  BY <1>1, <1>2, <1>3, LedgerAssumption DEF Condemned, Overdue
<1> QED
  BY <1>4

\* advance_oldest keeps the tail watched when the flight has only shrunk.
LEMMA TailStep ==
    ASSUME IInv, WellPlaced(ring', largest_sent), Flight(ring') \subseteq Flight(ring),
           oldest_unresolved' =
               AdvanceOldest(ring', oldest_unresolved, largest_sent)
    PROVE  oldest_unresolved' \in 1..(largest_sent + 1) /\ TailWatched'
<1> USE DEF IInv
<1>1. largest_sent \in Nat /\ oldest_unresolved \in 1..(largest_sent + 1)
  BY DeliveryAssumption DEF TypeOK, Consistent
<1>2. /\ oldest_unresolved' \in 1..(largest_sent + 1)
      /\ \A p \in Flight(ring') : oldest_unresolved' <= p
      /\ Flight(ring') # {} => oldest_unresolved' \in Flight(ring')
  BY <1>1, AdvanceOldestFinds DEF TailWatched
<1> QED
  BY <1>1, <1>2, InFlightIff DEF TailWatched, OldestInFlight

\* An acknowledgement preserves the invariant, whichever sent packets it
\* covers and however late it comes.
LEMMA ReceiveAckStep == IInv /\ ReceiveAck => IInv'
<1> SUFFICES ASSUME IInv, ReceiveAck PROVE IInv'
  OBVIOUS
<1> USE DEF IInv
<1>a. PICK ack \in tracked :
        \E bits \in SUBSET {o \in 0..(AckBits - 1) : ack - 1 - o \in tracked} :
        \E at \in {t \in 0..now : t >= now - Skew} : OnAck(ack, bits, at)
  BY DEF ReceiveAck
<1>1. PICK bits \in SUBSET {o \in 0..(AckBits - 1) : ack - 1 - o \in tracked},
           at \in {t \in 0..now : t >= now - Skew} : OnAck(ack, bits, at)
  BY <1>a
<1> DEFINE acked == Covered(ack, bits)
           fresh == NewlyAcked(ring, acked)
           confirmed == Confirm(ring, acked)
           largest == IF ack > largest_acked THEN ack ELSE largest_acked
           overdue == Late(at, timing'.loss)
           lost == Condemned(confirmed, oldest_unresolved, largest, overdue)
<1>2. /\ largest_acked' = largest
      /\ ring' = MarkLost(confirmed, lost)
      /\ in_flight' = in_flight - Cardinality(fresh) - Cardinality(lost)
      /\ notices' = Notify(Notify(Notify(notices, fresh, "Acked"),
                                  Spurious(ring, acked), "Spurious"),
                           lost, "Lost")
      /\ probes' \in {0, probes}
      /\ timing' = timing \/ timing' \in Timings
      /\ oldest_unresolved' = AdvanceOldest(ring', oldest_unresolved, largest_sent)
      /\ asked' = FALSE
      /\ UNCHANGED <<now, sent_at, largest_sent, last_eliciting, tracked>>
  BY <1>1 DEF OnAck
<1>3. /\ largest_sent \in Nat
      /\ oldest_unresolved \in Nat
      /\ WellPlaced(ring, largest_sent)
      /\ acked \in SUBSET tracked
      /\ largest \in 0..largest_sent
  <2>1. acked \in SUBSET tracked
    BY DEF Covered
  <2>2. /\ largest_sent \in Nat
        /\ oldest_unresolved \in Nat
        /\ WellPlaced(ring, largest_sent)
    BY DeliveryAssumption DEF TypeOK, Consistent
  <2>3. ack \in 1..largest_sent /\ largest_acked \in 0..largest_sent
    BY <2>2 DEF TypeOK, Consistent
  <2> QED
    BY <2>1, <2>2, <2>3
<1>4. /\ WellPlaced(confirmed, largest_sent)
      /\ Flight(confirmed) = Flight(ring) \ acked
  BY <1>3, ConfirmFlight
<1>5. lost \in SUBSET (Flight(ring) \ acked)
  BY <1>4 DEF Condemned
<1>6. /\ WellPlaced(ring', largest_sent)
      /\ Flight(ring') = (Flight(ring) \ acked) \ lost
  <2> HIDE DEF lost, confirmed, acked
  <2> QED
    BY <1>2, <1>3, <1>4, MarkLostFlight
<1>7. oldest_unresolved' \in 1..(largest_sent + 1) /\ TailWatched'
  BY <1>2, <1>6, TailStep
<1>8. /\ notices' \in [Seqs -> Seq({"Acked", "Lost", "Spurious"})]
      /\ in_flight' \in Nat
      /\ Consistent' /\ ResolvedOnce' /\ FlightCounted'
  <2> HIDE DEF lost, acked, largest, IInv
  <2> QED
    BY <1>2, <1>3, <1>5, <1>7, ResolutionStep
<1>9. CountRule'
  <2>1. \A p \in Flight(confirmed) : oldest_unresolved <= p
    BY <1>4 DEF TailWatched
  <2>2. largest \in Nat
    BY <1>3
  <2>3. \A p \in Flight(ring') : p \in Flight(confirmed) \ lost
    BY <1>4, <1>6
  <2> HIDE DEF largest, confirmed, overdue
  <2>4. \A p \in Flight(confirmed) \ lost : p > largest - ReorderThreshold
    BY <1>3, <1>4, <2>1, <2>2, CondemnedCount
  <2> HIDE DEF lost
  <2> QED
    BY <1>2, <2>3, <2>4 DEF CountRule
<1>10. TypeOK'
  <2>1. Figures'
    <3>0. /\ largest_acked' = largest
          /\ probes' \in {0, probes}
          /\ timing' = timing \/ timing' \in Timings
      BY <1>2
    <3>1. largest_acked' \in 0..MaxSeq
      BY <1>3, <3>0, DeliveryAssumption DEF TypeOK
    <3>2. oldest_unresolved' \in 1..(MaxSeq + 1)
      BY <1>7, DeliveryAssumption DEF TypeOK
    <3>3. probes' \in 0..MaxBackoff /\ timing' \in Timings
      BY <3>0, DeliveryAssumption DEF TypeOK
    <3>4. UNCHANGED <<now, sent_at, largest_sent, last_eliciting, tracked>>
      BY <1>2
    <3> QED
      BY <1>8, <3>1, <3>2, <3>3, <3>4 DEF TypeOK, Figures
  <2>2. asked' \in BOOLEAN
    BY <1>2
  <2>3. ring' \in [Ring -> Slot]
    BY <1>6 DEF WellPlaced
  <2> QED
    BY <1>8, <2>1, <2>2, <2>3, Zenon DEF TypeOK, Figures
<1> QED
  BY <1>7, <1>8, <1>9, <1>10

\* A timeout preserves the invariant.
LEMMA OnTimeoutStep == IInv /\ OnTimeout => IInv'
<1> SUFFICES ASSUME IInv, OnTimeout PROVE IInv'
  OBVIOUS
<1> USE DEF IInv
<1> DEFINE overdue == Late(now, timing.loss)
           lost == Condemned(ring, oldest_unresolved, largest_acked, overdue)
<1>1. /\ ring' = MarkLost(ring, lost)
      /\ in_flight' = in_flight - Cardinality(lost)
      /\ notices' = Notify(notices, lost, "Lost")
      /\ oldest_unresolved' =
           IF largest_acked = 0 THEN oldest_unresolved
           ELSE AdvanceOldest(ring', oldest_unresolved, largest_sent)
      /\ UNCHANGED <<now, sent_at, largest_sent, largest_acked, last_eliciting,
                     timing, tracked>>
      /\ probes' \in {Backoff(probes), probes}
  BY Zenon DEF OnTimeout
<1>2. /\ largest_sent \in Nat
      /\ WellPlaced(ring, largest_sent)
      /\ Flight(ring) \subseteq 1..largest_sent
      /\ oldest_unresolved \in 1..(largest_sent + 1)
      /\ largest_acked \in 0..largest_sent
  <2>1. /\ largest_sent \in Nat
        /\ WellPlaced(ring, largest_sent)
    BY DeliveryAssumption DEF TypeOK, Consistent
  <2>2. \A p \in Flight(ring) : p \in 1..largest_sent
    BY <2>1, FlightMember
  <2>3. /\ oldest_unresolved \in 1..(largest_sent + 1)
        /\ largest_acked \in 0..largest_sent
    BY <2>1, DeliveryAssumption DEF TypeOK, Consistent
  <2> QED
    BY <2>1, <2>2, <2>3
<1>3. lost \in SUBSET Flight(ring)
  BY DEF Condemned
<1>4. WellPlaced(ring', largest_sent) /\ Flight(ring') = Flight(ring) \ lost
  <2> HIDE DEF lost
  <2> QED
    BY <1>1, <1>2, MarkLostFlight
<1>5. oldest_unresolved' \in 1..(largest_sent + 1) /\ TailWatched'
  <2>1. CASE largest_acked = 0
    <3>1. Flight(ring') = Flight(ring)
      BY <1>2, <1>4, <2>1 DEF Condemned
    <3>2. oldest_unresolved' = oldest_unresolved
      BY <1>1, <2>1
    <3>3. IsInFlight(ring', oldest_unresolved) <=> IsInFlight(ring, oldest_unresolved)
      BY <1>2, <1>4, <3>1, InFlightIff
    <3> QED
      BY <1>2, <3>1, <3>2, <3>3 DEF TailWatched, OldestInFlight
  <2>2. CASE largest_acked # 0
    <3>1. oldest_unresolved' = AdvanceOldest(ring', oldest_unresolved, largest_sent)
      BY <1>1, <2>2
    <3> QED
      BY <1>4, <3>1, TailStep
  <2> QED
    BY <2>1, <2>2
<1>6. /\ notices' \in [Seqs -> Seq({"Acked", "Lost", "Spurious"})]
      /\ in_flight' \in Nat
      /\ Consistent' /\ ResolvedOnce' /\ FlightCounted'
  <2>1. Confirm(ring, {}) = ring
    BY <1>2 DEF Confirm, WellPlaced
  <2>2. NewlyAcked(ring, {}) = {} /\ Spurious(ring, {}) = {}
    BY DEF NewlyAcked, Spurious
  <2>3. /\ Notify(notices, {}, "Acked") = notices
        /\ Notify(notices, {}, "Spurious") = notices
    BY DEF Notify, TypeOK
  <2>4. in_flight' = in_flight - Cardinality(NewlyAcked(ring, {})) - Cardinality(lost)
    <3>1. Cardinality(NewlyAcked(ring, {})) = 0
      BY <2>2, FS_EmptySet
    <3>2. in_flight \in Nat
      BY DEF TypeOK
    <3> HIDE DEF lost
    <3> QED
      BY <1>1, <3>1, <3>2
  <2>5. {} \in SUBSET tracked /\ lost \in SUBSET (Flight(ring) \ {})
    BY <1>3
  <2> HIDE DEF lost, IInv
  <2> QED
    BY <1>1, <1>2, <1>5, <2>1, <2>2, <2>3, <2>4, <2>5, ResolutionStep
<1>7. CountRule'
  BY <1>1, <1>4 DEF CountRule
<1>8. TypeOK'
  <2>1. Figures'
    <3>1. oldest_unresolved' \in 1..(MaxSeq + 1)
      BY <1>5, DeliveryAssumption DEF TypeOK
    <3>2. probes' \in 0..MaxBackoff
      <4>1. probes' \in {Backoff(probes), probes}
        BY <1>1
      <4> QED
        BY <4>1, DeliveryAssumption DEF TypeOK, Backoff
    <3> QED
      BY <1>1, <1>6, <3>1, <3>2 DEF TypeOK, Figures
  <2>2. asked' \in BOOLEAN
    BY Zenon DEF OnTimeout, ProbeDue
  <2>3. ring' \in [Ring -> Slot]
    BY <1>4 DEF WellPlaced
  <2> QED
    BY <1>6, <2>1, <2>2, <2>3, Zenon DEF TypeOK, Figures
<1> QED
  BY <1>5, <1>6, <1>7, <1>8

\* The clock and a change of path touch nothing the ledger resolves by.
LEMMA TimingStep == IInv /\ (Tick \/ OnPathChange \/ UNCHANGED vars) => IInv'
<1> SUFFICES ASSUME IInv, Tick \/ OnPathChange \/ UNCHANGED vars PROVE IInv'
  OBVIOUS
<1> USE DEF IInv
<1>1. /\ UNCHANGED <<ring, sent_at, largest_sent, largest_acked,
                     oldest_unresolved, last_eliciting, in_flight, tracked,
                     notices>>
      /\ now' \in 0..MaxTime
      /\ probes' \in 0..MaxBackoff
      /\ timing' \in Timings
  BY DeliveryAssumption DEF Tick, OnPathChange, vars, TypeOK
<1>2. asked' \in BOOLEAN
  BY Zenon DEF Tick, OnPathChange, vars, TypeOK
<1>3. Figures'
  BY <1>1 DEF TypeOK, Figures
<1>4. /\ ring' \in [Ring -> Slot]
      /\ notices' \in [Seqs -> Seq({"Acked", "Lost", "Spurious"})]
  BY <1>1 DEF TypeOK
<1>5. TypeOK'
  BY <1>2, <1>3, <1>4, Zenon DEF TypeOK, Figures
<1>6. Consistent' /\ TailWatched' /\ ResolvedOnce' /\ CountRule' /\ FlightCounted'
  BY <1>1 DEF Consistent, TailWatched, OldestInFlight, ResolvedOnce, CountRule,
              FlightCounted
<1> QED
  BY <1>5, <1>6

-----------------------------------------------------------------------------
(* The theorems.                                                           *)

\* The invariant holds in every behaviour of the ledger.
THEOREM Invariance == Spec => []IInv
<1>1. IInv /\ [Next]_vars => IInv'
  BY OnSentAckOnlyStep, OnSentElicitingStep, ReceiveAckStep, OnTimeoutStep,
     TimingStep
     DEF Next
<1> QED
  BY <1>1, InitIInv, PTL DEF Spec

\* The ledger of ack.rs stays well typed.
THEOREM TypeCorrect == Spec => []TypeOK
<1>1. IInv => TypeOK
  BY DEF IInv
<1> QED
  BY <1>1, Invariance, PTL

\* oldest_unresolved always rests on the oldest packet in flight, so the
\* deadlines that read it never leave a flight without a timer.
THEOREM NoUnwatchedTail == Spec => []TailWatched
<1>1. IInv => TailWatched
  BY DEF IInv
<1> QED
  BY <1>1, Invariance, PTL

\* Every tracked packet is reported Acked or Lost exactly once, and only a
\* packet reported Lost is ever reported Spurious.
THEOREM EachResolvesOnce == Spec => []ResolvedOnce
<1>1. IInv => ResolvedOnce
  BY DEF IInv
<1> QED
  BY <1>1, Invariance, PTL

\* The in_flight counter counts the packets in flight and never goes below
\* zero.
THEOREM CounterExact == Spec => []FlightCounted
<1>1. IInv => FlightCounted
  BY DEF IInv
<1> QED
  BY <1>1, Invariance, PTL

\* The early exit of detect_lost leaves no packet the reordering threshold
\* condemns in flight.
THEOREM CountRuleComplete == Spec => []CountRule
<1>1. IInv => CountRule
  BY DEF IInv
<1> QED
  BY <1>1, Invariance, PTL

=============================================================================
