------------------------------- MODULE Ledger -------------------------------
(***************************************************************************)
(* The ring of sent packets and the rules that resolve them: the           *)
(* SequenceBuffer of seq.rs and the ledger half of Delivery in ack.rs.     *)
(*                                                                         *)
(* Operators on values only.  A ring maps each of its N slots to the       *)
(* packet last stored there; a packet's sequence number picks its slot.    *)
(* Sequence numbers start at 1, so 0 stands for Rust's None.  The actions  *)
(* that use these operators are in Delivery (the ledger alone, with its    *)
(* clock) and in Link (the ledger under two endpoints and a network).      *)
(***************************************************************************)
EXTENDS Integers, FiniteSets, FiniteSetsExt

CONSTANTS
    N,                 \* slots of the ring (HISTORY in ack.rs)
    ReorderThreshold,  \* later acknowledgements that declare a loss
    AckBits            \* sequences a header acknowledges below its newest

ASSUME LedgerAssumption ==
    /\ N \in Nat \ {0}
    /\ ReorderThreshold \in Nat \ {0}
    /\ AckBits \in Nat

-----------------------------------------------------------------------------
(* SequenceBuffer: one slot per residue, the newest occupant wins.         *)

Ring == 0..(N - 1)

Slot == [seq : Nat, state : {"Empty", "InFlight", "Acked", "Lost"}]

Empty == [seq |-> 0, state |-> "Empty"]

EmptyRing == [i \in Ring |-> Empty]

SlotOf(q) == q % N

\* get(q) finds q, and the packet is still in flight.
IsInFlight(ring, q) ==
    /\ ring[SlotOf(q)].seq = q
    /\ ring[SlotOf(q)].state = "InFlight"

\* The slots, and the sequences, of the packets whose outcome is unknown.
FlightSlots(ring) == {i \in Ring : ring[i].state = "InFlight"}

Flight(ring) == {ring[i].seq : i \in FlightSlots(ring)}

\* Every slot holds a packet that belongs there, sent no later than bound.
WellPlaced(ring, bound) ==
    /\ ring \in [Ring -> Slot]
    /\ \A i \in Ring : ring[i].state # "Empty" =>
          /\ ring[i].seq \in 1..bound
          /\ SlotOf(ring[i].seq) = i

-----------------------------------------------------------------------------
(* on_sent: the new packet takes its slot; a packet in flight there is     *)
(* evicted, and resolved as lost.                                          *)

Insert(ring, q) ==
    [ring EXCEPT ![SlotOf(q)] = [seq |-> q, state |-> "InFlight"]]

\* Mutant: the packet that had the slot is forgotten.
EvictedUnnoticed(ring, q) == {}

Evicted(ring, q) ==
    IF ring[SlotOf(q)].state = "InFlight" THEN {ring[SlotOf(q)].seq} ELSE {}

-----------------------------------------------------------------------------
(* on_ack and resolve: the header names its newest sequence and, by bit,   *)
(* some of the AckBits sequences below it.                                 *)

Covered(ack, bits) == {ack} \cup {ack - 1 - o : o \in bits}

\* Mutant: the slot is found by index alone, whoever holds it now.
ConfirmUnstamped(ring, acked) ==
    [i \in Ring |->
        IF i \in {SlotOf(q) : q \in acked} /\ ring[i].state # "Empty"
        THEN [seq |-> ring[i].seq, state |-> "Acked"]
        ELSE ring[i]]

\* resolve on every sequence of acked: whatever was known becomes Acked.
Confirm(ring, acked) ==
    [i \in Ring |->
        IF ring[i].seq \in acked /\ ring[i].state # "Empty"
        THEN [seq |-> ring[i].seq, state |-> "Acked"]
        ELSE ring[i]]

\* The packets resolve reports as Acked, and the ones it reports as Spurious.
NewlyAcked(ring, acked) == acked \cap Flight(ring)

\* Mutant: a packet acknowledged twice is reported as well.
SpuriousRepeated(ring, acked) ==
    {ring[i].seq : i \in {j \in Ring : ring[j].seq \in acked
                                       /\ ring[j].state \in {"Lost", "Acked"}}}

Spurious(ring, acked) ==
    {ring[i].seq : i \in {j \in Ring : ring[j].seq \in acked
                                       /\ ring[j].state = "Lost"}}

-----------------------------------------------------------------------------
(* detect_lost walks up from oldest and stops at the first packet in       *)
(* flight that neither rule condemns; late is the set the time rule        *)
(* condemns.  Packets from the largest acknowledged on are not judged.     *)

\* Mutant: off by one in the threshold.
OverdueLater(q, largest_acked, late) ==
    q < largest_acked - ReorderThreshold \/ q \in late

Overdue(q, largest_acked, late) ==
    q <= largest_acked - ReorderThreshold \/ q \in late

\* Mutant: the walk judges only the oldest packet.
CondemnedFirst(ring, oldest, largest_acked, late) ==
    {q \in Flight(ring) :
        q = oldest /\ q < largest_acked /\ Overdue(q, largest_acked, late)}

Condemned(ring, oldest, largest_acked, late) ==
    {q \in Flight(ring) :
        /\ oldest <= q
        /\ q < largest_acked
        /\ \A p \in Flight(ring) :
              (oldest <= p /\ p <= q) => Overdue(p, largest_acked, late)}

MarkLost(ring, lost) ==
    [i \in Ring |->
        IF ring[i].seq \in lost /\ ring[i].state = "InFlight"
        THEN [seq |-> ring[i].seq, state |-> "Lost"]
        ELSE ring[i]]

-----------------------------------------------------------------------------
(* advance_oldest: up to the first packet in flight, or past the last one  *)
(* sent when none is.                                                      *)

\* Mutant: the walk starts one past where it should.
AdvanceOldestSkips(ring, oldest, largest_sent) ==
    LET ahead == {q \in Flight(ring) : oldest < q /\ q <= largest_sent}
    IN  IF ahead # {} THEN Min(ahead)
        ELSE IF oldest <= largest_sent THEN largest_sent + 1
        ELSE oldest

AdvanceOldest(ring, oldest, largest_sent) ==
    LET ahead == {q \in Flight(ring) : oldest <= q /\ q <= largest_sent}
    IN  IF ahead # {} THEN Min(ahead)
        ELSE IF oldest <= largest_sent THEN largest_sent + 1
        ELSE oldest

=============================================================================
