------------------------------- MODULE SeqNum -------------------------------
(***************************************************************************)
(* Packet and message numbering: seq.rs, and the use packet.rs makes of    *)
(* it.  A counter is a natural number; it travels truncated to the values  *)
(* below WireSpan (2^16 in the code) and is resolved against a reference.  *)
(*                                                                         *)
(* A receive window is the newest number received and the set of received  *)
(* numbers its mask still has a bit for.  The code has two of one shape:   *)
(* ReceiveWindow, over packet sequences (which start at 1, so 0 is None),  *)
(* and the duplicate set of an unordered channel, over message ids (which  *)
(* start at 0, so -1 stands for none yet).                                 *)
(***************************************************************************)
EXTENDS Integers

CONSTANT Half  \* half the values a counter takes on the wire (2^15)

ASSUME SeqNumAssumption == Half \in Nat \ {0}

WireSpan == 2 * Half

ToWire(n) == n % WireSpan

\* The wrapping difference of two wire values, as the signed type reads it.
WireDelta(wire, reference) ==
    LET d == (wire - ToWire(reference)) % WireSpan
    IN  IF d < Half THEN d ELSE d - WireSpan

\* The counter nearest reference that travels as wire.  A negative result is
\* the code's None.
Reconstruct(reference, wire) == reference + WireDelta(wire, reference)

-----------------------------------------------------------------------------
(* A window is acceptable for s when s is newer than everything seen, or   *)
(* recent enough to have a bit, and the bit is clear.                      *)

\* ReceiveWindow::check.
Acceptable(w, s, width) ==
    \/ s > w.newest
    \/ w.newest - s < width /\ s \notin w.mask

\* Mutant: a number that is not the newest leaves no bit.
RecordNewest(w, s, width) ==
    LET newest == IF s > w.newest THEN s ELSE w.newest
    IN  [newest |-> newest,
         mask |-> {r \in w.mask \cup {newest} : newest - r < width}]

\* ReceiveWindow::insert.
Record(w, s, width) ==
    LET newest == IF s > w.newest THEN s ELSE w.newest
    IN  [newest |-> newest,
         mask |-> {r \in w.mask \cup {s} : newest - r < width}]

=============================================================================
