------------------------------- MODULE Timers -------------------------------
(***************************************************************************)
(* TimerHeap of timer.rs: an indexed binary min-heap of the deadlines of a *)
(* fixed set of slots.                                                     *)
(*                                                                         *)
(* Positions count from 1 here, and 0 is ABSENT.  entries is the live part *)
(* of the array, entries[..len].                                           *)
(***************************************************************************)
EXTENDS Naturals, Sequences

CONSTANTS Slots,  \* slot numbers
          Times,  \* deadlines, and the times a caller asks about
          None    \* Option::None

VARIABLES entries,    \* position -> Entry
          positions,  \* slot -> position
          popped      \* what the last call returned

vars == <<entries, positions, popped>>

\* Both arrays, as the helpers pass them on.
Heap == [entries |-> entries, positions |-> positions]

Precedes(e, f) == e.at < f.at \/ (e.at = f.at /\ e.slot < f.slot)

Parent(i) == i \div 2

Place(h, i, e) ==
    [entries |-> [h.entries EXCEPT ![i] = e],
     positions |-> [h.positions EXCEPT ![e.slot] = i]]

RECURSIVE SiftUp(_, _)

SiftUp(h, i) ==
    LET e == h.entries[i]
        above == h.entries[Parent(i)]
    IN  IF i > 1 /\ Precedes(e, above)
        THEN SiftUp(Place(Place(h, i, above), Parent(i), e), Parent(i))
        ELSE h

\* The child of i that goes first.
Child(h, i) ==
    IF 2 * i < Len(h.entries)
       /\ Precedes(h.entries[2 * i + 1], h.entries[2 * i])
    THEN 2 * i + 1 ELSE 2 * i

RECURSIVE SiftDown(_, _)

SiftDown(h, i) ==
    LET e == h.entries[i]
        child == Child(h, i)
    IN  IF 2 * i <= Len(h.entries) /\ Precedes(h.entries[child], e)
        THEN SiftDown(Place(Place(h, i, h.entries[child]), child, e), child)
        ELSE h

\* Mutant: what fills the hole only ever moves down.
RemoveAtDown(h, i) ==
    LET len == Len(h.entries)
        rest == [entries |-> SubSeq(h.entries, 1, len - 1),
                 positions |-> [h.positions EXCEPT ![h.entries[i].slot] = 0]]
    IN  IF i = len THEN rest
        ELSE SiftDown(Place(rest, i, h.entries[len]), i)

\* The last entry fills the hole, then moves whichever way it must.
RemoveAt(h, i) ==
    LET len == Len(h.entries)
        rest == [entries |-> SubSeq(h.entries, 1, len - 1),
                 positions |-> [h.positions EXCEPT ![h.entries[i].slot] = 0]]
        last == h.entries[len]
        filled == Place(rest, i, last)
    IN  IF i = len THEN rest
        ELSE IF i > 1 /\ Precedes(last, rest.entries[Parent(i)])
        THEN SiftUp(filled, i)
        ELSE SiftDown(filled, i)

Becomes(h, result) ==
    /\ entries' = h.entries
    /\ positions' = h.positions
    /\ popped' = result

\* with_slots.
Init ==
    /\ entries = << >>
    /\ positions = [s \in Slots |-> 0]
    /\ popped = None

\* set for a slot that has no deadline.
SetNew(s, at) ==
    LET e == [at |-> at, slot |-> s]
        end == Len(entries) + 1
    IN  /\ positions[s] = 0
        /\ Becomes(SiftUp([entries |-> Append(entries, e),
                           positions |-> [positions EXCEPT ![s] = end]], end),
                   None)

\* set for a slot that has one: it moves in place.
SetAgain(s, at) ==
    LET i == positions[s]
        moved == [Heap EXCEPT !.entries[i].at = at]
    IN  /\ i # 0
        /\ Becomes(IF at < entries[i].at THEN SiftUp(moved, i)
                   ELSE SiftDown(moved, i), None)

Cancel(s) ==
    Becomes(IF positions[s] = 0 THEN Heap ELSE RemoveAt(Heap, positions[s]),
            None)

PopDue(now) ==
    IF entries # << >> /\ entries[1].at <= now
    THEN Becomes(RemoveAt(Heap, 1), entries[1].slot)
    ELSE Becomes(Heap, None)

Next == \/ \E s \in Slots, at \in Times : SetNew(s, at) \/ SetAgain(s, at)
        \/ \E s \in Slots : Cancel(s)
        \/ \E now \in Times : PopDue(now)

Spec == Init /\ [][Next]_vars

-----------------------------------------------------------------------------
(* Properties                                                              *)

\* deadline(slot), through the position the slot's entry is recorded at.
Deadline(s) == IF positions[s] = 0 THEN None ELSE entries[positions[s]].at

Promise == INSTANCE Deadlines WITH deadline <- [s \in Slots |-> Deadline(s)],
                                   answer <- popped

\* The heap is the table of deadlines it stands for: whatever sets, moves,
\* cancels and pops came before, each slot's deadline is the one last given
\* to it, and the slots come out earliest first.
KeepsDeadlines == Promise!Spec

=============================================================================
