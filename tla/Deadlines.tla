----------------------------- MODULE Deadlines -----------------------------
(***************************************************************************)
(* What a TimerHeap promises the endpoint: at most one deadline for each   *)
(* slot, moved or cancelled in place, and the slots that are due handed    *)
(* out earliest first, ties by slot.  The documentation of timer.rs as a   *)
(* state machine.                                                          *)
(***************************************************************************)
EXTENDS Naturals

CONSTANTS Slots, Times, None

VARIABLES deadline,  \* of each slot, or None
          answer     \* what the last call returned, or None

Waiting == {s \in Slots : deadline[s] # None}

\* s is served before r when both are due.
Before(s, r) == \/ deadline[s] < deadline[r]
                \/ deadline[s] = deadline[r] /\ s < r

First == CHOOSE s \in Waiting : \A r \in Waiting \ {s} : Before(s, r)

Init == deadline = [s \in Slots |-> None] /\ answer = None

Set(s, at) ==
    /\ deadline' = [deadline EXCEPT ![s] = at]
    /\ answer' = None

Cancel(s) ==
    /\ deadline' = [deadline EXCEPT ![s] = None]
    /\ answer' = None

PopDue(now) ==
    IF Waiting # {} /\ deadline[First] <= now
    THEN /\ deadline' = [deadline EXCEPT ![First] = None]
         /\ answer' = First
    ELSE answer' = None /\ UNCHANGED deadline

Next == \/ \E s \in Slots, at \in Times : Set(s, at)
        \/ \E s \in Slots : Cancel(s)
        \/ \E now \in Times : PopDue(now)

Spec == Init /\ [][Next]_<<deadline, answer>>

=============================================================================
