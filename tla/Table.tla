------------------------------- MODULE Table --------------------------------
(***************************************************************************)
(* What a Slab promises: a handle names one item from its insertion to its *)
(* removal and nothing ever after.  The documentation of slab.rs as a      *)
(* state machine.                                                          *)
(***************************************************************************)
EXTENDS Naturals, FiniteSets, Functions

CONSTANTS Handles,   \* every handle the table could give out
          Capacity,  \* items it holds at once
          Items, None

VARIABLES live,    \* handle -> item
          issued,  \* handles given out so far
          listed,  \* what iterating over the table shows
          answer   \* what the last call returned

\* Handles still to be given out, in slots nothing occupies.
Fresh == {h \in Handles \ issued : \A k \in DOMAIN live : k[1] # h[1]}

Shows(map) == {<<h, map[h]>> : h \in DOMAIN map}

Init == live = << >> /\ issued = {} /\ listed = {} /\ answer = None

Insert(item) ==
    \E h \in Fresh :
        /\ live' = [k \in DOMAIN live \cup {h} |->
                       IF k = h THEN item ELSE live[k]]
        /\ issued' = issued \cup {h}
        /\ answer' = h

\* Full means full: no handle is left to give.
Refuse == Fresh = {} /\ answer' = None /\ UNCHANGED <<live, issued>>

Remove(h) ==
    IF h \in DOMAIN live
    THEN /\ live' = Restrict(live, DOMAIN live \ {h})
         /\ answer' = live[h]
         /\ UNCHANGED issued
    ELSE answer' = None /\ UNCHANGED <<live, issued>>

Next == /\ \/ \E item \in Items : Insert(item)
           \/ Refuse
           \/ \E h \in issued : Remove(h)
        /\ listed' = Shows(live')

Spec == Init /\ [][Next]_<<live, issued, listed, answer>>

=============================================================================
