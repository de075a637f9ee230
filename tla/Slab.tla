-------------------------------- MODULE Slab --------------------------------
(***************************************************************************)
(* Slab of slab.rs: items packed densely for iteration, reached through    *)
(* handles that a slot's generation keeps from naming a later occupant.    *)
(*                                                                         *)
(* Slots and dense positions count from 1 here, and 0 is NONE.  A handle   *)
(* is a pair of slot and generation.                                       *)
(***************************************************************************)
EXTENDS Naturals, Sequences, FiniteSets

CONSTANTS Capacity,     \* capacity
          Generations,  \* values a generation takes before it wraps (2^32)
          Items,        \* what is stored
          None          \* Option::None

VARIABLES slots,      \* slot -> Slot
          items,      \* dense position -> item
          owners,     \* dense position -> slot
          free_head,  \* head of the list of free slots
          issued,     \* history: handles returned by an insert
          returned    \* what the last call returned

vars == <<slots, items, owners, free_head, issued, returned>>

Init ==
    /\ slots = << >>
    /\ items = << >>
    /\ owners = << >>
    /\ free_head = 0
    /\ issued = {}
    /\ returned = None

\* wrapping_add(1).
Bump(generation) == (generation + 1) % Generations

\* claim: the slots, the free list and the slot taken.
Claim ==
    IF free_head # 0
    THEN [slots |-> slots, free |-> slots[free_head].index_or_free,
          index |-> free_head]
    ELSE [slots |-> Append(slots, [generation |-> 0, index_or_free |-> 0]),
          free |-> 0, index |-> Len(slots) + 1]

HasRoom == free_head # 0 \/ Len(slots) < Capacity

\* insert and insert_with: claim, then fill.
Insert(item) ==
    LET index == Claim.index
        generation == Bump(Claim.slots[index].generation)
        handle == <<index, generation>>
    IN  /\ HasRoom
        /\ slots' = [Claim.slots EXCEPT
                        ![index] = [generation |-> generation,
                                    index_or_free |-> Len(items) + 1]]
        /\ free_head' = Claim.free
        /\ items' = Append(items, item)
        /\ owners' = Append(owners, index)
        /\ issued' = issued \cup {handle}
        /\ returned' = handle

InsertFull ==
    /\ ~HasRoom
    /\ returned' = None
    /\ UNCHANGED <<slots, items, owners, free_head, issued>>

\* dense_index, 0 for a handle whose item is gone.
DenseIndex(h) ==
    IF h[1] \in DOMAIN slots /\ slots[h[1]].generation = h[2]
    THEN slots[h[1]].index_or_free ELSE 0

\* Vec::swap_remove: the last element fills the hole.
SwapRemove(seq, i) ==
    SubSeq([seq EXCEPT ![i] = seq[Len(seq)]], 1, Len(seq) - 1)

\* The slots once the item that filled the hole at position at is found
\* there; left is what remains of owners.
Repointed(at, left) ==
    IF at <= Len(left)
    THEN [slots EXCEPT ![left[at]].index_or_free = at]
    ELSE slots

\* Mutant: a slot whose generation wrapped is used again.
WornOutNever(generation) == FALSE

\* A generation that wraps to 0 keeps the slot off the free list.
WornOut(generation) == generation = 0

\* remove.
Remove(h) ==
    LET at == DenseIndex(h)
        left == SwapRemove(owners, at)
        generation == Bump(h[2])
        retired == WornOut(generation)
    IN  /\ at # 0
        /\ items' = SwapRemove(items, at)
        /\ owners' = left
        /\ slots' = [Repointed(at, left) EXCEPT
                        ![h[1]].generation = generation,
                        ![h[1]].index_or_free =
                            IF retired THEN @ ELSE free_head]
        /\ free_head' = IF retired THEN free_head ELSE h[1]
        /\ returned' = items[at]
        /\ UNCHANGED issued

RemoveStale(h) ==
    /\ DenseIndex(h) = 0
    /\ returned' = None
    /\ UNCHANGED <<slots, items, owners, free_head, issued>>

Next == \/ \E item \in Items : Insert(item)
        \/ InsertFull
        \/ \E h \in issued : Remove(h) \/ RemoveStale(h)

Spec == Init /\ [][Next]_vars

-----------------------------------------------------------------------------
(* Properties                                                              *)

\* iter: each dense item under the handle its owner's slot has now.
Iter == {<<<<owners[d], slots[owners[d]].generation>>, items[d]>> :
            d \in DOMAIN items}

\* handle_at for slot i: odd means occupied.
HandleAt(i) == IF slots[i].generation % 2 = 1
               THEN {<<i, slots[i].generation>>} ELSE {}

\* The handles that resolve, by generation and by handle_at.
Resolving == {h \in issued : DenseIndex(h) # 0}
                \cap UNION {HandleAt(i) : i \in DOMAIN slots}

Handles == (1..Capacity) \X {g \in 0..(Generations - 1) : g % 2 = 1}

Promise == INSTANCE Table WITH
    live <- [h \in Resolving |-> items[DenseIndex(h)]],
    listed <- Iter,
    answer <- returned

\* The slab is the table it stands for: a handle reaches the item it was
\* given for, and only it, until that is removed; iteration shows the same
\* items; an insert is refused only when every slot is taken or worn out.
KeepsItems == Promise!Spec

=============================================================================
